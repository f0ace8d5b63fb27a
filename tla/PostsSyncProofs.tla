-------------------------- MODULE PostsSyncProofs ---------------------------
(***************************************************************************)
(* Proofs about PostsSync, for any number of clients and posts, whatever   *)
(* the server refuses, and any bounds on screens, removals and faults.     *)
(*                                                                         *)
(* SyncInv says of each client how its five queues fit together: where the *)
(* listens on their way leave the view (Wire, Awaits), that the cache and  *)
(* the pushes on their way make the server's board once the listen has     *)
(* been served (Synced), that the write tree is the responses held back,   *)
(* those on their way and the requests (Tracked), and what a response is   *)
(* held back for (HeldFor).  Types depend on it: a response settles a      *)
(* write of the tree only because it is the oldest one's.                  *)
(*                                                                         *)
(* BoardInv adds, for a server that refuses nothing, that a record just    *)
(* created is still underway to its announcement: its setValue unanswered, *)
(* its completion block waiting, or its update on the way.                 *)
(*                                                                         *)
(* What all this needs of sequences comes first: induction, recursive      *)
(* functions, concatenation, what is in a queue and in which order, and    *)
(* the operators of SequencesExt that PostsSync uses.                      *)
(***************************************************************************)
EXTENDS PostsSync, FiniteSetTheorems, SequenceTheorems, WellFoundedInduction,
        TLAPS

-----------------------------------------------------------------------------
(* Induction and recursion.  The library's induction theorems take an      *)
(* operator, which the provers cannot instantiate: here the induction is   *)
(* over a set, and recursion is stated for functions.                      *)

LessThan == {ss \in Nat \X Nat : ss[1] < ss[2]}

(* The order of the numbers, as a set of pairs, is well-founded. *)
LEMMA LessThanWellFounded == IsWellFoundedOn(LessThan, Nat)
  BY NatLessThanWellFounded DEF OpToRel, LessThan

(* A set with 0 and every successor holds all numbers, *)
LEMMA InductionOnNat ==
  ASSUME NEW S, 0 \in S, \A n \in Nat : n \in S => n + 1 \in S
  PROVE  Nat \subseteq S
<1> SUFFICES ASSUME Nat \ S # {} PROVE FALSE
  OBVIOUS
<1>1. PICK x \in Nat \ S : \A y \in Nat \ S : ~(<<y, x>> \in LessThan)
  BY LessThanWellFounded, WFMin, Nat \ S \subseteq Nat
<1>2. x # 0 OBVIOUS
<1>3. x - 1 \in Nat BY <1>2
<1>4. <<x - 1, x>> \in LessThan BY <1>3 DEF LessThan
<1>5. x - 1 \in S BY <1>1, <1>3, <1>4
<1> QED BY <1>3, <1>5

(* or all up to N; *)
LEMMA InductionUpTo ==
  ASSUME NEW N \in Nat, NEW S, 0 \in S,
         \A n \in 1 .. N : n - 1 \in S => n \in S
  PROVE  0 .. N \subseteq S
<1> DEFINE G == {n \in Nat : n <= N => n \in S}
<1>1. 0 \in G OBVIOUS
<1>2. \A n \in Nat : n \in G => n + 1 \in G
  <2> TAKE n \in Nat
  <2> HAVE n \in G
  <2>1. CASE n + 1 <= N
    <3>1. n \in S BY <2>1
    <3>2. n + 1 \in 1 .. N /\ (n + 1) - 1 = n BY <2>1
    <3> QED BY <3>1, <3>2
  <2>2. CASE ~(n + 1 <= N) BY <2>2
  <2> QED BY <2>1, <2>2
<1>3. Nat \subseteq G BY <1>1, <1>2, InductionOnNat
<1> QED BY <1>3

(* and a set with <<>> and every Append holds all sequences. *)
LEMMA InductionOnSeq ==
  ASSUME NEW T, NEW S, <<>> \in S,
         \A s \in Seq(T), e \in T : s \in S => Append(s, e) \in S
  PROVE  Seq(T) \subseteq S
<1> DEFINE G == {n \in Nat : \A s \in Seq(T) : Len(s) = n => s \in S}
<1>1. 0 \in G
  BY EmptySeq
<1>2. \A n \in Nat : n \in G => n + 1 \in G
  <2> TAKE n \in Nat
  <2> HAVE n \in G
  <2> SUFFICES ASSUME NEW s \in Seq(T), Len(s) = n + 1 PROVE s \in S
    OBVIOUS
  <2>1. PICK r \in Seq(T), e \in T : s = Append(r, e)
    <3>1. s # <<>> OBVIOUS
    <3> QED BY <3>1, SequenceEmptyOrAppend
  <2>2. Len(r) = n BY <2>1, AppendProperties
  <2> QED BY <2>1, <2>2
<1>3. Nat \subseteq G BY <1>1, <1>2, InductionOnNat
<1> QED
  <2> SUFFICES ASSUME NEW s \in Seq(T) PROVE s \in S OBVIOUS
  <2>1. Len(s) \in Nat OBVIOUS
  <2> QED BY <2>1, <1>3

(* f is the run of step[1], step[2], ..., step[N] from base. *)
IsRecursion(f, base, N, step) ==
  f[0] = base /\ \A n \in 1 .. N : f[n] = step[n][f[n - 1]]

(* Such a run exists. *)
LEMMA RecursionExists ==
  ASSUME NEW T, NEW base \in T, NEW N \in Nat, NEW step \in [1 .. N -> [T -> T]]
  PROVE  \E f \in [0 .. N -> T] : IsRecursion(f, base, N, step)
<1> DEFINE Upto(k, f) == f[0] = base /\ \A n \in 1 .. k : f[n] = step[n][f[n - 1]]
           G == {k \in Nat : k <= N => \E f \in [0 .. N -> T] : Upto(k, f)}
<1>1. 0 \in G
  <2> DEFINE f == [i \in 0 .. N |-> base]
  <2>1. f \in [0 .. N -> T] /\ Upto(0, f) OBVIOUS
  <2> HIDE DEF Upto, f
  <2> QED BY <2>1
<1>2. \A k \in Nat : k \in G => k + 1 \in G
  <2> TAKE k \in Nat
  <2> HAVE k \in G
  <2> SUFFICES ASSUME k + 1 <= N PROVE \E f \in [0 .. N -> T] : Upto(k + 1, f)
    OBVIOUS
  <2>1. PICK f \in [0 .. N -> T] : Upto(k, f) OBVIOUS
  <2> DEFINE v == step[k + 1][f[k]]
             g == [f EXCEPT ![k + 1] = v]
  <2>2. v \in T
    <3>1. step[k + 1] \in [T -> T] OBVIOUS
    <3>2. f[k] \in T OBVIOUS
    <3> QED BY <3>1, <3>2
  <2>3. g \in [0 .. N -> T] BY <2>2
  <2>4. g[0] = base BY <2>1
  <2>5. ASSUME NEW n \in 1 .. k + 1 PROVE g[n] = step[n][g[n - 1]]
    <3>1. n - 1 \in 0 .. N /\ n \in 0 .. N /\ n - 1 # k + 1 OBVIOUS
    <3>2. g[n - 1] = f[n - 1] BY <3>1
    <3>3. CASE n = k + 1
      <4>1. n - 1 = k BY <3>3
      <4>2. g[k + 1] = v BY <3>1, <3>3
      <4> QED BY <3>2, <3>3, <4>1, <4>2
    <3>4. CASE n # k + 1
      <4>1. n \in 1 .. k BY <3>4
      <4>2. f[n] = step[n][f[n - 1]] BY <4>1, <2>1
      <4>3. g[n] = f[n] BY <3>1, <3>4
      <4> QED BY <3>2, <4>2, <4>3
    <3> QED BY <3>3, <3>4
  <2> QED BY <2>3, <2>4, <2>5
<1>3. Nat \subseteq G BY <1>1, <1>2, InductionOnNat
<1>4. \E f \in [0 .. N -> T] : Upto(N, f) BY <1>3
<1> QED BY <1>4 DEF IsRecursion
-----------------------------------------------------------------------------
(* Sequences *)

(* Three sequences, one after the other. *)
LEMMA ConcatThree ==
  ASSUME NEW T, NEW q \in Seq(T), NEW r \in Seq(T), NEW s \in Seq(T)
  PROVE  /\ q \o r \in Seq(T) /\ r \o s \in Seq(T)
         /\ (q \o r) \o s = q \o (r \o s)
<1>1. q \o r \in Seq(T) /\ r \o s \in Seq(T) BY ConcatProperties
<1>2. (q \o r) \o s = q \o (r \o s) BY ConcatAssociative
<1> QED BY <1>1, <1>2

(* A sequence is its head, then its tail, *)
LEMMA HeadThenTail ==
  ASSUME NEW T, NEW q \in Seq(T), q # <<>>
  PROVE  /\ Head(q) \in T /\ Tail(q) \in Seq(T)
         /\ q = <<Head(q)>> \o Tail(q)
<1>1. Head(q) \in T /\ Tail(q) \in Seq(T) BY HeadTailProperties
<1>2. Len(q) \in 1 .. Len(q) BY EmptySeq
<1>3. SubSeq(q, 1, Len(q)) = <<q[1]>> \o SubSeq(q, 2, Len(q))
  BY <1>2, SubSeqRecursiveFirst
<1>4. SubSeq(q, 1, Len(q)) = q BY SubSeqFull
<1>5. Tail(q) = SubSeq(q, 2, Len(q)) BY TailIsSubSeq
<1> QED BY <1>1, <1>3, <1>4, <1>5

(* and the other way round. *)
LEMMA HeadOfConcat ==
  ASSUME NEW T, NEW e \in T, NEW q \in Seq(T)
  PROVE  /\ <<e>> \o q \in Seq(T) /\ <<e>> \o q # <<>>
         /\ Len(<<e>> \o q) = Len(q) + 1
         /\ Head(<<e>> \o q) = e /\ Tail(<<e>> \o q) = q
<1> DEFINE s == <<e>> \o q
<1>1. <<e>> \in Seq(T) /\ Len(<<e>>) = 1 /\ <<e>>[1] = e /\ Len(q) \in Nat OBVIOUS
<1>2. /\ s \in Seq(T) /\ Len(s) = 1 + Len(q)
      /\ \A i \in 1 .. 1 + Len(q) :
           s[i] = IF i <= 1 THEN <<e>>[i] ELSE q[i - 1]
  BY <1>1, ConcatProperties
<1> HIDE DEF s
<1>3. s # <<>> BY <1>1, <1>2
<1>4. Head(s) = e BY <1>1, <1>2, <1>3
<1>5. Tail(s) = q
  <2>1. /\ Tail(s) \in Seq(T) /\ Len(Tail(s)) = Len(s) - 1
        /\ \A i \in 1 .. Len(Tail(s)) : Tail(s)[i] = s[i + 1]
    BY <1>2, <1>3, HeadTailProperties
  <2>2. \A i \in 1 .. Len(q) : s[i + 1] = q[i] BY <1>1, <1>2
  <2>3. Len(Tail(s)) = Len(q) BY <1>1, <1>2, <2>1
  <2>4. \A i \in 1 .. Len(Tail(s)) : Tail(s)[i] = q[i] BY <2>1, <2>2, <2>3
  <2> QED BY <2>1, <2>3, <2>4, SeqEqual
<1> QED BY <1>1, <1>2, <1>3, <1>4, <1>5 DEF s

(* The two parts of a concatenation. *)
LEMMA ConcatParts ==
  ASSUME NEW T, NEW q \in Seq(T), NEW r \in Seq(T)
  PROVE  /\ q \o r \in Seq(T) /\ Len(q \o r) = Len(q) + Len(r)
         /\ SubSeq(q \o r, 1, Len(q)) = q
         /\ SubSeq(q \o r, Len(q) + 1, Len(q \o r)) = r
<1> DEFINE s == q \o r
<1>1. /\ s \in Seq(T) /\ Len(s) = Len(q) + Len(r)
      /\ \A i \in 1 .. Len(q) + Len(r) :
           s[i] = IF i <= Len(q) THEN q[i] ELSE r[i - Len(q)]
  BY ConcatProperties
<1>2. Len(q) \in Nat /\ Len(r) \in Nat OBVIOUS
<1> HIDE DEF s
<1>3. SubSeq(s, 1, Len(q)) = q
  <2>1. \A i \in 1 .. Len(q) : s[i] \in T BY <1>1, <1>2
  <2>2. /\ SubSeq(s, 1, Len(q)) \in Seq(T) /\ Len(SubSeq(s, 1, Len(q))) = Len(q)
        /\ \A i \in 1 .. Len(q) : SubSeq(s, 1, Len(q))[i] = s[i]
    BY <1>1, <1>2, <2>1, SubSeqProperties
  <2> QED BY <1>1, <1>2, <2>2, SeqEqual
<1>4. SubSeq(s, Len(q) + 1, Len(s)) = r
  <2> DEFINE u == SubSeq(s, Len(q) + 1, Len(s))
  <2>1. \A i \in Len(q) + 1 .. Len(s) : s[i] \in T BY <1>1, <1>2
  <2>2. /\ u \in Seq(T) /\ Len(u) = Len(r)
        /\ \A i \in 1 .. Len(r) : u[i] = s[Len(q) + i]
    BY <1>1, <1>2, <2>1, SubSeqProperties
  <2>3. \A i \in 1 .. Len(r) : s[Len(q) + i] = r[i] BY <1>1, <1>2
  <2> HIDE DEF u
  <2>4. \A i \in 1 .. Len(u) : u[i] = r[i] BY <2>2, <2>3
  <2>5. u = r BY <2>2, <2>4, SeqEqual
  <2> QED BY <2>5 DEF u
<1> QED BY <1>1, <1>3, <1>4 DEF s

(* A sequence is a prefix of its extensions, and each extension is the     *)
(* prefix and a rest.                                                      *)
LEMMA PrefixOfConcat ==
  ASSUME NEW T, NEW q \in Seq(T), NEW r \in Seq(T)
  PROVE  IsPrefix(q, q \o r)
<1>1. SubSeq(q, 1, Len(q)) = q BY SubSeqFull
<1>2. Len(q) <= Len(q \o r) BY ConcatParts, Len(q) \in Nat, Len(r) \in Nat
<1> QED BY <1>1, <1>2, ConcatParts DEF IsPrefix

(* What follows a prefix. *)
LEMMA PrefixAndRest ==
  ASSUME NEW T, NEW q \in Seq(T), NEW s \in Seq(T), IsPrefix(q, s)
  PROVE  /\ Len(q) <= Len(s)
         /\ SubSeq(s, Len(q) + 1, Len(s)) \in Seq(T)
         /\ s = q \o SubSeq(s, Len(q) + 1, Len(s))
<1>1. Len(q) \in Nat /\ Len(s) \in Nat /\ Len(q) <= Len(s) BY DEF IsPrefix
<1>2. SubSeq(s, 1, Len(q)) = q BY SubSeqFull DEF IsPrefix
<1> DEFINE r == SubSeq(s, Len(q) + 1, Len(s))
<1>3. /\ r \in Seq(T) /\ Len(r) = Len(s) - Len(q)
      /\ \A i \in 1 .. Len(r) : r[i] = s[Len(q) + i]
  <2>1. \A i \in Len(q) + 1 .. Len(s) : s[i] \in T BY <1>1
  <2> QED BY <1>1, <2>1, SubSeqProperties
<1>4. \A i \in 1 .. Len(q) : q[i] = s[i]
  <2>1. \A i \in 1 .. Len(q) : s[i] \in T BY <1>1
  <2>2. \A i \in 1 .. Len(q) : SubSeq(s, 1, Len(q))[i] = s[i]
    BY <1>1, <2>1, SubSeqProperties
  <2> QED BY <1>2, <2>2
<1> HIDE DEF r
<1>5. /\ q \o r \in Seq(T) /\ Len(q \o r) = Len(s)
      /\ \A i \in 1 .. Len(s) :
           (q \o r)[i] = IF i <= Len(q) THEN q[i] ELSE r[i - Len(q)]
  BY <1>1, <1>3, ConcatProperties
<1>6. \A i \in 1 .. Len(s) : (q \o r)[i] = s[i]
  <2> TAKE i \in 1 .. Len(s)
  <2>1. CASE i <= Len(q) BY <1>1, <1>4, <1>5, <2>1
  <2>2. CASE ~(i <= Len(q))
    <3>1. i - Len(q) \in 1 .. Len(r) BY <1>1, <1>3, <2>2
    <3>2. r[i - Len(q)] = s[Len(q) + (i - Len(q))] BY <1>3, <3>1
    <3>3. Len(q) + (i - Len(q)) = i BY <1>1
    <3> QED BY <1>5, <2>2, <3>2, <3>3
  <2> QED BY <2>1, <2>2
<1>7. q \o r = s BY <1>5, <1>6, SeqEqual
<1> QED BY <1>1, <1>3, <1>7 DEF r

(* Taking the first element out of the sequence. *)
LEMMA RemoveFirstHead ==
  ASSUME NEW T, NEW q \in Seq(T), q # <<>>
  PROVE  RemoveFirst(q, Head(q)) = Tail(q)
<1> DEFINE e == Head(q)
           I == {i \in 1 .. Len(q) : q[i] = e}
<1>1. Len(q) \in Nat \ {0} BY EmptySeq
<1>2. q[1] = e /\ 1 \in I BY <1>1
<1>3. Min(I) = 1
  <2>1. I \subseteq Int /\ \A i \in I : 1 <= i BY <1>1
  <2> HIDE DEF I
  <2>2. Min(I) \in I /\ \A i \in I : Min(I) <= i BY <2>1, <1>2 DEF Min
  <2>3. Min(I) \in Int /\ Min(I) <= 1 /\ 1 <= Min(I) BY <2>1, <2>2, <1>2
  <2> QED BY <2>3
<1>4. RemoveFirst(q, e) = SubSeq(q, 1, 0) \o SubSeq(q, 2, Len(q))
  <2>1. RemoveFirst(q, e) = RemoveAt(q, Min(I))
    BY <1>1, <1>2 DEF RemoveFirst, SelectInSeq
  <2>2. RemoveFirst(q, e) = RemoveAt(q, 1)
    <3> HIDE DEF I, e
    <3> QED BY <2>1, <1>3
  <2>3. RemoveAt(q, 1) = SubSeq(q, 1, 0) \o SubSeq(q, 2, Len(q))
    <3>1. 1 - 1 = 0 /\ 1 + 1 = 2 OBVIOUS
    <3> QED BY <3>1 DEF RemoveAt
  <2> QED BY <2>2, <2>3
<1>5. SubSeq(q, 1, 0) = <<>> BY SubSeqEmpty
<1>6. SubSeq(q, 2, Len(q)) = Tail(q) BY TailIsSubSeq
<1>7. Tail(q) \in Seq(T) BY HeadTailProperties
<1> QED BY <1>4, <1>5, <1>6, <1>7, ConcatEmptySeq

(* Removing one element leaves a sequence. *)
LEMMA RemoveFirstType ==
  ASSUME NEW T, NEW q \in Seq(T), NEW e
  PROVE  RemoveFirst(q, e) \in Seq(T)
<1> DEFINE I == {i \in 1 .. Len(q) : q[i] = e}
<1>1. CASE I = {} BY <1>1 DEF RemoveFirst
<1>2. CASE I # {}
  <2>1. RemoveFirst(q, e) = RemoveAt(q, Min(I))
    BY <1>2 DEF RemoveFirst, SelectInSeq
  <2>2. Min(I) \in I
    <3>1. I \subseteq Nat /\ I # {} BY <1>2
    <3>2. PICK x \in I : \A y \in I : ~(<<y, x>> \in LessThan)
      <4> HIDE DEF I
      <4> QED BY <3>1, LessThanWellFounded, WFMin
    <3>3. \A y \in I : x <= y
      <4> HIDE DEF I
      <4> TAKE y \in I
      <4>1. x \in Nat /\ y \in Nat BY <3>1
      <4>2. ~(y < x) BY <3>2, <4>1 DEF LessThan
      <4> QED BY <4>1, <4>2
    <3> HIDE DEF I
    <3> QED BY <3>3 DEF Min
  <2> DEFINE k == Min(I)
  <2>3. k \in 1 .. Len(q) BY <2>2
  <2> HIDE DEF k, I
  <2>4. SubSeq(q, 1, k - 1) \in Seq(T)
    <3>1. \A i \in 1 .. k - 1 : q[i] \in T BY <2>3
    <3> QED BY <2>3, <3>1, SubSeqProperties
  <2>5. SubSeq(q, k + 1, Len(q)) \in Seq(T)
    <3>1. \A i \in k + 1 .. Len(q) : q[i] \in T BY <2>3
    <3> QED BY <2>3, <3>1, SubSeqProperties
  <2>6. RemoveFirst(q, e) = SubSeq(q, 1, k - 1) \o SubSeq(q, k + 1, Len(q))
    BY <2>1 DEF RemoveAt, k
  <2> QED BY <2>4, <2>5, <2>6, ConcatProperties
<1> QED BY <1>1, <1>2

(* An enumeration of a finite set lists each of its elements once. *)
LEMMA SetToSeqType ==
  ASSUME NEW S, IsFiniteSet(S)
  PROVE  /\ Cardinality(S) \in Nat
         /\ SetToSeq(S) \in [1 .. Cardinality(S) -> S]
         /\ \A x \in S : \E i \in 1 .. Cardinality(S) : SetToSeq(S)[i] = x
         /\ \A i, j \in 1 .. Cardinality(S) : SetToSeq(S)[i] = SetToSeq(S)[j] => i = j
<1> DEFINE D == 1 .. Cardinality(S)
<1>1. Cardinality(S) \in Nat /\ ExistsBijection(D, S) BY FS_CardinalityType
<1>2. PICK f \in Bijection(D, S) : TRUE BY <1>1 DEF ExistsBijection
<1>3. f \in [D -> S] /\ IsInjective(f)
  BY <1>2 DEF Bijection, Injection, IsInjective
<1>4. SetToSeq(S) \in [D -> S] /\ IsInjective(SetToSeq(S))
  BY <1>3 DEF SetToSeq
<1>5. SetToSeq(S) \in Injection(D, S)
  BY <1>4 DEF Injection, IsInjective
<1>6. IsFiniteSet(D) /\ Cardinality(D) = Cardinality(S)
  BY <1>1, FS_Interval
<1>7. SetToSeq(S) \in Surjection(D, S)
  BY <1>5, <1>6, FS_Injection
<1> QED BY <1>1, <1>4, <1>7 DEF Surjection, IsInjective

Associates(q, r, s) == (q \o r) \o s = q \o (r \o s)

(* Concatenation in three parts is associative, *)
LEMMA ConcatAssociates ==
  ASSUME NEW T, NEW q \in Seq(T), NEW r \in Seq(T), NEW s \in Seq(T)
  PROVE  Associates(q, r, s)
BY ConcatAssociative DEF Associates

Shifts(A, D, v, R) == A \o D \o (v \o R) = A \o (D \o v) \o R

(* and in four. *)
LEMMA ConcatShifts ==
  ASSUME NEW T, NEW A \in Seq(T), NEW D \in Seq(T), NEW R \in Seq(T), NEW v \in Seq(T)
  PROVE  Shifts(A, D, v, R)
<1>1. PICK q \in Seq(T) : q = A \o D BY ConcatThree
<1>2. Associates(A, D, v) /\ Associates(q, v, R) BY ConcatAssociates
<1> QED BY <1>1, <1>2 DEF Associates, Shifts

(* ws is the sequences A, D and R, one after the other. *)
Joins(ws, A, D, R) == ws = A \o D \o R

(* They make a sequence. *)
LEMMA JoinsType ==
  ASSUME NEW T, NEW A \in Seq(T), NEW D \in Seq(T), NEW R \in Seq(T),
         NEW ws, Joins(ws, A, D, R)
  PROVE  ws \in Seq(T)
BY ConcatThree DEF Joins

(* What R gains at its end, ws gains, too. *)
LEMMA JoinsConcat ==
  ASSUME NEW T, NEW A \in Seq(T), NEW D \in Seq(T), NEW R \in Seq(T),
         NEW ws, Joins(ws, A, D, R), NEW v \in Seq(T)
  PROVE  ws \o v \in Seq(T) /\ Joins(ws \o v, A, D, R \o v)
<1>1. PICK q \in Seq(T) : q = A \o D BY ConcatThree
<1>2. ws = q \o R BY <1>1 DEF Joins
<1>3. ws \o v = q \o (R \o v) BY <1>2, ConcatThree, SMTT(30)
<1>4. ws \o v \in Seq(T) BY JoinsType, ConcatThree
<1> QED BY <1>1, <1>3, <1>4 DEF Joins

(* What D loses at its head, A gains at its end. *)
LEMMA JoinsMove ==
  ASSUME NEW T, NEW A \in Seq(T), NEW D \in Seq(T), NEW R \in Seq(T),
         NEW v \in Seq(T), NEW ws, Joins(ws, A, v \o D, R)
  PROVE  Joins(ws, A \o v, D, R)
<1>1. A \o (v \o D) = (A \o v) \o D BY ConcatThree, SMTT(30)
<1>2. ws = A \o (v \o D) \o R BY DEF Joins
<1> QED BY <1>1, <1>2 DEF Joins

(* What R loses at its head, D gains at its end. *)
LEMMA JoinsServed ==
  ASSUME NEW T, NEW A \in Seq(T), NEW D \in Seq(T), NEW R \in Seq(T),
         NEW v \in Seq(T), NEW ws, Joins(ws, A, D, v \o R)
  PROVE  Joins(ws, A, D \o v, R)
<1>1. Shifts(A, D, v, R) BY ConcatShifts
<1> QED BY <1>1 DEF Joins, Shifts

(* The first of them is a prefix. *)
LEMMA JoinsPrefix ==
  ASSUME NEW T, NEW A \in Seq(T), NEW D \in Seq(T), NEW R \in Seq(T),
         NEW ws, Joins(ws, A, D, R)
  PROVE  IsPrefix(A, ws)
<1>1. PICK v \in Seq(T) : v = D \o R BY ConcatThree
<1>2. ws = A \o v BY <1>1, ConcatThree DEF Joins
<1> QED BY <1>2, PrefixOfConcat

(* A prefix stays one when the sequence grows. *)
LEMMA PrefixConcat ==
  ASSUME NEW T, NEW A \in Seq(T), NEW ws \in Seq(T), IsPrefix(A, ws), NEW v \in Seq(T)
  PROVE  IsPrefix(A, ws \o v)
<1> DEFINE s == SubSeq(ws, Len(A) + 1, Len(ws))
<1>3. s \in Seq(T) /\ ws = A \o s BY PrefixAndRest
<1> HIDE DEF s
<1>4. PICK r \in Seq(T) : r = s BY <1>3
<1>5. r \o v \in Seq(T) /\ (A \o r) \o v = A \o (r \o v) BY ConcatThree, SMTT(30)
<1>6. IsPrefix(A, A \o (r \o v)) BY <1>5, PrefixOfConcat
<1> QED BY <1>3, <1>4, <1>5, <1>6
-----------------------------------------------------------------------------
(* What a queue holds *)

HasType(q, t) == \E i \in 1 .. Len(q) : q[i].type = t
Has(q, e) == \E i \in 1 .. Len(q) : q[i] = e

(* Each message of type a in q is followed by one of type b. *)
Followed(q, a, b) ==
  \A i \in 1 .. Len(q) :
    q[i].type = a => \E j \in 1 .. Len(q) : j > i /\ q[j].type = b

(* What is in two queues, one after the other, *)
LEMMA HasInConcat ==
  ASSUME NEW T, NEW q \in Seq(T), NEW r \in Seq(T)
  PROVE  /\ \A t : HasType(q \o r, t) <=> HasType(q, t) \/ HasType(r, t)
         /\ \A e : Has(q \o r, e) <=> Has(q, e) \/ Has(r, e)
<1> DEFINE s == q \o r
<1>1. /\ s \in Seq(T) /\ Len(s) = Len(q) + Len(r)
      /\ \A i \in 1 .. Len(q) + Len(r) :
           s[i] = IF i <= Len(q) THEN q[i] ELSE r[i - Len(q)]
  BY ConcatProperties
<1>2. Len(q) \in Nat /\ Len(r) \in Nat OBVIOUS
<1> HIDE DEF s
<1>3. \A i \in 1 .. Len(q) : i \in 1 .. Len(s) /\ s[i] = q[i] BY <1>1, <1>2
<1>4. \A i \in 1 .. Len(r) : Len(q) + i \in 1 .. Len(s) /\ s[Len(q) + i] = r[i]
  <2> TAKE i \in 1 .. Len(r)
  <2>1. Len(q) + i \in 1 .. Len(q) + Len(r) /\ ~(Len(q) + i <= Len(q)) BY <1>2
  <2>2. (Len(q) + i) - Len(q) = i BY <1>2
  <2> QED BY <1>1, <2>1, <2>2
<1>5. \A i \in 1 .. Len(s) :
        \/ i \in 1 .. Len(q) /\ s[i] = q[i]
        \/ i - Len(q) \in 1 .. Len(r) /\ s[i] = r[i - Len(q)]
  BY <1>1, <1>2
<1>6. ASSUME NEW t PROVE HasType(s, t) <=> HasType(q, t) \/ HasType(r, t)
  <2>1. ASSUME HasType(s, t) PROVE HasType(q, t) \/ HasType(r, t)
    BY <1>5, <2>1 DEF HasType
  <2>2. ASSUME HasType(q, t) PROVE HasType(s, t) BY <1>3, <2>2 DEF HasType
  <2>3. ASSUME HasType(r, t) PROVE HasType(s, t) BY <1>4, <2>3 DEF HasType
  <2> QED BY <2>1, <2>2, <2>3
<1>7. ASSUME NEW e PROVE Has(s, e) <=> Has(q, e) \/ Has(r, e)
  BY <1>3, <1>4, <1>5 DEF Has
<1> QED BY <1>6, <1>7 DEF s

(* in a queue of one message, *)
LEMMA HasInOne ==
  ASSUME NEW m
  PROVE  /\ \A t : HasType(<<m>>, t) <=> m.type = t
         /\ \A e : Has(<<m>>, e) <=> m = e
<1>1. Len(<<m>>) = 1 /\ <<m>>[1] = m /\ 1 .. 1 = {1} OBVIOUS
<1> QED BY <1>1 DEF HasType, Has

(* in an empty one, *)
LEMMA HasInNone == (\A t : ~HasType(<<>>, t)) /\ (\A e : ~Has(<<>>, e))
<1>1. Len(<<>>) = 0 /\ 1 .. 0 = {} OBVIOUS
<1> QED BY <1>1 DEF HasType, Has

(* and in a queue with a head. *)
LEMMA HasInHead ==
  ASSUME NEW T, NEW q \in Seq(T), q # <<>>
  PROVE  /\ \A t : HasType(q, t) <=> Head(q).type = t \/ HasType(Tail(q), t)
         /\ \A e : Has(q, e) <=> Head(q) = e \/ Has(Tail(q), e)
<1> DEFINE m == Head(q)
<1>1. m \in T /\ Tail(q) \in Seq(T) /\ q = <<m>> \o Tail(q)
  BY HeadThenTail
<1>2. <<m>> \in Seq(T) BY <1>1
<1> HIDE DEF m
<1> DEFINE r == Tail(q)
           h == <<m>>
<1>3. /\ \A t : HasType(h, t) <=> m.type = t
      /\ \A e : Has(h, e) <=> m = e
  BY HasInOne
<1> HIDE DEF r, h
<1>4. r \in Seq(T) /\ h \in Seq(T) /\ q = h \o r BY <1>1, <1>2 DEF r, h
<1>5. /\ \A t : HasType(h \o r, t) <=> HasType(h, t) \/ HasType(r, t)
      /\ \A e : Has(h \o r, e) <=> Has(h, e) \/ Has(r, e)
  BY <1>4, HasInConcat
<1>6. /\ \A t : HasType(q, t) <=> m.type = t \/ HasType(r, t)
      /\ \A e : Has(q, e) <=> m = e \/ Has(r, e)
  BY <1>3, <1>4, <1>5
<1> QED BY <1>6 DEF m, r

(* Without an a, every a is followed. *)
LEMMA FollowedIfNone ==
  ASSUME NEW q, NEW a, NEW b, ~HasType(q, a)
  PROVE  Followed(q, a, b)
BY DEF HasType, Followed

(* The same of the head and the rest. *)
LEMMA FollowedHead ==
  ASSUME NEW T, NEW q \in Seq(T), q # <<>>, NEW a, NEW b, a # b
  PROVE  Followed(q, a, b) <=>
           /\ Followed(Tail(q), a, b)
           /\ Head(q).type = a => HasType(Tail(q), b)
<1> DEFINE r == Tail(q)
           m == Head(q)
<1>1. /\ r \in Seq(T) /\ Len(r) = Len(q) - 1
      /\ \A i \in 1 .. Len(r) : r[i] = q[i + 1]
  BY HeadTailProperties
<1>2. Len(q) \in Nat /\ Len(q) >= 1 /\ m = q[1] BY EmptySeq
<1> HIDE DEF r, m
<1>3. \A i \in 1 .. Len(r) : i + 1 \in 1 .. Len(q) /\ q[i + 1] = r[i] BY <1>1, <1>2
<1>4. \A i \in 1 .. Len(q) : i # 1 => i - 1 \in 1 .. Len(r) /\ q[i] = r[i - 1]
  <2> TAKE i \in 1 .. Len(q)
  <2> HAVE i # 1
  <2>1. i - 1 \in 1 .. Len(r) /\ (i - 1) + 1 = i BY <1>1, <1>2
  <2> QED BY <1>1, <2>1
<1>5. ASSUME Followed(q, a, b) PROVE Followed(r, a, b) /\ (m.type = a => HasType(r, b))
  <2>1. ASSUME NEW i \in 1 .. Len(r), r[i].type = a
        PROVE  \E j \in 1 .. Len(r) : j > i /\ r[j].type = b
    <3>1. PICK j \in 1 .. Len(q) : j > i + 1 /\ q[j].type = b
      BY <1>3, <1>5, <2>1 DEF Followed
    <3>2. j - 1 \in 1 .. Len(r) /\ q[j] = r[j - 1] /\ j - 1 > i BY <1>4, <3>1, <2>1
    <3> QED BY <3>1, <3>2
  <2>2. ASSUME m.type = a PROVE HasType(r, b)
    <3>1. PICK j \in 1 .. Len(q) : j > 1 /\ q[j].type = b
      BY <1>2, <1>5, <2>2 DEF Followed
    <3> QED BY <1>4, <3>1 DEF HasType
  <2> QED BY <2>1, <2>2 DEF Followed
<1>6. ASSUME Followed(r, a, b), m.type = a => HasType(r, b) PROVE Followed(q, a, b)
  <2> SUFFICES ASSUME NEW i \in 1 .. Len(q), q[i].type = a
               PROVE  \E j \in 1 .. Len(q) : j > i /\ q[j].type = b
    BY DEF Followed
  <2>1. CASE i = 1
    <3>1. PICK j \in 1 .. Len(r) : r[j].type = b BY <1>2, <1>6, <2>1 DEF HasType
    <3> QED BY <1>3, <2>1, <3>1
  <2>2. CASE i # 1
    <3>1. i - 1 \in 1 .. Len(r) /\ r[i - 1].type = a BY <1>4, <2>2
    <3>2. PICK j \in 1 .. Len(r) : j > i - 1 /\ r[j].type = b
      BY <1>6, <3>1 DEF Followed
    <3> QED BY <1>3, <3>2
  <2> QED BY <2>1, <2>2
<1>7. Followed(q, a, b) <=> Followed(r, a, b) /\ (m.type = a => HasType(r, b))
  BY <1>5, <1>6
<1> QED BY <1>7 DEF r, m

(* What comes last stays or is followed. *)
LEMMA FollowedConcat ==
  ASSUME NEW T, NEW q \in Seq(T), NEW r \in Seq(T), NEW a, NEW b,
         ~HasType(r, a), Followed(q, a, b) \/ HasType(r, b)
  PROVE  Followed(q \o r, a, b)
<1> DEFINE s == q \o r
<1>1. /\ s \in Seq(T) /\ Len(s) = Len(q) + Len(r)
      /\ \A i \in 1 .. Len(q) + Len(r) :
           s[i] = IF i <= Len(q) THEN q[i] ELSE r[i - Len(q)]
  BY ConcatProperties
<1>2. Len(q) \in Nat /\ Len(r) \in Nat OBVIOUS
<1> HIDE DEF s
<1>3. \A i \in 1 .. Len(q) : i \in 1 .. Len(s) /\ s[i] = q[i] BY <1>1, <1>2
<1>4. \A i \in 1 .. Len(r) : Len(q) + i \in 1 .. Len(s) /\ s[Len(q) + i] = r[i]
  <2> TAKE i \in 1 .. Len(r)
  <2>1. Len(q) + i \in 1 .. Len(q) + Len(r) /\ ~(Len(q) + i <= Len(q)) BY <1>2
  <2>2. (Len(q) + i) - Len(q) = i BY <1>2
  <2> QED BY <1>1, <2>1, <2>2
<1> SUFFICES ASSUME NEW i \in 1 .. Len(s), s[i].type = a
             PROVE  \E j \in 1 .. Len(s) : j > i /\ s[j].type = b
  BY DEF Followed, s
<1>5. i \in 1 .. Len(q) /\ q[i].type = a
  <2>1. CASE i \in 1 .. Len(q) BY <1>3, <2>1
  <2>2. CASE i \notin 1 .. Len(q)
    <3>1. i - Len(q) \in 1 .. Len(r) /\ s[i] = r[i - Len(q)] BY <1>1, <1>2, <2>2
    <3> QED BY <3>1 DEF HasType
  <2> QED BY <2>1, <2>2
<1>6. CASE HasType(r, b)
  <2>1. PICK j \in 1 .. Len(r) : r[j].type = b BY <1>6 DEF HasType
  <2>2. Len(q) + j > i BY <1>2, <1>5, <2>1
  <2> QED BY <1>4, <2>1, <2>2
<1>7. CASE Followed(q, a, b)
  <2>1. PICK j \in 1 .. Len(q) : j > i /\ q[j].type = b BY <1>5, <1>7 DEF Followed
  <2> QED BY <1>3, <2>1
<1> QED BY <1>6, <1>7

(* What comes last and is of neither type changes nothing; what is itself  *)
(* to be followed is not.                                                  *)
LEMMA FollowedPrefix ==
  ASSUME NEW T, NEW q \in Seq(T), NEW r \in Seq(T), NEW a, NEW b,
         ~HasType(r, b), Followed(q \o r, a, b)
  PROVE  Followed(q, a, b)
<1> DEFINE s == q \o r
<1>1. /\ s \in Seq(T) /\ Len(s) = Len(q) + Len(r)
      /\ \A i \in 1 .. Len(q) + Len(r) :
           s[i] = IF i <= Len(q) THEN q[i] ELSE r[i - Len(q)]
  BY ConcatProperties
<1>2. Len(q) \in Nat /\ Len(r) \in Nat OBVIOUS
<1>3. Followed(s, a, b) OBVIOUS
<1> HIDE DEF s
<1> SUFFICES ASSUME NEW i \in 1 .. Len(q), q[i].type = a
             PROVE  \E j \in 1 .. Len(q) : j > i /\ q[j].type = b
  BY DEF Followed
<1>4. i \in 1 .. Len(s) /\ s[i].type = a BY <1>1, <1>2
<1>5. PICK j \in 1 .. Len(s) : j > i /\ s[j].type = b BY <1>3, <1>4 DEF Followed
<1>6. j <= Len(q)
  <2> SUFFICES ASSUME ~(j <= Len(q)) PROVE FALSE OBVIOUS
  <2>1. j - Len(q) \in 1 .. Len(r) /\ r[j - Len(q)].type = b BY <1>1, <1>2, <1>5
  <2> QED BY <2>1 DEF HasType
<1> QED BY <1>1, <1>2, <1>5, <1>6, SMTT(30)

(* An a at the end is not followed. *)
LEMMA FollowedLast ==
  ASSUME NEW T, NEW q \in Seq(T), NEW m \in T, NEW b
  PROVE  ~Followed(Append(q, m), m.type, b)
<1>1. /\ Append(q, m) \in Seq(T) /\ Len(Append(q, m)) = Len(q) + 1
      /\ Append(q, m)[Len(q) + 1] = m /\ Len(q) \in Nat
  BY AppendProperties
<1> DEFINE s == Append(q, m)
           n == Len(q) + 1
<1> HIDE DEF s
<1>2. n \in 1 .. Len(s) /\ s[n].type = m.type /\ Len(s) = n /\ n \in Nat BY <1>1 DEF s
<1>3. ~Followed(s, m.type, b) BY <1>2 DEF Followed
<1> QED BY <1>3 DEF s

(* What is in a queue with one more message. *)
LEMMA HasInAppend ==
  ASSUME NEW T, NEW q \in Seq(T), NEW m \in T
  PROVE  \A e : Has(Append(q, m), e) <=> Has(q, e) \/ m = e
<1>1. PICK v \in Seq(T) : v = <<m>> BY <<m>> \in Seq(T)
<1>2. Append(q, m) = q \o v BY <1>1, AppendIsConcat
<1>3. \A e : Has(q \o v, e) <=> Has(q, e) \/ Has(v, e) BY HasInConcat
<1>4. \A e : Has(v, e) <=> m = e BY <1>1, HasInOne
<1> QED BY <1>2, <1>3, <1>4

(* An element at the end of a queue is in its rest, wherever that starts. *)
LEMMA HasInRest ==
  ASSUME NEW T, NEW q \in Seq(T), NEW n \in 0 .. Len(q)
  PROVE  \A e : Has(SubSeq(q, n + 1, Len(q)), e) <=> \E i \in n + 1 .. Len(q) : q[i] = e
<1> DEFINE r == SubSeq(q, n + 1, Len(q))
<1>1. Len(q) \in Nat OBVIOUS
<1>2. /\ Len(r) = Len(q) - n
      /\ \A i \in 1 .. Len(r) : r[i] = q[n + i]
  <2>1. n + 1 \in 1 .. Len(q) + 1 BY <1>1
  <2> QED BY <1>1, <2>1, SubSeqProperties
<1> HIDE DEF r
<1>3. ASSUME NEW e PROVE Has(r, e) <=> \E i \in n + 1 .. Len(q) : q[i] = e
  <2>1. ASSUME NEW i \in n + 1 .. Len(q), q[i] = e PROVE Has(r, e)
    <3>1. i - n \in 1 .. Len(r) /\ r[i - n] = e BY <1>1, <1>2, <2>1
    <3> QED BY <3>1 DEF Has
  <2>2. ASSUME NEW i \in 1 .. Len(r), r[i] = e
        PROVE  \E j \in n + 1 .. Len(q) : q[j] = e
    <3>1. n + i \in n + 1 .. Len(q) /\ q[n + i] = e BY <1>1, <1>2, <2>2
    <3> QED BY <3>1
  <2> QED BY <2>1, <2>2 DEF Has
<1> QED BY <1>3 DEF r

(* The rest of a queue with one more message. *)
LEMMA HasInRestOfAppend ==
  ASSUME NEW T, NEW q \in Seq(T), NEW m \in T, NEW n \in 0 .. Len(q)
  PROVE  \A e : /\ Has(SubSeq(q, n + 1, Len(q)), e) =>
                     Has(SubSeq(Append(q, m), n + 1, Len(Append(q, m))), e)
                /\ Has(SubSeq(Append(q, m), n + 1, Len(Append(q, m))), m)
<1> DEFINE s == Append(q, m)
<1>1. /\ s \in Seq(T) /\ Len(s) = Len(q) + 1 /\ Len(q) \in Nat
      /\ \A i \in 1 .. Len(q) : s[i] = q[i]
      /\ s[Len(q) + 1] = m
  BY AppendProperties
<1>2. \A e : Has(SubSeq(q, n + 1, Len(q)), e) <=> \E i \in n + 1 .. Len(q) : q[i] = e
  BY HasInRest
<1> HIDE DEF s
<1>3. n \in 0 .. Len(s) BY <1>1
<1>4. \A e : Has(SubSeq(s, n + 1, Len(s)), e) <=> \E i \in n + 1 .. Len(s) : s[i] = e
  BY <1>1, <1>3, HasInRest
<1>5. Has(SubSeq(s, n + 1, Len(s)), m)
  <2>1. Len(q) + 1 \in n + 1 .. Len(s) BY <1>1
  <2> QED BY <1>1, <1>4, <2>1
<1>6. ASSUME NEW e, NEW i \in n + 1 .. Len(q), q[i] = e
      PROVE  Has(SubSeq(s, n + 1, Len(s)), e)
  <2>1. i \in n + 1 .. Len(s) /\ s[i] = e BY <1>1, <1>6
  <2> QED BY <1>4, <2>1
<1> QED BY <1>2, <1>5, <1>6 DEF s

(* What is in the three, one after the other. *)
LEMMA JoinsHas ==
  ASSUME NEW T, NEW A \in Seq(T), NEW D \in Seq(T), NEW R \in Seq(T),
         NEW ws, Joins(ws, A, D, R)
  PROVE  \A e : Has(ws, e) <=> Has(A, e) \/ Has(D, e) \/ Has(R, e)
<1>1. PICK q \in Seq(T) : q = A \o D BY ConcatThree
<1>2. \A e : Has(q, e) <=> Has(A, e) \/ Has(D, e) BY <1>1, HasInConcat
<1>3. ws = q \o R BY <1>1 DEF Joins
<1>4. \A e : Has(q \o R, e) <=> Has(q, e) \/ Has(R, e) BY HasInConcat
<1> QED BY <1>2, <1>3, <1>4

-----------------------------------------------------------------------------
(* The order of messages in a queue *)

In(q, S) == \E i \in 1 .. Len(q) : q[i] \in S

(* A message of A is in q, and none of B after it. *)
LastIs(q, A, B) ==
  \E j \in 1 .. Len(q) : q[j] \in A /\ \A k \in 1 .. Len(q) : k > j => q[k] \notin B

(* After a message of A there is none of B. *)
NeverAfter(q, A, B) ==
  \A i \in 1 .. Len(q), j \in 1 .. Len(q) : i < j /\ q[i] \in A => q[j] \notin B

(* Each message of A in q comes after one of B, or before one of C, or     *)
(* after one of E with none of C to come.                                  *)
Met(q, A, B, E, C) ==
  \A i \in 1 .. Len(q) : q[i] \in A =>
    \E j \in 1 .. Len(q) :
      \/ j < i /\ q[j] \in B
      \/ j > i /\ q[j] \in C
      \/ j < i /\ q[j] \in E /\ \A k \in 1 .. Len(q) : k > j => q[k] \notin C

(* In an empty queue there is nothing. *)
LEMMA InNone ==
  /\ \A S : ~In(<<>>, S)
  /\ \A A, B : NeverAfter(<<>>, A, B)
  /\ \A A, B, E, C : Met(<<>>, A, B, E, C)
<1>1. Len(<<>>) = 0 /\ 1 .. 0 = {} OBVIOUS
<1> QED BY <1>1 DEF In, NeverAfter, Met

(* A queue with one more message, place by place. *)
LEMMA AppendPlaces ==
  ASSUME NEW T, NEW q \in Seq(T), NEW m \in T
  PROVE  /\ Append(q, m) \in Seq(T) /\ Len(q) \in Nat /\ Len(Append(q, m)) = Len(q) + 1
         /\ \A i \in 1 .. Len(q) : Append(q, m)[i] = q[i]
         /\ Append(q, m)[Len(q) + 1] = m
BY AppendProperties

(* A queue with a head, place by place. *)
LEMMA TailPlaces ==
  ASSUME NEW T, NEW q \in Seq(T), q # <<>>
  PROVE  /\ Tail(q) \in Seq(T) /\ Len(q) \in Nat /\ Len(q) = Len(Tail(q)) + 1
         /\ Len(Tail(q)) \in Nat
         /\ \A i \in 1 .. Len(Tail(q)) : Tail(q)[i] = q[i + 1]
         /\ q[1] = Head(q)
<1>1. /\ Tail(q) \in Seq(T) /\ Len(Tail(q)) = Len(q) - 1
      /\ \A i \in 1 .. Len(Tail(q)) : Tail(q)[i] = q[i + 1]
  BY HeadTailProperties
<1>2. Len(q) \in Nat /\ Len(q) >= 1 /\ q[1] = Head(q) BY EmptySeq
<1> QED BY <1>1, <1>2

(* The same of what is in them, and in which order: of a queue with one    *)
(* more message,                                                           *)
LEMMA InAppend ==
  ASSUME NEW T, NEW q \in Seq(T), NEW m \in T
  PROVE  \A S : In(Append(q, m), S) <=> In(q, S) \/ m \in S
<1> DEFINE r == Append(q, m)
           n == Len(q)
<1>1. /\ n \in Nat /\ Len(r) = n + 1 /\ r[n + 1] = m
      /\ \A i \in 1 .. n : r[i] = q[i]
  BY AppendPlaces
<1> HIDE DEF r, n
<1> SUFFICES ASSUME NEW S PROVE In(r, S) <=> In(q, S) \/ m \in S BY DEF r
<1>2. In(q, S) => In(r, S)
  <2>1. \A i \in 1 .. n : i \in 1 .. Len(r) BY <1>1
  <2> QED BY <1>1, <2>1 DEF In, n
<1>3. m \in S => In(r, S)
  <2>1. n + 1 \in 1 .. Len(r) BY <1>1
  <2> QED BY <1>1, <2>1 DEF In
<1>4. In(r, S) => In(q, S) \/ m \in S
  <2>1. \A i \in 1 .. Len(r) : i = n + 1 \/ i \in 1 .. n BY <1>1
  <2> QED BY <1>1, <2>1 DEF In, n
<1> QED BY <1>2, <1>3, <1>4

(* a message of A is in it that none of B comes after;                     *)
LEMMA LastIsAppend ==
  ASSUME NEW T, NEW q \in Seq(T), NEW m \in T, NEW A, NEW B,
         m \in A \/ (m \notin B /\ LastIs(q, A, B))
  PROVE  LastIs(Append(q, m), A, B)
<1> DEFINE r == Append(q, m)
           n == Len(q)
<1>1. /\ n \in Nat /\ Len(r) = n + 1 /\ r[n + 1] = m
      /\ \A i \in 1 .. n : r[i] = q[i]
  BY AppendPlaces
<1> HIDE DEF r, n
<1>2. CASE m \in A
  <2>1. n + 1 \in 1 .. Len(r) /\ \A k \in 1 .. Len(r) : ~(k > n + 1) BY <1>1
  <2> QED BY <1>1, <1>2, <2>1 DEF LastIs, r
<1>3. CASE m \notin B /\ LastIs(q, A, B)
  <2>1. PICK j \in 1 .. n : q[j] \in A /\ \A k \in 1 .. n : k > j => q[k] \notin B
    BY <1>3 DEF LastIs, n
  <2>2. j \in 1 .. Len(r) /\ r[j] \in A BY <1>1, <2>1
  <2>3. \A k \in 1 .. Len(r) : k > j => r[k] \notin B
    <3>1. \A i \in 1 .. Len(r) : i = n + 1 \/ i \in 1 .. n BY <1>1
    <3> QED BY <1>1, <1>3, <2>1, <3>1
  <2> QED BY <2>2, <2>3 DEF LastIs, r
<1> QED BY <1>2, <1>3

(* none of B comes after one of A;                                         *)
LEMMA NeverAfterAppend ==
  ASSUME NEW T, NEW q \in Seq(T), NEW m \in T, NEW A, NEW B,
         NeverAfter(q, A, B), In(q, A) => m \notin B
  PROVE  NeverAfter(Append(q, m), A, B)
<1> DEFINE r == Append(q, m)
           n == Len(q)
<1>1. /\ n \in Nat /\ Len(r) = n + 1 /\ r[n + 1] = m
      /\ \A i \in 1 .. n : r[i] = q[i]
  BY AppendPlaces
<1> HIDE DEF r, n
<1> SUFFICES ASSUME NEW i \in 1 .. Len(r), NEW j \in 1 .. Len(r), i < j, r[i] \in A
             PROVE  r[j] \notin B
  BY DEF NeverAfter, r
<1>2. i \in 1 .. n BY <1>1
<1>3. CASE j \in 1 .. n BY <1>1, <1>2, <1>3 DEF NeverAfter, n
<1>4. CASE j = n + 1 BY <1>1, <1>2, <1>4 DEF In, n
<1> QED BY <1>1, <1>3, <1>4

(* each message of A is met;                                               *)
LEMMA MetAppend ==
  ASSUME NEW T, NEW q \in Seq(T), NEW m \in T, NEW A, NEW B, NEW E, NEW C,
         \/ m \in C /\ m \notin A
         \/ /\ m \notin C /\ Met(q, A, B, E, C)
            /\ m \in A => In(q, B) \/ LastIs(q, E, C)
  PROVE  Met(Append(q, m), A, B, E, C)
<1> DEFINE r == Append(q, m)
           n == Len(q)
<1>1. /\ n \in Nat /\ Len(r) = n + 1 /\ r[n + 1] = m
      /\ \A i \in 1 .. n : r[i] = q[i]
  BY AppendPlaces
<1> HIDE DEF r, n
<1>2. \A i \in 1 .. Len(r) : i = n + 1 \/ i \in 1 .. n BY <1>1
<1>3. \A i \in 1 .. n : i \in 1 .. Len(r) /\ i < n + 1 BY <1>1
<1>4. n + 1 \in 1 .. Len(r) BY <1>1
<1> SUFFICES ASSUME NEW i \in 1 .. Len(r), r[i] \in A
             PROVE  \E j \in 1 .. Len(r) :
                      \/ j < i /\ r[j] \in B
                      \/ j > i /\ r[j] \in C
                      \/ j < i /\ r[j] \in E /\ \A k \in 1 .. Len(r) : k > j => r[k] \notin C
  BY DEF Met, r
<1>5. CASE m \in C /\ m \notin A
  <2>1. i # n + 1 BY <1>1, <1>5
  <2>2. i \in 1 .. n BY <1>2, <2>1
  <2>3. n + 1 > i BY <1>1, <2>2
  <2> QED BY <1>1, <1>4, <1>5, <2>3
<1>6. CASE /\ m \notin C /\ Met(q, A, B, E, C)
           /\ m \in A => In(q, B) \/ LastIs(q, E, C)
  <2>1. ASSUME NEW j \in 1 .. n, \A k \in 1 .. n : k > j => q[k] \notin C
        PROVE  \A k \in 1 .. Len(r) : k > j => r[k] \notin C
    BY <1>1, <1>2, <1>6, <2>1
  <2>2. CASE i \in 1 .. n
    <3>1. PICK j \in 1 .. n :
            \/ j < i /\ q[j] \in B
            \/ j > i /\ q[j] \in C
            \/ j < i /\ q[j] \in E /\ \A k \in 1 .. n : k > j => q[k] \notin C
      BY <1>1, <1>6, <2>2 DEF Met, n
    <3>2. j \in 1 .. Len(r) /\ r[j] = q[j] BY <1>1, <1>3
    <3> QED BY <2>1, <3>1, <3>2
  <2>3. CASE i = n + 1
    <3>1. In(q, B) \/ LastIs(q, E, C) BY <1>1, <1>6, <2>3
    <3>2. CASE In(q, B)
      <4>1. PICK j \in 1 .. n : q[j] \in B BY <3>2 DEF In, n
      <4> QED BY <1>1, <1>3, <2>3, <4>1
    <3>3. CASE LastIs(q, E, C)
      <4>1. PICK j \in 1 .. n : q[j] \in E /\ \A k \in 1 .. n : k > j => q[k] \notin C
        BY <3>3 DEF LastIs, n
      <4>2. j \in 1 .. Len(r) /\ r[j] = q[j] /\ j < i BY <1>1, <1>3, <2>3
      <4> QED BY <2>1, <4>1, <4>2
    <3> QED BY <3>1, <3>2, <3>3
  <2> QED BY <1>2, <2>2, <2>3
<1> QED BY <1>5, <1>6

(* and of a queue with a head. *)
LEMMA InHead ==
  ASSUME NEW T, NEW q \in Seq(T), q # <<>>
  PROVE  \A S : In(q, S) <=> Head(q) \in S \/ In(Tail(q), S)
<1> DEFINE r == Tail(q)
           n == Len(r)
<1>1. /\ n \in Nat /\ Len(q) = n + 1 /\ q[1] = Head(q)
      /\ \A i \in 1 .. n : r[i] = q[i + 1]
  BY TailPlaces
<1> HIDE DEF r, n
<1> SUFFICES ASSUME NEW S PROVE In(q, S) <=> Head(q) \in S \/ In(r, S) BY DEF r
<1>2. In(r, S) => In(q, S)
  <2>1. \A i \in 1 .. n : i + 1 \in 1 .. Len(q) BY <1>1
  <2> QED BY <1>1, <2>1 DEF In, n
<1>3. Head(q) \in S => In(q, S)
  <2>1. 1 \in 1 .. Len(q) BY <1>1
  <2> QED BY <1>1, <2>1 DEF In
<1>4. In(q, S) => Head(q) \in S \/ In(r, S)
  <2>1. \A i \in 1 .. Len(q) : i # 1 => i - 1 \in 1 .. n /\ q[i] = r[i - 1]
    <3> TAKE i \in 1 .. Len(q)
    <3> HAVE i # 1
    <3>1. i - 1 \in 1 .. n BY <1>1
    <3> QED BY <1>1, <3>1
  <2> QED BY <1>1, <2>1 DEF In, n
<1> QED BY <1>2, <1>3, <1>4

(* a message of A that none of B comes after is the head, or behind it;    *)
LEMMA LastIsHead ==
  ASSUME NEW T, NEW q \in Seq(T), q # <<>>, NEW A, NEW B, LastIs(q, A, B)
  PROVE  LastIs(Tail(q), A, B) \/ (Head(q) \in A /\ ~In(Tail(q), B))
<1> DEFINE r == Tail(q)
           n == Len(r)
<1>1. /\ n \in Nat /\ Len(q) = n + 1 /\ q[1] = Head(q)
      /\ \A i \in 1 .. n : r[i] = q[i + 1]
  BY TailPlaces
<1> HIDE DEF r, n
<1>2. PICK j \in 1 .. Len(q) : q[j] \in A /\ \A k \in 1 .. Len(q) : k > j => q[k] \notin B
  BY DEF LastIs
<1>3. CASE j = 1
  <2>1. \A i \in 1 .. n : i + 1 \in 1 .. Len(q) /\ i + 1 > 1 BY <1>1
  <2>2. \A i \in 1 .. n : r[i] \notin B BY <1>1, <1>2, <1>3, <2>1
  <2> QED BY <1>1, <1>2, <1>3, <2>2 DEF In, r, n
<1>4. CASE j # 1
  <2>1. j - 1 \in 1 .. n /\ r[j - 1] = q[j] BY <1>1, <1>4
  <2>2. \A k \in 1 .. n : k > j - 1 => k + 1 \in 1 .. Len(q) /\ k + 1 > j BY <1>1
  <2>3. \A k \in 1 .. n : k > j - 1 => r[k] \notin B BY <1>1, <1>2, <2>2
  <2>4. LastIs(r, A, B) BY <1>2, <2>1, <2>3 DEF LastIs, n
  <2> QED BY <2>4 DEF r
<1> QED BY <1>3, <1>4

(* none of B comes after one of A, the head or another;                    *)
LEMMA NeverAfterHead ==
  ASSUME NEW T, NEW q \in Seq(T), q # <<>>, NEW A, NEW B, NeverAfter(q, A, B)
  PROVE  /\ NeverAfter(Tail(q), A, B)
         /\ Head(q) \in A => ~In(Tail(q), B)
<1> DEFINE r == Tail(q)
           n == Len(r)
<1>1. /\ n \in Nat /\ Len(q) = n + 1 /\ q[1] = Head(q)
      /\ \A i \in 1 .. n : r[i] = q[i + 1]
  BY TailPlaces
<1> HIDE DEF r, n
<1>2. \A i \in 1 .. n : i + 1 \in 1 .. Len(q) /\ 1 < i + 1 BY <1>1
<1>3. 1 \in 1 .. Len(q) BY <1>1
<1>4. NeverAfter(r, A, B)
  <2> SUFFICES ASSUME NEW i \in 1 .. n, NEW j \in 1 .. n, i < j, r[i] \in A
               PROVE  r[j] \notin B
    BY DEF NeverAfter, n
  <2>1. i + 1 < j + 1 OBVIOUS
  <2> QED BY <1>1, <1>2, <2>1 DEF NeverAfter
<1>5. Head(q) \in A => ~In(r, B)
  BY <1>1, <1>2, <1>3 DEF NeverAfter, In, n
<1> QED BY <1>4, <1>5 DEF r

(* each message of A behind the head is met as before.                     *)
LEMMA MetHead ==
  ASSUME NEW T, NEW q \in Seq(T), q # <<>>, NEW A, NEW B, NEW E, NEW C,
         Met(q, A, B, E, C)
  PROVE  /\ Head(q) \in A => In(Tail(q), C)
         /\ Head(q) \notin B /\ (Head(q) \in E => In(Tail(q), C))
            => Met(Tail(q), A, B, E, C)
<1> DEFINE r == Tail(q)
           n == Len(r)
<1>1. /\ n \in Nat /\ Len(q) = n + 1 /\ q[1] = Head(q)
      /\ \A i \in 1 .. n : r[i] = q[i + 1]
  BY TailPlaces
<1> HIDE DEF r, n
<1>2. \A i \in 1 .. n : i + 1 \in 1 .. Len(q) /\ i + 1 > 1 BY <1>1
<1>3. 1 \in 1 .. Len(q) /\ \A j \in 1 .. Len(q) : ~(j < 1) BY <1>1
<1>4. \A j \in 1 .. Len(q) : j # 1 => j - 1 \in 1 .. n /\ r[j - 1] = q[j]
  <2> TAKE j \in 1 .. Len(q)
  <2> HAVE j # 1
  <2>1. j - 1 \in 1 .. n BY <1>1
  <2> QED BY <1>1, <2>1
<1>5. Head(q) \in A => In(r, C)
  <2> HAVE Head(q) \in A
  <2>1. PICK j \in 1 .. Len(q) : j > 1 /\ q[j] \in C BY <1>1, <1>3 DEF Met
  <2> QED BY <1>4, <2>1 DEF In, n
<1>6. ASSUME Head(q) \notin B, Head(q) \in E => In(r, C)
      PROVE  Met(r, A, B, E, C)
  <2> SUFFICES ASSUME NEW i \in 1 .. n, r[i] \in A
               PROVE  \E j \in 1 .. n :
                      \/ j < i /\ r[j] \in B
                      \/ j > i /\ r[j] \in C
                      \/ j < i /\ r[j] \in E /\ \A k \in 1 .. n : k > j => r[k] \notin C
    BY DEF Met, n
  <2>1. PICK j \in 1 .. Len(q) :
          \/ j < i + 1 /\ q[j] \in B
          \/ j > i + 1 /\ q[j] \in C
          \/ j < i + 1 /\ q[j] \in E /\ \A k \in 1 .. Len(q) : k > j => q[k] \notin C
    BY <1>1, <1>2 DEF Met
  <2>2. j # 1
    <3> SUFFICES ASSUME j = 1 PROVE FALSE OBVIOUS
    <3>1. Head(q) \in E /\ \A k \in 1 .. Len(q) : k > 1 => q[k] \notin C
      BY <1>1, <1>6, <2>1
    <3>2. PICK k \in 1 .. n : r[k] \in C BY <1>6, <3>1 DEF In, n
    <3> QED BY <1>1, <1>2, <3>1, <3>2
  <2>3. j - 1 \in 1 .. n /\ r[j - 1] = q[j] BY <1>4, <2>2
  <2>4. \A k \in 1 .. n : k > j - 1 => k + 1 > j /\ r[k] = q[k + 1] BY <1>1
  <2>5. (\A k \in 1 .. Len(q) : k > j => q[k] \notin C)
        => \A k \in 1 .. n : k > j - 1 => r[k] \notin C
    BY <1>2, <2>4
  <2>6. (j < i + 1 => j - 1 < i) /\ (j > i + 1 => j - 1 > i) OBVIOUS
  <2> QED BY <2>1, <2>3, <2>5, <2>6
<1> QED BY <1>5, <1>6 DEF r

-----------------------------------------------------------------------------
(* Folds over queues *)

(* What a message adds. *)
AnswerOf(m) == IF m.type = "ack" THEN <<m.write>> ELSE <<>>
RequestOf(m) == IF m.type \in WriteOps THEN <<m>> ELSE <<>>

(* Answered's recursion is well-founded: it is the last of these steps. *)
LEMMA AnsweredDef ==
  ASSUME NEW q \in Seq(Responses)
  PROVE  \E f \in [0 .. Len(q) -> Seq(LocalWrites)] :
           /\ f[0] = <<>> /\ Answered(q) = f[Len(q)]
           /\ \A n \in 1 .. Len(q) :
                f[n] = IF q[n].type = "ack" THEN Append(f[n - 1], q[n].write)
                       ELSE f[n - 1]
<1> DEFINE T == Seq(LocalWrites)
           step == [n \in 1 .. Len(q) |-> [s \in T |->
                      IF q[n].type = "ack" THEN Append(s, q[n].write) ELSE s]]
           F(g) == [n \in 0 .. Len(q) |->
                      IF n = 0 THEN <<>>
                      ELSE IF q[n].type = "ack" THEN Append(g[n - 1], q[n].write)
                      ELSE g[n - 1]]
           found == CHOOSE g : g = F(g)
<1>1. step \in [1 .. Len(q) -> [T -> T]]
  <2> SUFFICES ASSUME NEW n \in 1 .. Len(q), NEW s \in T
               PROVE  (IF q[n].type = "ack" THEN Append(s, q[n].write) ELSE s) \in T
    OBVIOUS
  <2>1. q[n] \in Responses BY ElementOfSeq
  <2>2. q[n].type = "ack" => q[n].write \in LocalWrites BY <2>1 DEF Responses, Acks, LocalWrites, WriteOps
  <2> QED BY <2>2, AppendProperties
<1>2. PICK f \in [0 .. Len(q) -> T] : IsRecursion(f, <<>>, Len(q), step)
  <2> HIDE DEF step
  <2> QED BY <1>1, RecursionExists, Len(q) \in Nat, <<>> \in T
<1>3. f[0] = <<>> /\ \A n \in 1 .. Len(q) :
        f[n] = IF q[n].type = "ack" THEN Append(f[n - 1], q[n].write) ELSE f[n - 1]
  <2>1. \A n \in 1 .. Len(q) : f[n - 1] \in T OBVIOUS
  <2> QED BY <1>2, <2>1 DEF IsRecursion
<1>4. f = F(f)
  <2>1. \A n \in 0 .. Len(q) : f[n] = F(f)[n]
    <3> TAKE n \in 0 .. Len(q)
    <3>1. CASE n = 0 BY <1>3, <3>1
    <3>2. CASE n # 0
      <4>1. n \in 1 .. Len(q) BY <3>2
      <4> QED BY <1>3, <3>2, <4>1
    <3> QED BY <3>1, <3>2
  <2> QED BY <2>1
<1>5. found = F(found)
  <2> HIDE DEF F
  <2> QED BY <1>4
<1>6. Answered(q) = found[Len(q)]
  BY DEF Answered
<1>7. \A n \in 0 .. Len(q) : found[n] = f[n]
  <2>1. found[0] = f[0]
    <3>1. found[0] = F(found)[0]
      <4> HIDE DEF F, found
      <4> QED BY <1>5
    <3>2. F(found)[0] = <<>>
      <4> HIDE DEF found
      <4> QED OBVIOUS
    <3> HIDE DEF found, F
    <3> QED BY <3>1, <3>2, <1>3
  <2>2. ASSUME NEW n \in 1 .. Len(q), found[n - 1] = f[n - 1]
        PROVE  found[n] = f[n]
    <3>1. found[n] = F(found)[n]
      <4> HIDE DEF F, found
      <4> QED BY <1>5
    <3>2. F(found)[n] = IF q[n].type = "ack" THEN Append(found[n - 1], q[n].write)
                        ELSE found[n - 1]
      <4> HIDE DEF found
      <4> QED OBVIOUS
    <3> HIDE DEF found, F
    <3> QED BY <3>1, <3>2, <2>2, <1>3
  <2> DEFINE S == {n \in 0 .. Len(q) : found[n] = f[n]}
  <2>3. 0 \in S /\ \A n \in 1 .. Len(q) : n - 1 \in S => n \in S
    <3> HIDE DEF found
    <3> QED BY <2>1, <2>2
  <2>4. 0 .. Len(q) \subseteq S
    <3> HIDE DEF S
    <3> QED BY <2>3, InductionUpTo, Len(q) \in Nat
  <2> HIDE DEF found
  <2> QED BY <2>4
<1> QED
  <2>1. Answered(q) = f[Len(q)]
    <3> HIDE DEF found
    <3> QED BY <1>6, <1>7
  <2> QED BY <2>1, <1>3

(* What is answered are writes. *)
LEMMA AnsweredType ==
  ASSUME NEW q \in Seq(Responses)
  PROVE  Answered(q) \in Seq(LocalWrites)
BY AnsweredDef, Len(q) \in Nat

(* and so is what one message answers. *)
LEMMA AnswerOfType ==
  ASSUME NEW m \in Responses
  PROVE  AnswerOf(m) \in Seq(LocalWrites)
<1>1. m.type = "ack" => m.write \in LocalWrites
  BY DEF Responses, Acks, LocalWrites, WriteOps
<1>2. CASE m.type = "ack" BY <1>1, <1>2 DEF AnswerOf
<1>3. CASE ~(m.type = "ack") BY <1>3 DEF AnswerOf
<1> QED BY <1>2, <1>3

(* A response at the end of a queue answers last. *)
LEMMA AnsweredAppend ==
  ASSUME NEW q \in Seq(Responses), NEW m \in Responses
  PROVE  /\ Answered(q) \in Seq(LocalWrites)
         /\ Answered(Append(q, m)) = Answered(q) \o AnswerOf(m)
<1> DEFINE r == Append(q, m)
<1>1. PICK f \in [0 .. Len(q) -> Seq(LocalWrites)] :
           /\ f[0] = <<>> /\ Answered(q) = f[Len(q)]
           /\ \A n \in 1 .. Len(q) :
                f[n] = IF q[n].type = "ack" THEN Append(f[n - 1], q[n].write)
                       ELSE f[n - 1]
  BY AnsweredDef
<1>2. r \in Seq(Responses) /\ Len(r) = Len(q) + 1 /\ Len(q) \in Nat
      /\ r[Len(q) + 1] = m /\ \A n \in 1 .. Len(q) : r[n] = q[n]
  BY AppendProperties
<1> HIDE DEF r
<1>3. PICK g \in [0 .. Len(r) -> Seq(LocalWrites)] :
           /\ g[0] = <<>> /\ Answered(r) = g[Len(r)]
           /\ \A n \in 1 .. Len(r) :
                g[n] = IF r[n].type = "ack" THEN Append(g[n - 1], r[n].write)
                       ELSE g[n - 1]
  BY <1>2, AnsweredDef
<1>4. \A n \in 0 .. Len(q) : g[n] = f[n]
  <2>1. ASSUME NEW n \in 1 .. Len(q), g[n - 1] = f[n - 1]
        PROVE  g[n] = f[n]
    <3>1. n \in 1 .. Len(r) /\ r[n] = q[n] BY <1>2
    <3> QED BY <3>1, <2>1, <1>1, <1>3
  <2> DEFINE S == {n \in 0 .. Len(q) : g[n] = f[n]}
  <2>2. 0 \in S BY <1>1, <1>3, <1>2
  <2>3. \A n \in 1 .. Len(q) : n - 1 \in S => n \in S BY <2>1
  <2>4. 0 .. Len(q) \subseteq S
    <3> HIDE DEF S
    <3> QED BY <1>2, <2>2, <2>3, InductionUpTo
  <2> QED BY <2>4
<1>5. g[Len(r) - 1] = Answered(q) /\ Answered(q) \in Seq(LocalWrites)
  BY <1>1, <1>2, <1>4
<1>6. Len(r) \in 1 .. Len(r) /\ r[Len(r)] = m BY <1>2
<1>7. Answered(r) = IF m.type = "ack" THEN Append(Answered(q), m.write) ELSE Answered(q)
  BY <1>3, <1>5, <1>6
<1>8. CASE m.type = "ack"
  <2>1. m.write \in LocalWrites BY <1>8 DEF Responses, Acks, LocalWrites, WriteOps
  <2>2. Append(Answered(q), m.write) = Answered(q) \o <<m.write>>
    BY <1>5, <2>1, AppendIsConcat
  <2> QED BY <1>5, <1>7, <1>8, <2>2 DEF r, AnswerOf
<1>9. CASE ~(m.type = "ack")
  <2>1. Answered(q) \o <<>> = Answered(q) BY <1>5, ConcatEmptySeq
  <2> QED BY <1>5, <1>7, <1>9, <2>1 DEF r, AnswerOf
<1> QED BY <1>8, <1>9

(* No response answers nothing. *)
LEMMA AnsweredEmpty == Answered(<<>>) = <<>>
  BY AnsweredDef, <<>> \in Seq(Responses), Len(<<>>) = 0

(* Two queues, one after the other, answer what the first and the second   *)
(* answer.                                                                 *)
LEMMA AnsweredConcat ==
  ASSUME NEW q \in Seq(Responses), NEW r \in Seq(Responses)
  PROVE  Answered(q \o r) = Answered(q) \o Answered(r)
<1> DEFINE S == {s \in Seq(Responses) : Answered(q \o s) = Answered(q) \o Answered(s)}
<1>0. Answered(q) \in Seq(LocalWrites)
  BY AnsweredAppend, <<>> \in Seq(Responses), AnsweredType
<1>1. <<>> \in S
  <2>1. q \o <<>> = q BY ConcatEmptySeq
  <2>2. Answered(q) \o <<>> = Answered(q) BY <1>0, ConcatEmptySeq
  <2> QED BY <2>1, <2>2, AnsweredEmpty, <<>> \in Seq(Responses)
<1>2. \A s \in Seq(Responses), e \in Responses : s \in S => Append(s, e) \in S
  <2> TAKE s \in Seq(Responses), e \in Responses
  <2> HAVE s \in S
  <2>1. <<e>> \in Seq(Responses) /\ q \o s \in Seq(Responses) /\ Append(s, e) \in Seq(Responses)
    BY ConcatProperties, AppendProperties
  <2>2. q \o Append(s, e) = Append(q \o s, e)
    <3>1. Append(s, e) = s \o <<e>> BY AppendIsConcat
    <3>2. Append(q \o s, e) = (q \o s) \o <<e>> BY <2>1, AppendIsConcat
    <3> QED BY <2>1, <3>1, <3>2, ConcatAssociative
  <2>3. Answered(Append(q \o s, e)) = (Answered(q) \o Answered(s)) \o AnswerOf(e)
    BY <2>1, AnsweredAppend
  <2>4. Answered(Append(s, e)) = Answered(s) \o AnswerOf(e)
    BY AnsweredAppend
  <2>5. Answered(s) \in Seq(LocalWrites) /\ AnswerOf(e) \in Seq(LocalWrites)
    BY AnsweredType, AnswerOfType
  <2>6. (Answered(q) \o Answered(s)) \o AnswerOf(e) = Answered(q) \o (Answered(s) \o AnswerOf(e))
    BY <1>0, <2>5, ConcatAssociative, SMTT(30)
  <2> QED BY <2>1, <2>2, <2>3, <2>4, <2>6
<1>3. Seq(Responses) \subseteq S
  <2> HIDE DEF S
  <2> QED BY <1>1, <1>2, InductionOnSeq
<1> QED BY <1>3

(* A queue of one message. *)
LEMMA AnsweredOne ==
  ASSUME NEW m \in Responses
  PROVE  Answered(<<m>>) = AnswerOf(m)
<1>1. <<m>> = Append(<<>>, m) /\ <<>> \in Seq(Responses) OBVIOUS
<1>2. Answered(Append(<<>>, m)) = <<>> \o AnswerOf(m)
  BY <1>1, AnsweredAppend, AnsweredEmpty
<1> QED BY <1>1, <1>2, AnswerOfType, ConcatEmptySeq

(* The first message answers first. *)
LEMMA AnsweredHead ==
  ASSUME NEW q \in Seq(Responses), q # <<>>
  PROVE  Answered(q) = AnswerOf(Head(q)) \o Answered(Tail(q))
<1>1. Head(q) \in Responses /\ Tail(q) \in Seq(Responses) /\ q = <<Head(q)>> \o Tail(q)
  BY HeadThenTail
<1>2. <<Head(q)>> \in Seq(Responses) BY <1>1
<1> QED BY <1>1, <1>2, AnsweredConcat, AnsweredOne

(* Writes stand in the queue to the server and in the SDK's own queue.     *)
Orders == Requests \cup Blocks

(* The same of the writes in a queue: the recursion is well-founded, *)
LEMMA OrderedDef ==
  ASSUME NEW q \in Seq(Orders)
  PROVE  \E f \in [0 .. Len(q) -> Seq(LocalWrites)] :
           /\ f[0] = <<>> /\ Requested(q) = f[Len(q)]
           /\ \A n \in 1 .. Len(q) :
                f[n] = IF q[n].type \in WriteOps THEN Append(f[n - 1], q[n])
                       ELSE f[n - 1]
<1> DEFINE T == Seq(LocalWrites)
           step == [n \in 1 .. Len(q) |-> [s \in T |->
                      IF q[n].type \in WriteOps THEN Append(s, q[n]) ELSE s]]
           F(g) == [n \in 0 .. Len(q) |->
                      IF n = 0 THEN <<>>
                      ELSE IF q[n].type \in WriteOps THEN Append(g[n - 1], q[n])
                      ELSE g[n - 1]]
           found == CHOOSE g : g = F(g)
<1>1. step \in [1 .. Len(q) -> [T -> T]]
  <2> SUFFICES ASSUME NEW n \in 1 .. Len(q), NEW s \in T
               PROVE  (IF q[n].type \in WriteOps THEN Append(s, q[n]) ELSE s) \in T
    OBVIOUS
  <2>1. q[n] \in Orders BY ElementOfSeq
  <2>2. q[n].type \in WriteOps => q[n] \in LocalWrites BY <2>1 DEF Orders, Requests, Blocks, LocalWrites, WriteOps
  <2> QED BY <2>2, AppendProperties
<1>2. PICK f \in [0 .. Len(q) -> T] : IsRecursion(f, <<>>, Len(q), step)
  <2> HIDE DEF step
  <2> QED BY <1>1, RecursionExists, Len(q) \in Nat, <<>> \in T
<1>3. f[0] = <<>> /\ \A n \in 1 .. Len(q) :
        f[n] = IF q[n].type \in WriteOps THEN Append(f[n - 1], q[n]) ELSE f[n - 1]
  <2>1. \A n \in 1 .. Len(q) : f[n - 1] \in T OBVIOUS
  <2> QED BY <1>2, <2>1 DEF IsRecursion
<1>4. f = F(f)
  <2>1. \A n \in 0 .. Len(q) : f[n] = F(f)[n]
    <3> TAKE n \in 0 .. Len(q)
    <3>1. CASE n = 0 BY <1>3, <3>1
    <3>2. CASE n # 0
      <4>1. n \in 1 .. Len(q) BY <3>2
      <4> QED BY <1>3, <3>2, <4>1
    <3> QED BY <3>1, <3>2
  <2> QED BY <2>1
<1>5. found = F(found)
  <2> HIDE DEF F
  <2> QED BY <1>4
<1>6. Requested(q) = found[Len(q)]
  BY DEF Requested
<1>7. \A n \in 0 .. Len(q) : found[n] = f[n]
  <2>1. found[0] = f[0]
    <3>1. found[0] = F(found)[0]
      <4> HIDE DEF F, found
      <4> QED BY <1>5
    <3>2. F(found)[0] = <<>>
      <4> HIDE DEF found
      <4> QED OBVIOUS
    <3> HIDE DEF found, F
    <3> QED BY <3>1, <3>2, <1>3
  <2>2. ASSUME NEW n \in 1 .. Len(q), found[n - 1] = f[n - 1]
        PROVE  found[n] = f[n]
    <3>1. found[n] = F(found)[n]
      <4> HIDE DEF F, found
      <4> QED BY <1>5
    <3>2. F(found)[n] = IF q[n].type \in WriteOps THEN Append(found[n - 1], q[n])
                        ELSE found[n - 1]
      <4> HIDE DEF found
      <4> QED OBVIOUS
    <3> HIDE DEF found, F
    <3> QED BY <3>1, <3>2, <2>2, <1>3
  <2> DEFINE S == {n \in 0 .. Len(q) : found[n] = f[n]}
  <2>3. 0 \in S /\ \A n \in 1 .. Len(q) : n - 1 \in S => n \in S
    <3> HIDE DEF found
    <3> QED BY <2>1, <2>2
  <2>4. 0 .. Len(q) \subseteq S
    <3> HIDE DEF S
    <3> QED BY <2>3, InductionUpTo, Len(q) \in Nat
  <2> HIDE DEF found
  <2> QED BY <2>4
<1> QED
  <2>1. Requested(q) = f[Len(q)]
    <3> HIDE DEF found
    <3> QED BY <1>6, <1>7
  <2> QED BY <2>1, <1>3

(* it yields writes, *)
LEMMA OrderedType ==
  ASSUME NEW q \in Seq(Orders)
  PROVE  Requested(q) \in Seq(LocalWrites)
BY OrderedDef, Len(q) \in Nat

(* and so does one message; *)
LEMMA OrderOfType ==
  ASSUME NEW m \in Orders
  PROVE  RequestOf(m) \in Seq(LocalWrites)
<1>1. m.type \in WriteOps => m \in LocalWrites
  BY DEF Orders, Requests, Blocks, LocalWrites, WriteOps
<1>2. CASE m.type \in WriteOps BY <1>1, <1>2 DEF RequestOf
<1>3. CASE ~(m.type \in WriteOps) BY <1>3 DEF RequestOf
<1> QED BY <1>2, <1>3

(* a write at the end of a queue comes last; *)
LEMMA OrderedAppend ==
  ASSUME NEW q \in Seq(Orders), NEW m \in Orders
  PROVE  /\ Requested(q) \in Seq(LocalWrites)
         /\ Requested(Append(q, m)) = Requested(q) \o RequestOf(m)
<1> DEFINE r == Append(q, m)
<1>1. PICK f \in [0 .. Len(q) -> Seq(LocalWrites)] :
           /\ f[0] = <<>> /\ Requested(q) = f[Len(q)]
           /\ \A n \in 1 .. Len(q) :
                f[n] = IF q[n].type \in WriteOps THEN Append(f[n - 1], q[n])
                       ELSE f[n - 1]
  BY OrderedDef
<1>2. r \in Seq(Orders) /\ Len(r) = Len(q) + 1 /\ Len(q) \in Nat
      /\ r[Len(q) + 1] = m /\ \A n \in 1 .. Len(q) : r[n] = q[n]
  BY AppendProperties
<1> HIDE DEF r
<1>3. PICK g \in [0 .. Len(r) -> Seq(LocalWrites)] :
           /\ g[0] = <<>> /\ Requested(r) = g[Len(r)]
           /\ \A n \in 1 .. Len(r) :
                g[n] = IF r[n].type \in WriteOps THEN Append(g[n - 1], r[n])
                       ELSE g[n - 1]
  BY <1>2, OrderedDef
<1>4. \A n \in 0 .. Len(q) : g[n] = f[n]
  <2>1. ASSUME NEW n \in 1 .. Len(q), g[n - 1] = f[n - 1]
        PROVE  g[n] = f[n]
    <3>1. n \in 1 .. Len(r) /\ r[n] = q[n] BY <1>2
    <3> QED BY <3>1, <2>1, <1>1, <1>3
  <2> DEFINE S == {n \in 0 .. Len(q) : g[n] = f[n]}
  <2>2. 0 \in S BY <1>1, <1>3, <1>2
  <2>3. \A n \in 1 .. Len(q) : n - 1 \in S => n \in S BY <2>1
  <2>4. 0 .. Len(q) \subseteq S
    <3> HIDE DEF S
    <3> QED BY <1>2, <2>2, <2>3, InductionUpTo
  <2> QED BY <2>4
<1>5. g[Len(r) - 1] = Requested(q) /\ Requested(q) \in Seq(LocalWrites)
  BY <1>1, <1>2, <1>4
<1>6. Len(r) \in 1 .. Len(r) /\ r[Len(r)] = m BY <1>2
<1>7. Requested(r) = IF m.type \in WriteOps THEN Append(Requested(q), m) ELSE Requested(q)
  BY <1>3, <1>5, <1>6
<1>8. CASE m.type \in WriteOps
  <2>1. m \in LocalWrites BY <1>8 DEF Orders, Requests, Blocks, LocalWrites, WriteOps
  <2>2. Append(Requested(q), m) = Requested(q) \o <<m>>
    BY <1>5, <2>1, AppendIsConcat
  <2> QED BY <1>5, <1>7, <1>8, <2>2 DEF r, RequestOf
<1>9. CASE ~(m.type \in WriteOps)
  <2>1. Requested(q) \o <<>> = Requested(q) BY <1>5, ConcatEmptySeq
  <2> QED BY <1>5, <1>7, <1>9, <2>1 DEF r, RequestOf
<1> QED BY <1>8, <1>9

(* an empty queue asks for nothing; *)
LEMMA RequestedEmpty == Requested(<<>>) = <<>>
  BY OrderedDef, <<>> \in Seq(Orders), Len(<<>>) = 0

(* two queues ask for what the first and the second ask for; *)
LEMMA OrderedConcat ==
  ASSUME NEW q \in Seq(Orders), NEW r \in Seq(Orders)
  PROVE  Requested(q \o r) = Requested(q) \o Requested(r)
<1> DEFINE S == {s \in Seq(Orders) : Requested(q \o s) = Requested(q) \o Requested(s)}
<1>0. Requested(q) \in Seq(LocalWrites)
  BY OrderedAppend, <<>> \in Seq(Orders), OrderedType
<1>1. <<>> \in S
  <2>1. q \o <<>> = q BY ConcatEmptySeq
  <2>2. Requested(q) \o <<>> = Requested(q) BY <1>0, ConcatEmptySeq
  <2> QED BY <2>1, <2>2, RequestedEmpty, <<>> \in Seq(Orders)
<1>2. \A s \in Seq(Orders), e \in Orders : s \in S => Append(s, e) \in S
  <2> TAKE s \in Seq(Orders), e \in Orders
  <2> HAVE s \in S
  <2>1. <<e>> \in Seq(Orders) /\ q \o s \in Seq(Orders) /\ Append(s, e) \in Seq(Orders)
    BY ConcatProperties, AppendProperties
  <2>2. q \o Append(s, e) = Append(q \o s, e)
    <3>1. Append(s, e) = s \o <<e>> BY AppendIsConcat
    <3>2. Append(q \o s, e) = (q \o s) \o <<e>> BY <2>1, AppendIsConcat
    <3> QED BY <2>1, <3>1, <3>2, ConcatAssociative, SMTT(30)
  <2>3. Requested(Append(q \o s, e)) = (Requested(q) \o Requested(s)) \o RequestOf(e)
    BY <2>1, OrderedAppend
  <2>4. Requested(Append(s, e)) = Requested(s) \o RequestOf(e)
    BY OrderedAppend
  <2>5. Requested(s) \in Seq(LocalWrites) /\ RequestOf(e) \in Seq(LocalWrites)
    BY OrderedType, OrderOfType
  <2>6. (Requested(q) \o Requested(s)) \o RequestOf(e) = Requested(q) \o (Requested(s) \o RequestOf(e))
    BY <1>0, <2>5, ConcatAssociative, SMTT(30)
  <2> QED BY <2>1, <2>2, <2>3, <2>4, <2>6
<1>3. Seq(Orders) \subseteq S
  <2> HIDE DEF S
  <2> QED BY <1>1, <1>2, InductionOnSeq
<1> QED BY <1>3

(* a queue of one message asks for its write, *)
LEMMA OrderedOne ==
  ASSUME NEW m \in Orders
  PROVE  Requested(<<m>>) = RequestOf(m)
<1>1. <<m>> = Append(<<>>, m) /\ <<>> \in Seq(Orders) OBVIOUS
<1>2. Requested(Append(<<>>, m)) = <<>> \o RequestOf(m)
  BY <1>1, OrderedAppend, RequestedEmpty
<1> QED BY <1>1, <1>2, OrderOfType, ConcatEmptySeq

(* and the first message comes first. *)
LEMMA OrderedHead ==
  ASSUME NEW q \in Seq(Orders), q # <<>>
  PROVE  Requested(q) = RequestOf(Head(q)) \o Requested(Tail(q))
<1>1. Head(q) \in Orders /\ Tail(q) \in Seq(Orders) /\ q = <<Head(q)>> \o Tail(q)
  BY HeadThenTail
<1>2. <<Head(q)>> \in Seq(Orders) BY <1>1
<1> QED BY <1>1, <1>2, OrderedConcat, OrderedOne

(* So it is for the queue to the server, *)
LEMMA RequestsAreOrders == \A q \in Seq(Requests) : q \in Seq(Orders)
<1> SUFFICES ASSUME NEW q \in Seq(Requests) PROVE q \in Seq(Orders) OBVIOUS
<1>1. \A i \in 1 .. Len(q) : q[i] \in Orders BY DEF Orders
<1>2. q = [i \in 1 .. Len(q) |-> q[i]] /\ Len(q) \in Nat OBVIOUS
<1> QED BY <1>1, <1>2

LEMMA RequestedType ==
  ASSUME NEW q \in Seq(Requests)
  PROVE  Requested(q) \in Seq(LocalWrites)
BY RequestsAreOrders, OrderedType

LEMMA RequestOfType ==
  ASSUME NEW m \in Requests
  PROVE  RequestOf(m) \in Seq(LocalWrites)
BY OrderOfType DEF Orders

LEMMA RequestedAppend ==
  ASSUME NEW q \in Seq(Requests), NEW m \in Requests
  PROVE  /\ Requested(q) \in Seq(LocalWrites)
         /\ Requested(Append(q, m)) = Requested(q) \o RequestOf(m)
<1>1. q \in Seq(Orders) /\ m \in Orders BY RequestsAreOrders DEF Orders
<1> QED BY <1>1, OrderedAppend

LEMMA RequestedConcat ==
  ASSUME NEW q \in Seq(Requests), NEW r \in Seq(Requests)
  PROVE  Requested(q \o r) = Requested(q) \o Requested(r)
<1>1. q \in Seq(Orders) /\ r \in Seq(Orders) BY RequestsAreOrders
<1> QED BY <1>1, OrderedConcat

LEMMA RequestedOne ==
  ASSUME NEW m \in Requests
  PROVE  Requested(<<m>>) = RequestOf(m)
BY OrderedOne DEF Orders

(* where the first request comes first, too. *)
LEMMA RequestedHead ==
  ASSUME NEW q \in Seq(Requests), q # <<>>
  PROVE  Requested(q) = RequestOf(Head(q)) \o Requested(Tail(q))
BY RequestsAreOrders, OrderedHead

-----------------------------------------------------------------------------
(* The board as it is delivered *)

(* A write makes a record of a record. *)
LEMMA ApplyType ==
  ASSUME NEW op \in WriteOps, NEW r \in Records
  PROVE  Apply(op, r) \in Records
BY DEF Apply, WriteOps, Records

(* So does a message from the server. *)
LEMMA BroughtType ==
  ASSUME NEW m \in Responses, NEW p \in Posts, NEW r \in Records
  PROVE  Brought(m, p, r) \in Records
<1>1. CASE m.type = "snapshot"
  <2>1. m.board \in Boards BY <1>1 DEF Responses, Acks
  <2> QED BY <1>1, <2>1 DEF Brought, Boards
<1>2. CASE m.type = "push"
  <2>1. m.write.type \in WriteOps BY <1>2 DEF Responses, Acks, LocalWrites
  <2> QED BY <1>2, <2>1, ApplyType DEF Brought
<1>3. CASE m.type \notin {"snapshot", "push"} BY <1>3 DEF Brought
<1> QED BY <1>1, <1>2, <1>3

(* Delivered's recursion, post by post. *)
LEMMA DeliveredDef ==
  ASSUME NEW q \in Seq(Responses), NEW ca \in Boards, NEW p \in Posts
  PROVE  \E f \in [0 .. Len(q) -> Records] :
           /\ f[0] = ca[p] /\ Delivered(q, ca)[p] = f[Len(q)]
           /\ \A n \in 1 .. Len(q) : f[n] = Brought(q[n], p, f[n - 1])
<1> DEFINE step == [n \in 1 .. Len(q) |-> [r \in Records |-> Brought(q[n], p, r)]]
           F(g) == [n \in 0 .. Len(q) |->
                      IF n = 0 THEN ca[p] ELSE Brought(q[n], p, g[n - 1])]
           record == CHOOSE g : g = F(g)
<1>1. step \in [1 .. Len(q) -> [Records -> Records]]
  <2> SUFFICES ASSUME NEW n \in 1 .. Len(q), NEW r \in Records
               PROVE  Brought(q[n], p, r) \in Records
    OBVIOUS
  <2> QED BY BroughtType, ElementOfSeq
<1>2. PICK f \in [0 .. Len(q) -> Records] : IsRecursion(f, ca[p], Len(q), step)
  <2> HIDE DEF step
  <2>1. ca[p] \in Records BY DEF Boards
  <2> QED BY <1>1, <2>1, RecursionExists, Len(q) \in Nat
<1>3. f[0] = ca[p] /\ \A n \in 1 .. Len(q) : f[n] = Brought(q[n], p, f[n - 1])
  <2>1. \A n \in 1 .. Len(q) : f[n - 1] \in Records OBVIOUS
  <2> QED BY <1>2, <2>1 DEF IsRecursion
<1>4. f = F(f)
  <2>1. \A n \in 0 .. Len(q) : f[n] = F(f)[n] BY <1>3
  <2> QED BY <2>1
<1>5. record = F(record)
  <2> HIDE DEF F
  <2> QED BY <1>4
<1>6. Delivered(q, ca)[p] = record[Len(q)]
  BY DEF Delivered
<1>7. \A n \in 0 .. Len(q) : record[n] = f[n]
  <2>1. \A n \in 0 .. Len(q) : record[n] = F(record)[n]
    <3> HIDE DEF F, record
    <3> QED BY <1>5
  <2>2. \A n \in 0 .. Len(q) :
          F(record)[n] = IF n = 0 THEN ca[p] ELSE Brought(q[n], p, record[n - 1])
    <3> HIDE DEF record
    <3> QED OBVIOUS
  <2> DEFINE S == {n \in 0 .. Len(q) : record[n] = f[n]}
  <2>3. 0 \in S /\ \A n \in 1 .. Len(q) : n - 1 \in S => n \in S
    <3> HIDE DEF record, F
    <3> QED BY <2>1, <2>2, <1>3
  <2>4. 0 .. Len(q) \subseteq S
    <3> HIDE DEF S
    <3> QED BY <2>3, InductionUpTo, Len(q) \in Nat
  <2> HIDE DEF record, F
  <2> QED BY <2>4
<1> QED
  <2>1. Delivered(q, ca)[p] = f[Len(q)]
    <3> HIDE DEF record
    <3> QED BY <1>6, <1>7
  <2> QED BY <2>1, <1>3

(* What a message makes of a board. *)
After(m, ca) == [p \in Posts |-> Brought(m, p, ca[p])]

(* One message makes a board of a board, *)
LEMMA AfterType ==
  ASSUME NEW m \in Responses, NEW ca \in Boards
  PROVE  After(m, ca) \in Boards
BY BroughtType DEF After, Boards

(* and so does a queue of them. *)
LEMMA DeliveredType ==
  ASSUME NEW q \in Seq(Responses), NEW ca \in Boards
  PROVE  Delivered(q, ca) \in Boards
<1>1. \A p \in Posts : Delivered(q, ca)[p] \in Records
  BY DeliveredDef, Len(q) \in Nat
<1>2. DOMAIN Delivered(q, ca) = Posts /\ Delivered(q, ca) = [p \in Posts |-> Delivered(q, ca)[p]]
  BY DEF Delivered
<1> QED BY <1>1, <1>2 DEF Boards

(* Nothing on its way changes nothing. *)
LEMMA DeliveredNothing ==
  ASSUME NEW ca \in Boards
  PROVE  Delivered(<<>>, ca) = ca
<1> DEFINE q == <<>>
<1>2. q \in Seq(Responses) /\ Len(q) = 0 OBVIOUS
<1> HIDE DEF q
<1>3. ASSUME NEW p \in Posts PROVE Delivered(q, ca)[p] = ca[p]
  <2>1. PICK f \in [0 .. Len(q) -> Records] :
           /\ f[0] = ca[p] /\ Delivered(q, ca)[p] = f[Len(q)]
           /\ \A n \in 1 .. Len(q) : f[n] = Brought(q[n], p, f[n - 1])
    BY <1>2, DeliveredDef, ZenonT(60)
  <2> QED BY <1>2, <2>1
<1>4. Delivered(q, ca) \in Boards BY <1>2, DeliveredType
<1>5. Delivered(q, ca) = ca BY <1>3, <1>4 DEF Boards
<1> QED BY <1>5 DEF q

(* A message at the end is applied last, *)
LEMMA DeliveredAppend ==
  ASSUME NEW q \in Seq(Responses), NEW m \in Responses, NEW ca \in Boards
  PROVE  Delivered(Append(q, m), ca) = After(m, Delivered(q, ca))
<1> DEFINE r == Append(q, m)
<1>1. r \in Seq(Responses) /\ Len(r) = Len(q) + 1 /\ Len(q) \in Nat
      /\ r[Len(q) + 1] = m /\ \A n \in 1 .. Len(q) : r[n] = q[n]
  BY AppendProperties
<1> HIDE DEF r
<1>2. ASSUME NEW p \in Posts
      PROVE  Delivered(r, ca)[p] = Brought(m, p, Delivered(q, ca)[p])
  <2>1. PICK f \in [0 .. Len(q) -> Records] :
           /\ f[0] = ca[p] /\ Delivered(q, ca)[p] = f[Len(q)]
           /\ \A n \in 1 .. Len(q) : f[n] = Brought(q[n], p, f[n - 1])
    BY DeliveredDef
  <2>2. PICK g \in [0 .. Len(r) -> Records] :
           /\ g[0] = ca[p] /\ Delivered(r, ca)[p] = g[Len(r)]
           /\ \A n \in 1 .. Len(r) : g[n] = Brought(r[n], p, g[n - 1])
    BY <1>1, DeliveredDef
  <2> DEFINE S == {n \in 0 .. Len(q) : g[n] = f[n]}
  <2>3. 0 \in S BY <2>1, <2>2, <1>1
  <2>4. \A n \in 1 .. Len(q) : n - 1 \in S => n \in S BY <2>1, <2>2, <1>1
  <2>5. 0 .. Len(q) \subseteq S
    <3> HIDE DEF S
    <3> QED BY <1>1, <2>3, <2>4, InductionUpTo
  <2>6. g[Len(r) - 1] = f[Len(q)] BY <1>1, <2>5
  <2>7. Len(r) \in 1 .. Len(r) /\ r[Len(r)] = m BY <1>1
  <2> QED BY <2>1, <2>2, <2>6, <2>7
<1>3. Delivered(r, ca) \in Boards BY <1>1, DeliveredType
<1>4. After(m, Delivered(q, ca)) \in Boards BY DeliveredType, AfterType
<1>5. \A p \in Posts : After(m, Delivered(q, ca))[p] = Brought(m, p, Delivered(q, ca)[p])
  BY DEF After
<1>6. Delivered(r, ca) = After(m, Delivered(q, ca))
  BY <1>2, <1>3, <1>4, <1>5 DEF Boards
<1> QED BY <1>6 DEF r

(* and the one at the head first. *)
LEMMA DeliveredHead ==
  ASSUME NEW q \in Seq(Responses), NEW ca \in Boards, q # <<>>
  PROVE  Delivered(q, ca) = Delivered(Tail(q), After(Head(q), ca))
<1> DEFINE m == Head(q)
           S == {s \in Seq(Responses) :
                   Delivered(<<m>> \o s, ca) = Delivered(s, After(m, ca))}
<1>1. m \in Responses /\ Tail(q) \in Seq(Responses) /\ q = <<m>> \o Tail(q)
  BY HeadThenTail
<1> HIDE DEF m
<1>2. After(m, ca) \in Boards /\ <<m>> \in Seq(Responses) BY <1>1, AfterType
<1>3. <<>> \in S
  <2>1. <<m>> \o <<>> = Append(<<>>, m) /\ <<>> \in Seq(Responses) BY <1>1
  <2>2. Delivered(Append(<<>>, m), ca) = After(m, Delivered(<<>>, ca))
    BY <1>1, <2>1, DeliveredAppend
  <2> QED BY <1>2, <2>1, <2>2, DeliveredNothing
<1>4. \A s \in Seq(Responses), e \in Responses : s \in S => Append(s, e) \in S
  <2> TAKE s \in Seq(Responses), e \in Responses
  <2> HAVE s \in S
  <2>1. <<e>> \in Seq(Responses) /\ <<m>> \o s \in Seq(Responses)
        /\ Append(s, e) \in Seq(Responses)
    BY <1>2, ConcatProperties, AppendProperties
  <2>2. <<m>> \o Append(s, e) = Append(<<m>> \o s, e)
    <3>1. Append(s, e) = s \o <<e>> BY AppendIsConcat
    <3>2. Append(<<m>> \o s, e) = (<<m>> \o s) \o <<e>> BY <2>1, AppendIsConcat
    <3> QED BY <1>2, <2>1, <3>1, <3>2, ConcatAssociative
  <2>3. Delivered(Append(<<m>> \o s, e), ca) = After(e, Delivered(<<m>> \o s, ca))
    BY <2>1, DeliveredAppend
  <2>4. Delivered(Append(s, e), After(m, ca)) = After(e, Delivered(s, After(m, ca)))
    BY <1>2, DeliveredAppend
  <2> QED BY <2>1, <2>2, <2>3, <2>4
<1>5. Seq(Responses) \subseteq S
  <2> HIDE DEF S
  <2> QED BY <1>3, <1>4, InductionOnSeq
<1> QED BY <1>1, <1>5 DEF m

HasSnapshot(q) == HasType(q, "snapshot")

(* A snapshot on its way makes the present cache irrelevant. *)
LEMMA DeliveredSnapshot ==
  ASSUME NEW q \in Seq(Responses), NEW ca \in Boards, NEW cb \in Boards,
         HasSnapshot(q)
  PROVE  Delivered(q, ca) = Delivered(q, cb)
<1> DEFINE S == {s \in Seq(Responses) :
                   HasSnapshot(s) => Delivered(s, ca) = Delivered(s, cb)}
<1>1. <<>> \in S BY HasInNone DEF HasSnapshot
<1>2. \A s \in Seq(Responses), e \in Responses : s \in S => Append(s, e) \in S
  <2> TAKE s \in Seq(Responses), e \in Responses
  <2> HAVE s \in S
  <2> SUFFICES ASSUME HasSnapshot(Append(s, e))
               PROVE  Delivered(Append(s, e), ca) = Delivered(Append(s, e), cb)
    BY AppendProperties
  <2>1. /\ Delivered(Append(s, e), ca) = After(e, Delivered(s, ca))
        /\ Delivered(Append(s, e), cb) = After(e, Delivered(s, cb))
    BY DeliveredAppend
  <2>2. CASE e.type = "snapshot"
    BY <2>1, <2>2 DEF After, Brought
  <2>3. CASE e.type # "snapshot"
    <3>1. HasSnapshot(s)
      <4>1. Append(s, e) = s \o <<e>> /\ <<e>> \in Seq(Responses) BY AppendIsConcat
      <4>2. HasType(s \o <<e>>, "snapshot") BY <4>1 DEF HasSnapshot
      <4> QED BY <4>1, <4>2, <2>3, HasInConcat, HasInOne DEF HasSnapshot
    <3> QED BY <2>1, <3>1
  <2> QED BY <2>2, <2>3
<1>3. Seq(Responses) \subseteq S
  <2> HIDE DEF S
  <2> QED BY <1>1, <1>2, InductionOnSeq
<1> QED BY <1>3

-----------------------------------------------------------------------------
(* The picture, the settling of writes, and the events *)

(* f[n] is the record r of p after the first n writes of ws. *)
IsWriting(f, ws, p, r) ==
  /\ f[0] = r
  /\ \A n \in 1 .. Len(ws) :
       f[n] = IF ws[n].post = p THEN Apply(ws[n].type, f[n - 1]) ELSE f[n - 1]

(* The writes of ws to p keep a record in S. *)
KeptIn(S, ws, p) ==
  \A i \in 1 .. Len(ws) : ws[i].post = p =>
     \A s \in S : Apply(ws[i].type, s) \in S

(* Written's recursion. *)
LEMMA WrittenDef ==
  ASSUME NEW ws \in Seq(LocalWrites), NEW p, NEW S, NEW r \in S, KeptIn(S, ws, p)
  PROVE  \E f \in [0 .. Len(ws) -> S] :
           IsWriting(f, ws, p, r) /\ Written(ws, p, r) = f[Len(ws)]
<1> DEFINE step == [n \in 1 .. Len(ws) |-> [s \in S |->
                      IF ws[n].post = p THEN Apply(ws[n].type, s) ELSE s]]
           F(g) == [n \in 0 .. Len(ws) |->
                      IF n = 0 THEN r
                      ELSE IF ws[n].post = p THEN Apply(ws[n].type, g[n - 1])
                      ELSE g[n - 1]]
           after == CHOOSE g : g = F(g)
<1>1. step \in [1 .. Len(ws) -> [S -> S]]
  BY DEF KeptIn
<1>2. PICK f \in [0 .. Len(ws) -> S] : IsRecursion(f, r, Len(ws), step)
  <2> HIDE DEF step
  <2> QED BY <1>1, RecursionExists, Len(ws) \in Nat
<1>3. f[0] = r /\ \A n \in 1 .. Len(ws) :
        f[n] = IF ws[n].post = p THEN Apply(ws[n].type, f[n - 1]) ELSE f[n - 1]
  <2>1. \A n \in 1 .. Len(ws) : f[n - 1] \in S OBVIOUS
  <2> QED BY <1>2, <2>1 DEF IsRecursion
<1>4. f = F(f)
  <2>1. \A n \in 0 .. Len(ws) : f[n] = F(f)[n] BY <1>3
  <2> QED BY <2>1
<1>5. after = F(after)
  <2> HIDE DEF F
  <2> QED BY <1>4
<1>6. Written(ws, p, r) = after[Len(ws)]
  BY DEF Written
<1>7. \A n \in 0 .. Len(ws) : after[n] = f[n]
  <2>1. \A n \in 0 .. Len(ws) : after[n] = F(after)[n]
    <3> HIDE DEF F, after
    <3> QED BY <1>5
  <2>2. \A n \in 0 .. Len(ws) :
          F(after)[n] = IF n = 0 THEN r
                        ELSE IF ws[n].post = p THEN Apply(ws[n].type, after[n - 1])
                        ELSE after[n - 1]
    <3> HIDE DEF after
    <3> QED OBVIOUS
  <2> DEFINE G == {n \in 0 .. Len(ws) : after[n] = f[n]}
  <2>3. 0 \in G /\ \A n \in 1 .. Len(ws) : n - 1 \in G => n \in G
    <3> HIDE DEF after, F
    <3> QED BY <2>1, <2>2, <1>3
  <2>4. 0 .. Len(ws) \subseteq G
    <3> HIDE DEF G
    <3> QED BY <2>3, InductionUpTo, Len(ws) \in Nat
  <2> HIDE DEF after, F
  <2> QED BY <2>4
<1> QED
  <2>1. Written(ws, p, r) = f[Len(ws)]
    <3> HIDE DEF after
    <3> QED BY <1>6, <1>7
  <2> QED BY <2>1, <1>3 DEF IsWriting

(* What each of the writes preserves, all of them preserve. *)
LEMMA WrittenStays ==
  ASSUME NEW ws \in Seq(LocalWrites), NEW p, NEW S, NEW r \in S, KeptIn(S, ws, p)
  PROVE  Written(ws, p, r) \in S
BY WrittenDef, Len(ws) \in Nat

(* No write changes nothing. *)
LEMMA WrittenNothing ==
  ASSUME NEW p, NEW r
  PROVE  Written(<<>>, p, r) = r
<1>1. <<>> \in Seq(LocalWrites) /\ Len(<<>>) = 0 OBVIOUS
<1>2. KeptIn({r}, <<>>, p) BY <1>1 DEF KeptIn
<1>3. Written(<<>>, p, r) \in {r}
  BY <1>1, <1>2, WrittenStays
<1> QED BY <1>3

(* With no local writes the picture of a whole view is its cache. *)
LEMMA BarePicture ==
  ASSUME NEW ca \in Boards
  PROVE  Overlay(ca, TRUE, <<>>) = ca
<1>1. \A p \in Posts : ca[p] \in Records BY DEF Boards
<1>2. \A p \in Posts : Overlay(ca, TRUE, <<>>)[p] = ca[p]
  BY <1>1, WrittenNothing DEF Overlay, Records
<1>3. Overlay(ca, TRUE, <<>>) = [p \in Posts |-> Overlay(ca, TRUE, <<>>)[p]]
  BY DEF Overlay
<1> QED BY <1>2, <1>3 DEF Boards

(* A settled write leaves a tree of writes. *)
LEMMA SettleType ==
  ASSUME NEW ws \in Seq(LocalWrites), NEW ack
  PROVE  Settle(ws, ack) \in Seq(LocalWrites)
BY RemoveFirstType DEF Settle

(* AckPuts' recursion: one response after the other settles its write. *)
LEMMA AckPutsDef ==
  ASSUME NEW c \in Clients, writes[c] \in Seq(LocalWrites),
         held[c] \in Seq(Acks), NEW N \in 0 .. Len(held[c])
  PROVE  \E f \in [0 .. N -> Seq(LocalWrites)] :
           /\ f[0] = writes[c] /\ AckPuts(c, N) = f[N]
           /\ \A n \in 1 .. N : f[n] = Settle(f[n - 1], held[c][n])
<1> DEFINE T == Seq(LocalWrites)
           step == [n \in 1 .. N |-> [s \in T |-> Settle(s, held[c][n])]]
           F(g) == [n \in 0 .. N |->
                      IF n = 0 THEN writes[c] ELSE Settle(g[n - 1], held[c][n])]
           left == CHOOSE g : g = F(g)
<1>0. N \in Nat OBVIOUS
<1>1. step \in [1 .. N -> [T -> T]]
  BY SettleType
<1>2. PICK f \in [0 .. N -> T] : IsRecursion(f, writes[c], N, step)
  <2> HIDE DEF step
  <2> QED BY <1>0, <1>1, RecursionExists
<1>3. f[0] = writes[c] /\ \A n \in 1 .. N : f[n] = Settle(f[n - 1], held[c][n])
  <2>1. \A n \in 1 .. N : f[n - 1] \in T OBVIOUS
  <2> QED BY <1>2, <2>1 DEF IsRecursion
<1>4. f = F(f)
  <2>1. \A n \in 0 .. N : f[n] = F(f)[n] BY <1>3
  <2> QED BY <2>1
<1>5. left = F(left)
  <2> HIDE DEF F
  <2> QED BY <1>4
<1>6. AckPuts(c, N) = left[N]
  BY DEF AckPuts
<1>7. \A n \in 0 .. N : left[n] = f[n]
  <2>1. \A n \in 0 .. N : left[n] = F(left)[n]
    <3> HIDE DEF F, left
    <3> QED BY <1>5
  <2>2. \A n \in 0 .. N : F(left)[n] = IF n = 0 THEN writes[c]
                                       ELSE Settle(left[n - 1], held[c][n])
    <3> HIDE DEF left
    <3> QED OBVIOUS
  <2> DEFINE G == {n \in 0 .. N : left[n] = f[n]}
  <2>3. 0 \in G /\ \A n \in 1 .. N : n - 1 \in G => n \in G
    <3> HIDE DEF left, F
    <3> QED BY <2>1, <2>2, <1>3
  <2>4. 0 .. N \subseteq G
    <3> HIDE DEF G
    <3> QED BY <1>0, <2>3, InductionUpTo
  <2> HIDE DEF left, F
  <2> QED BY <2>4
<1> QED
  <2>1. AckPuts(c, N) = f[N]
    <3> HIDE DEF left
    <3> QED BY <1>6, <1>7
  <2> QED BY <2>1, <1>3

(* It yields trees of writes, *)
LEMMA AckPutsType ==
  ASSUME NEW c \in Clients, writes[c] \in Seq(LocalWrites),
         held[c] \in Seq(Acks), NEW N \in 0 .. Len(held[c])
  PROVE  AckPuts(c, N) \in Seq(LocalWrites)
BY AckPutsDef

(* each from the one before. *)
LEMMA AckPutsStep ==
  ASSUME NEW c \in Clients, writes[c] \in Seq(LocalWrites),
         held[c] \in Seq(Acks), NEW N \in 1 .. Len(held[c])
  PROVE  AckPuts(c, N) = Settle(AckPuts(c, N - 1), held[c][N])
<1>1. N \in 0 .. Len(held[c]) /\ N - 1 \in 0 .. Len(held[c]) /\ N \in Nat OBVIOUS
<1>2. PICK f \in [0 .. N -> Seq(LocalWrites)] :
        /\ f[0] = writes[c] /\ AckPuts(c, N) = f[N]
        /\ \A n \in 1 .. N : f[n] = Settle(f[n - 1], held[c][n])
  BY <1>1, AckPutsDef
<1>3. PICK g \in [0 .. N - 1 -> Seq(LocalWrites)] :
        /\ g[0] = writes[c] /\ AckPuts(c, N - 1) = g[N - 1]
        /\ \A n \in 1 .. N - 1 : g[n] = Settle(g[n - 1], held[c][n])
  BY <1>1, AckPutsDef
<1> DEFINE S == {n \in 0 .. N - 1 : f[n] = g[n]}
<1>4. 0 \in S /\ \A n \in 1 .. N - 1 : n - 1 \in S => n \in S
  BY <1>2, <1>3
<1>5. 0 .. N - 1 \subseteq S
  <2> HIDE DEF S
  <2> QED BY <1>4, InductionUpTo, N - 1 \in Nat
<1>6. f[N - 1] = g[N - 1] BY <1>5
<1> QED BY <1>2, <1>3, <1>6

(* A set of posts told one by one is a queue of callbacks. *)
LEMMA TellType ==
  ASSUME NEW c \in Clients, session[c] \in Sessions,
         NEW kind \in {"changed", "removed"}, NEW S \in SUBSET Posts
  PROVE  [i \in 1 .. Cardinality(S) |-> Event(kind, c, SetToSeq(S)[i])] \in Seq(Callbacks)
<1>1. IsFiniteSet(S) BY PostsAssumption, FS_Subset
<1>2. /\ Cardinality(S) \in Nat
      /\ SetToSeq(S) \in [1 .. Cardinality(S) -> S]
  BY <1>1, SetToSeqType
<1>3. \A p \in Posts : Event(kind, c, p) \in Callbacks
  BY DEF Event, Callbacks
<1>4. \A i \in 1 .. Cardinality(S) : Event(kind, c, SetToSeq(S)[i]) \in Callbacks
  BY <1>2, <1>3
<1> QED BY <1>2, <1>4

(* The events of a change are callbacks, *)
LEMMA ChildEventsType ==
  ASSUME NEW c \in Clients, session[c] \in Sessions,
         NEW rs, NEW before, NEW after
  PROVE  ChildEvents(c, rs, before, after) \in Seq(Callbacks)
<1> DEFINE removed == {p \in Posts : IsPost(before[p]) /\ after[p] = "none"}
           changed == {p \in Posts : /\ before[p] # "none" /\ before[p] # after[p]
                                     /\ IsPost(after[p])}
           Tell(kind, S) == IF <<kind, session[c]>> \in rs
                            THEN [i \in 1 .. Cardinality(S) |->
                                    Event(kind, c, SetToSeq(S)[i])]
                            ELSE <<>>
<1>1. Tell("removed", removed) \in Seq(Callbacks)
  <2>1. removed \in SUBSET Posts OBVIOUS
  <2> HIDE DEF removed
  <2> QED BY <2>1, TellType
<1>2. Tell("changed", changed) \in Seq(Callbacks)
  <2>1. changed \in SUBSET Posts OBVIOUS
  <2> HIDE DEF changed
  <2> QED BY <2>1, TellType
<1>3. ChildEvents(c, rs, before, after) = Tell("removed", removed) \o Tell("changed", changed)
  BY DEF ChildEvents
<1> HIDE DEF Tell, removed, changed
<1> QED BY <1>1, <1>2, <1>3, ConcatProperties

(* the first values are, *)
LEMMA ValueEventsType ==
  ASSUME NEW c, NEW which \in SUBSET Regs, IsFiniteSet(which), NEW picture
  PROVE  ValueEvents(c, which, picture) \in Seq(Callbacks)
<1> DEFINE N == Cardinality(which)
<1>1. N \in Nat /\ SetToSeq(which) \in [1 .. N -> which]
  BY SetToSeqType
<1>2. \A i \in 1 .. N : SetToSeq(which)[i][2] \in Sessions
  BY <1>1 DEF Regs
<1>3. ValueEvents(c, which, picture) =
        [i \in 1 .. N |-> [type |-> "value", session |-> SetToSeq(which)[i][2],
                           posts |-> {p \in Posts : IsPost(picture[p])}]]
  BY DEF ValueEvents
<1>4. \A i \in 1 .. N : [type |-> "value", session |-> SetToSeq(which)[i][2],
                         posts |-> {p \in Posts : IsPost(picture[p])}] \in Callbacks
  BY <1>2 DEF Callbacks
<1> HIDE DEF N
<1> QED BY <1>1, <1>3, <1>4

(* the cancellations, *)
LEMMA CancelledType ==
  ASSUME NEW c \in Clients, regs[c] \in SUBSET Regs, IsFiniteSet(regs[c])
  PROVE  Cancelled(c) \in Seq(Callbacks)
<1> DEFINE N == Cardinality(ValueRegs(c))
<1>1. IsFiniteSet(ValueRegs(c)) /\ ValueRegs(c) \subseteq Regs
  BY FS_Subset DEF ValueRegs
<1>2. N \in Nat /\ SetToSeq(ValueRegs(c)) \in [1 .. N -> ValueRegs(c)]
  BY <1>1, SetToSeqType
<1>3. \A i \in 1 .. N : SetToSeq(ValueRegs(c))[i][2] \in Sessions
  BY <1>1, <1>2 DEF Regs
<1>4. Cancelled(c) = [i \in 1 .. N |->
                        [type |-> "cancelled", session |-> SetToSeq(ValueRegs(c))[i][2]]]
  BY DEF Cancelled
<1>5. \A i \in 1 .. N :
        [type |-> "cancelled", session |-> SetToSeq(ValueRegs(c))[i][2]] \in Callbacks
  BY <1>3 DEF Callbacks
<1> HIDE DEF N
<1> QED BY <1>2, <1>4, <1>5

(* and what a settled write tells. *)
LEMMA SettleEventsType ==
  ASSUME NEW c \in Clients, session[c] \in Sessions,
         NEW rs, NEW ca, NEW whole, NEW ws, NEW left, NEW ack \in Acks
  PROVE  SettleEvents(c, rs, ca, whole, ws, left, ack) \in Seq(Callbacks)
<1> DEFINE told == ChildEvents(c, rs, Overlay(ca, whole, ws), Overlay(ca, whole, left))
           written == IF ack.ok /\ ack.write.type = "set"
                      THEN <<[type |-> "written", post |-> ack.write.post]>>
                      ELSE <<>>
<1>1. told \in Seq(Callbacks) BY ChildEventsType
<1>2. [type |-> "written", post |-> ack.write.post] \in Callbacks
  BY DEF Acks, LocalWrites, Callbacks
<1>3. written \in Seq(Callbacks) BY <1>2
<1>4. SettleEvents(c, rs, ca, whole, ws, left, ack) = told \o written
  BY DEF SettleEvents
<1> HIDE DEF told, written
<1> QED BY <1>1, <1>3, <1>4, ConcatProperties

(* f[n] is what is told of the first n responses held back. *)
IsTelling(f, c, rs, ca, whole) ==
  /\ f[0] = <<>>
  /\ \A n \in 1 .. Len(held[c]) :
       f[n] = f[n - 1] \o SettleEvents(c, rs, ca, whole, AckPuts(c, n - 1),
                                       AckPuts(c, n), held[c][n])

(* AckPutsEvents' recursion. *)
LEMMA AckPutsEventsDef ==
  ASSUME NEW c \in Clients, session[c] \in Sessions, held[c] \in Seq(Acks),
         NEW rs, NEW ca, NEW whole
  PROVE  \E f \in [0 .. Len(held[c]) -> Seq(Callbacks)] :
           /\ IsTelling(f, c, rs, ca, whole)
           /\ AckPutsEvents(c, rs, ca, whole) = f[Len(held[c])]
<1> DEFINE T == Seq(Callbacks)
           N == Len(held[c])
           E(n) == SettleEvents(c, rs, ca, whole, AckPuts(c, n - 1), AckPuts(c, n), held[c][n])
           step == [n \in 1 .. N |-> [s \in T |-> s \o E(n)]]
           F(g) == [n \in 0 .. N |-> IF n = 0 THEN <<>> ELSE g[n - 1] \o E(n)]
           told == CHOOSE g : g = F(g)
<1>0. N \in Nat OBVIOUS
<1>1. step \in [1 .. N -> [T -> T]]
  <2> SUFFICES ASSUME NEW n \in 1 .. N, NEW s \in T PROVE s \o E(n) \in T
    OBVIOUS
  <2>1. held[c][n] \in Acks BY ElementOfSeq
  <2>2. E(n) \in T BY <2>1, SettleEventsType
  <2> HIDE DEF E
  <2> QED BY <2>2, ConcatProperties
<1>2. PICK f \in [0 .. N -> T] : IsRecursion(f, <<>>, N, step)
  <2> HIDE DEF step, N
  <2> QED BY <1>0, <1>1, RecursionExists, <<>> \in T
<1>3. f[0] = <<>> /\ \A n \in 1 .. N : f[n] = f[n - 1] \o E(n)
  <2>1. \A n \in 1 .. N : f[n - 1] \in T OBVIOUS
  <2>2. \A n \in 1 .. N : f[n] = step[n][f[n - 1]] BY <1>2 DEF IsRecursion
  <2>3. \A n \in 1 .. N : step[n][f[n - 1]] = f[n - 1] \o E(n)
    <3> HIDE DEF E
    <3> QED BY <2>1
  <2> HIDE DEF E, step
  <2> QED BY <1>2, <2>2, <2>3 DEF IsRecursion
<1>4. f = F(f)
  <2> HIDE DEF E, N
  <2>1. \A n \in 0 .. N : f[n] = F(f)[n] BY <1>3
  <2> QED BY <2>1
<1>5. told = F(told)
  <2> HIDE DEF F
  <2> QED BY <1>4
<1>6. AckPutsEvents(c, rs, ca, whole) = told[N]
  BY DEF AckPutsEvents
<1>7. \A n \in 0 .. N : told[n] = f[n]
  <2>1. \A n \in 0 .. N : told[n] = F(told)[n]
    <3> HIDE DEF F, told
    <3> QED BY <1>5
  <2>2. \A n \in 0 .. N : F(told)[n] = IF n = 0 THEN <<>> ELSE told[n - 1] \o E(n)
    <3> HIDE DEF told, E
    <3> QED OBVIOUS
  <2> DEFINE G == {n \in 0 .. N : told[n] = f[n]}
  <2>3. 0 \in G /\ \A n \in 1 .. N : n - 1 \in G => n \in G
    <3> HIDE DEF told, F, E, N
    <3>1. 0 \in G BY <1>0, <2>1, <2>2, <1>3
    <3>2. ASSUME NEW n \in 1 .. N, told[n - 1] = f[n - 1] PROVE told[n] = f[n]
      <4>1. n \in 0 .. N /\ n # 0 OBVIOUS
      <4>2. told[n] = told[n - 1] \o E(n) BY <4>1, <2>1, <2>2
      <4>3. f[n] = f[n - 1] \o E(n) BY <1>3
      <4> QED BY <4>2, <4>3, <3>2
    <3> QED BY <3>1, <3>2
  <2>4. 0 .. N \subseteq G
    <3> HIDE DEF G, N
    <3> QED BY <1>0, <2>3, InductionUpTo
  <2> HIDE DEF told, F, E
  <2> QED BY <2>4
<1> QED
  <2>1. AckPutsEvents(c, rs, ca, whole) = f[N]
    <3> HIDE DEF told, E
    <3> QED BY <1>6, <1>7
  <2> QED BY <2>1, <1>3 DEF IsTelling

(* It yields callbacks. *)
LEMMA AckPutsEventsType ==
  ASSUME NEW c \in Clients, session[c] \in Sessions, held[c] \in Seq(Acks),
         NEW rs, NEW ca, NEW whole
  PROVE  AckPutsEvents(c, rs, ca, whole) \in Seq(Callbacks)
BY AckPutsEventsDef, Len(held[c]) \in Nat

-----------------------------------------------------------------------------
(* The writes and their responses *)

(* What is held back came down. *)
LEMMA AcksAreResponses == Acks \subseteq Responses
BY DEF Responses

(* As many writes are answered as there are acks. *)
LEMMA AnsweredAcks ==
  ASSUME NEW q \in Seq(Acks)
  PROVE  /\ q \in Seq(Responses) /\ Answered(q) \in Seq(LocalWrites)
         /\ Len(Answered(q)) = Len(q)
         /\ \A i \in 1 .. Len(q) : Answered(q)[i] = q[i].write
<1> DEFINE S == {s \in Seq(Acks) :
                   /\ Len(Answered(s)) = Len(s)
                   /\ \A i \in 1 .. Len(s) : Answered(s)[i] = s[i].write}
<1>0. \A s \in Seq(Acks) : s \in Seq(Responses)
  BY AcksAreResponses, SeqMonotonic
<1>1. <<>> \in S BY AnsweredEmpty
<1>2. \A s \in Seq(Acks), e \in Acks : s \in S => Append(s, e) \in S
  <2> TAKE s \in Seq(Acks), e \in Acks
  <2> HAVE s \in S
  <2>1. s \in Seq(Responses) /\ e \in Responses /\ e.type = "ack" /\ e.write \in LocalWrites
    BY <1>0, AcksAreResponses DEF Acks
  <2>2. Answered(s) \in Seq(LocalWrites) /\ Answered(Append(s, e)) = Answered(s) \o <<e.write>>
    BY <2>1, AnsweredAppend DEF AnswerOf
  <2>3. Answered(Append(s, e)) = Append(Answered(s), e.write)
    BY <2>1, <2>2, AppendIsConcat
  <2>4. /\ Len(Append(Answered(s), e.write)) = Len(s) + 1
        /\ \A i \in 1 .. Len(s) : Append(Answered(s), e.write)[i] = s[i].write
        /\ Append(Answered(s), e.write)[Len(s) + 1] = e.write
    BY <2>1, <2>2, AppendProperties
  <2>5. /\ Append(s, e) \in Seq(Acks) /\ Len(Append(s, e)) = Len(s) + 1
        /\ \A i \in 1 .. Len(s) : Append(s, e)[i] = s[i]
        /\ Append(s, e)[Len(s) + 1] = e
    BY AppendProperties
  <2> DEFINE r == Append(s, e)
             a == Append(Answered(s), e.write)
  <2>6. Len(s) \in Nat /\ Len(Answered(s)) = Len(s) OBVIOUS
  <2> HIDE DEF r, a
  <2>7. Answered(r) = a /\ Len(a) = Len(r) BY <2>3, <2>4, <2>5 DEF r, a
  <2>8. \A i \in 1 .. Len(r) : a[i] = r[i].write
    <3> TAKE i \in 1 .. Len(r)
    <3>1. Len(r) = Len(s) + 1 BY <2>5 DEF r
    <3>2. CASE i \in 1 .. Len(s)
      <4>1. a[i] = s[i].write BY <2>4, <3>2 DEF a
      <4>2. r[i] = s[i] BY <2>5, <3>2 DEF r
      <4> QED BY <4>1, <4>2
    <3>3. CASE i = Len(s) + 1 BY <2>4, <2>5, <3>3 DEF a, r
    <3> QED BY <2>6, <3>1, <3>2, <3>3
  <2>9. r \in Seq(Acks) BY <2>5 DEF r
  <2>10. r \in S BY <2>7, <2>8, <2>9
  <2> QED BY <2>10 DEF r
<1>3. Seq(Acks) \subseteq S
  <2> HIDE DEF S
  <2> QED BY <1>1, <1>2, InductionOnSeq
<1> QED BY <1>0, <1>3, AnsweredType

(* A queue of writes requests just them. *)
LEMMA RequestedWrites ==
  ASSUME NEW q \in Seq(LocalWrites)
  PROVE  q \in Seq(Requests) /\ Requested(q) = q
<1> DEFINE S == {s \in Seq(LocalWrites) : Requested(s) = s}
<1>0. /\ LocalWrites \subseteq Requests
      /\ \A s \in Seq(LocalWrites) : s \in Seq(Requests)
  <2>1. LocalWrites \subseteq Requests BY DEF Requests
  <2> QED BY <2>1, SeqMonotonic
<1>1. <<>> \in S BY RequestedEmpty
<1>2. \A s \in Seq(LocalWrites), e \in LocalWrites : s \in S => Append(s, e) \in S
  <2> TAKE s \in Seq(LocalWrites), e \in LocalWrites
  <2> HAVE s \in S
  <2>1. s \in Seq(Requests) /\ e \in Requests BY <1>0
  <2>2. RequestOf(e) = <<e>> BY DEF RequestOf, LocalWrites
  <2>3. Requested(Append(s, e)) = s \o <<e>>
    BY <2>1, <2>2, RequestedAppend
  <2>4. Append(s, e) = s \o <<e>> /\ Append(s, e) \in Seq(LocalWrites)
    BY AppendIsConcat, AppendProperties
  <2> QED BY <2>3, <2>4
<1>3. Seq(LocalWrites) \subseteq S
  <2> HIDE DEF S
  <2> QED BY <1>1, <1>2, InductionOnSeq
<1> QED BY <1>0, <1>3

(* The responses held back are of the oldest writes. *)
LEMMA HeldAreOldest ==
  ASSUME TypeOK, EveryWriteTracked, NEW c \in Clients
  PROVE  /\ Answered(held[c]) \in Seq(LocalWrites) /\ Unanswered(c) \in Seq(LocalWrites)
         /\ writes[c] = Answered(held[c]) \o Unanswered(c)
         /\ Len(held[c]) <= Len(writes[c])
         /\ \A i \in 1 .. Len(held[c]) : writes[c][i] = held[c][i].write
         /\ SubSeq(writes[c], 1, Len(held[c])) = Answered(held[c])
         /\ connected[c] => Unanswered(c) = Answered(down[c]) \o Requested(up[c])
<1> DEFINE A == Answered(held[c])
           B == Answered(down[c]) \o Requested(up[c])
<1>1. /\ writes[c] \in Seq(LocalWrites) /\ held[c] \in Seq(Acks)
      /\ up[c] \in Seq(Requests) /\ down[c] \in Seq(Responses)
      /\ connected[c] \in BOOLEAN
  BY DEF TypeOK
<1>2. /\ A \in Seq(LocalWrites) /\ Len(A) = Len(held[c])
      /\ \A i \in 1 .. Len(held[c]) : A[i] = held[c][i].write
  BY <1>1, AnsweredAcks
<1>3. Answered(down[c]) \in Seq(LocalWrites) /\ Requested(up[c]) \in Seq(LocalWrites)
      /\ B \in Seq(LocalWrites)
  BY <1>1, AnsweredType, RequestedType, ConcatProperties
<1>4. connected[c] => writes[c] = A \o B
  <2>1. connected[c] => writes[c] = (A \o Answered(down[c])) \o Requested(up[c])
    BY DEF EveryWriteTracked
  <2> HIDE DEF A
  <2>2. PICK D \in Seq(LocalWrites) : D = Answered(down[c]) BY <1>3
  <2>3. PICK R \in Seq(LocalWrites) : R = Requested(up[c]) BY <1>3
  <2>4. PICK a \in Seq(LocalWrites) : a = A BY <1>2
  <2>5. Associates(a, D, R) BY ConcatAssociates
  <2>6. B = D \o R BY <2>2, <2>3
  <2>7. (A \o Answered(down[c])) \o Requested(up[c]) = A \o B
    BY <2>2, <2>3, <2>4, <2>5, <2>6 DEF Associates
  <2> QED BY <2>1, <2>7
<1>5. IsPrefix(A, writes[c])
  <2>1. CASE connected[c]
    <3> HIDE DEF A, B
    <3> QED BY <2>1, <1>2, <1>3, <1>4, PrefixOfConcat
  <2>2. CASE ~connected[c] BY <2>2 DEF EveryWriteTracked
  <2> QED BY <2>1, <2>2
<1> HIDE DEF A, B
<1>6. /\ Len(A) <= Len(writes[c])
      /\ Unanswered(c) \in Seq(LocalWrites)
      /\ writes[c] = A \o Unanswered(c)
  <2>1. Unanswered(c) = SubSeq(writes[c], Len(A) + 1, Len(writes[c]))
    BY <1>2 DEF Unanswered
  <2>2. writes[c] \in Seq(LocalWrites) /\ A \in Seq(LocalWrites) BY <1>1, <1>2
  <2> DEFINE ws == writes[c]
             r == SubSeq(ws, Len(A) + 1, Len(ws))
  <2> HIDE DEF ws
  <2>3. ws \in Seq(LocalWrites) /\ IsPrefix(A, ws) BY <2>2, <1>5 DEF ws
  <2>4. Len(A) <= Len(ws) /\ r \in Seq(LocalWrites) /\ ws = A \o r
    BY <2>2, <2>3, PrefixAndRest
  <2>5. r = Unanswered(c) BY <2>1 DEF ws
  <2> HIDE DEF r
  <2> QED BY <2>4, <2>5 DEF ws
<1>7. connected[c] => Unanswered(c) = B
  BY <1>2, <1>3, <1>4, <1>6, ConcatSimplifications
<1>8. SubSeq(writes[c], 1, Len(held[c])) = A
  BY <1>2, <1>6, ConcatParts
<1>9. \A i \in 1 .. Len(held[c]) : writes[c][i] = held[c][i].write
  <2>1. \A i \in 1 .. Len(A) : (A \o Unanswered(c))[i] = A[i]
    BY <1>2, <1>6, ConcatProperties, Len(A) \in Nat, Len(Unanswered(c)) \in Nat
  <2> QED BY <1>2, <1>6, <2>1
<1> QED BY <1>2, <1>6, <1>7, <1>8, <1>9 DEF A, B

(* Acting on all the responses held back leaves the writes without one. *)
LEMMA AckPutsAll ==
  ASSUME TypeOK, EveryWriteTracked, NEW c \in Clients
  PROVE  \A n \in 0 .. Len(held[c]) :
           AckPuts(c, n) = SubSeq(writes[c], n + 1, Len(writes[c]))
<1> DEFINE N == Len(held[c])
           R(n) == SubSeq(writes[c], n + 1, Len(writes[c]))
           S == {n \in 0 .. N : AckPuts(c, n) = R(n)}
<1>1. /\ writes[c] \in Seq(LocalWrites) /\ held[c] \in Seq(Acks)
      /\ N \in Nat /\ Len(writes[c]) \in Nat /\ N <= Len(writes[c])
  BY HeldAreOldest DEF TypeOK
<1>2. 0 \in S
  <2>1. PICK f \in [0 .. 0 -> Seq(LocalWrites)] :
           /\ f[0] = writes[c] /\ AckPuts(c, 0) = f[0]
           /\ \A n \in 1 .. 0 : f[n] = Settle(f[n - 1], held[c][n])
    <3>1. 0 \in 0 .. Len(held[c]) BY <1>1
    <3> QED BY <1>1, <3>1, AckPutsDef
  <2> QED BY <1>1, <2>1, SubSeqFull
<1>3. ASSUME NEW n \in 1 .. N, n - 1 \in S PROVE n \in S
  <2>1. AckPuts(c, n) = Settle(AckPuts(c, n - 1), held[c][n])
    BY <1>1, AckPutsStep
  <2> DEFINE q == SubSeq(writes[c], n, Len(writes[c]))
  <2>2. AckPuts(c, n - 1) = q BY <1>1, <1>3
  <2>3. Head(q) = writes[c][n] /\ Tail(q) = R(n)
    BY <1>1, HeadTailOfSubSeq
  <2>4. q \in Seq(LocalWrites) /\ Len(q) # 0
    <3>1. \A i \in n .. Len(writes[c]) : writes[c][i] \in LocalWrites BY <1>1
    <3> QED BY <1>1, <3>1, SubSeqProperties
  <2>5. writes[c][n] = held[c][n].write BY HeldAreOldest
  <2> HIDE DEF q, R
  <2>6. RemoveFirst(q, Head(q)) = Tail(q)
    BY <2>4, RemoveFirstHead
  <2>7. Settle(q, held[c][n]) = RemoveFirst(q, Head(q))
    BY <2>3, <2>5 DEF Settle
  <2>8. AckPuts(c, n) = R(n) BY <2>1, <2>2, <2>3, <2>6, <2>7
  <2> QED BY <2>8
<1>4. 0 .. N \subseteq S
  <2> HIDE DEF S
  <2> QED BY <1>1, <1>2, <1>3, InductionUpTo
<1> QED BY <1>4

(* The same, of the writes without a response. *)
LEMMA AckPutsRest ==
  ASSUME TypeOK, EveryWriteTracked, NEW c \in Clients
  PROVE  AckPuts(c, Len(held[c])) = Unanswered(c)
<1>1. Len(held[c]) \in 0 .. Len(held[c]) BY DEF TypeOK
<1> QED BY <1>1, AckPutsAll DEF Unanswered

(* The response that comes next is to the oldest write without one. *)
LEMMA LeftRest ==
  ASSUME TypeOK, EveryWriteTracked, NEW c \in Clients, connected[c],
         Message(c, "ack")
  PROVE  /\ Head(down[c]) \in Acks
         /\ Answered(down[c]) = <<Head(down[c]).write>> \o Answered(Tail(down[c]))
         /\ Left(c, Head(down[c])) \in Seq(LocalWrites)
         /\ Left(c, Head(down[c])) =
              Answered(held[c]) \o Answered(Tail(down[c])) \o Requested(up[c])
         /\ Len(Left(c, Head(down[c]))) + 1 = Len(writes[c])
<1> DEFINE ack == Head(down[c])
           w == ack.write
           A == Answered(held[c])
           D == Answered(Tail(down[c]))
           R == Requested(up[c])
<1>1. down[c] \in Seq(Responses) /\ up[c] \in Seq(Requests) BY DEF TypeOK
<1>2. ack \in Responses /\ Tail(down[c]) \in Seq(Responses) /\ ack.type = "ack"
      /\ down[c] # <<>>
  BY <1>1, HeadTailProperties DEF Message
<1>3. ack \in Acks /\ w \in LocalWrites
  BY <1>2 DEF Responses, Acks
<1>4. Answered(down[c]) = <<w>> \o D
  BY <1>1, <1>2, AnsweredHead DEF AnswerOf
<1>5. A \in Seq(LocalWrites) /\ D \in Seq(LocalWrites) /\ R \in Seq(LocalWrites)
      /\ <<w>> \in Seq(LocalWrites) /\ D \o R \in Seq(LocalWrites)
  <2>1. A \in Seq(LocalWrites) BY HeldAreOldest
  <2>2. D \in Seq(LocalWrites) /\ R \in Seq(LocalWrites)
    BY <1>1, <1>2, AnsweredType, RequestedType
  <2>3. <<w>> \in Seq(LocalWrites) BY <1>3
  <2> HIDE DEF D, R, A
  <2> QED BY <2>1, <2>2, <2>3, ConcatProperties
<1>6. Unanswered(c) = (<<w>> \o D) \o R BY <1>4, HeldAreOldest
<1>7. SubSeq(writes[c], 1, Len(held[c])) = A /\ writes[c] = A \o Unanswered(c)
      /\ Unanswered(c) \in Seq(LocalWrites)
  BY HeldAreOldest
<1> HIDE DEF A, D, R, w
<1>8. Unanswered(c) = <<w>> \o (D \o R)
  BY <1>5, <1>6, ConcatAssociative
<1>9. Unanswered(c) # <<>> /\ Head(Unanswered(c)) = w /\ Tail(Unanswered(c)) = D \o R
      /\ Len(Unanswered(c)) = Len(D \o R) + 1
  BY <1>3, <1>5, <1>8, HeadOfConcat
<1>10. Settle(Unanswered(c), ack) = D \o R
  <2>1. RemoveFirst(Unanswered(c), Head(Unanswered(c))) = Tail(Unanswered(c))
    BY <1>7, <1>9, RemoveFirstHead
  <2> QED BY <1>9, <2>1 DEF Settle, w
<1>11. Left(c, ack) = A \o (D \o R) BY <1>7, <1>10 DEF Left
<1>12. A \o (D \o R) = A \o D \o R /\ A \o (D \o R) \in Seq(LocalWrites)
  BY <1>5, ConcatAssociative, ConcatProperties, SMTT(30)
<1>13. Len(Left(c, ack)) + 1 = Len(writes[c])
  <2>1. Len(A \o (D \o R)) = Len(A) + Len(D \o R)
        /\ Len(A \o Unanswered(c)) = Len(A) + Len(Unanswered(c))
    BY <1>5, <1>7, ConcatProperties
  <2>2. Len(A) \in Nat /\ Len(D \o R) \in Nat /\ Len(Unanswered(c)) \in Nat
    BY <1>5, <1>7
  <2>3. Len(Left(c, ack)) = Len(A) + Len(D \o R) BY <1>11, <2>1
  <2>4. Len(writes[c]) = Len(A) + Len(Unanswered(c)) BY <1>7, <2>1
  <2> QED BY ONLY <1>9, <2>2, <2>3, <2>4
<1> QED BY <1>3, <1>4, <1>11, <1>12, <1>13 DEF A, D, R, w

-----------------------------------------------------------------------------
(* Types *)

(* A client's registrations are finitely many: they are told one by one. *)
TypeInv == TypeOK /\ \A c \in Clients : IsFiniteSet(regs[c])

(* The empty board and the empty screen. *)
LEMMA NothingIsABoard == Nothing \in Boards /\ NoRows \in PostCounts
BY DEF Nothing, NoRows, Boards, Records, PostCounts

(* Types hold at first. *)
LEMMA TypeInit == Init => TypeInv
<1> SUFFICES ASSUME Init PROVE TypeInv
  OBVIOUS
<1>1. \A c \in Clients : 0 \in 0 .. MaxSessions[c]
  BY BoundsAssumption
<1>2. \A c \in Clients : 0 \in Sessions
  BY <1>1 DEF Sessions
<1>3. 0 \in 0 .. MaxDrops /\ 0 \in 0 .. MaxCrashes BY BoundsAssumption
<1>4. TypeOK
  BY <1>2, <1>3, NothingIsABoard DEF Init, TypeOK
<1>5. \A c \in Clients : IsFiniteSet(regs[c]) BY FS_EmptySet DEF Init
<1> QED BY <1>4, <1>5 DEF TypeInv

(* What the head of a queue brings. *)
LEMMA HeadsOfQueues ==
  ASSUME TypeOK, NEW c \in Clients
  PROVE  /\ up[c] # <<>> => Head(up[c]) \in Requests /\ Tail(up[c]) \in Seq(Requests)
         /\ down[c] # <<>> => Head(down[c]) \in Responses /\ Tail(down[c]) \in Seq(Responses)
         /\ repoQ[c] # <<>> => Head(repoQ[c]) \in Blocks /\ Tail(repoQ[c]) \in Seq(Blocks)
         /\ mainQ[c] # <<>> => Head(mainQ[c]) \in Callbacks /\ Tail(mainQ[c]) \in Seq(Callbacks)
<1>1. /\ up[c] \in Seq(Requests) /\ down[c] \in Seq(Responses)
      /\ repoQ[c] \in Seq(Blocks) /\ mainQ[c] \in Seq(Callbacks)
  BY DEF TypeOK
<1> QED BY <1>1, HeadTailProperties

(* Tuning out keeps the type of tuned. *)
LEMMA TuneOutType ==
  ASSUME TypeOK, NEW c \in Clients, TuneOut(c)
  PROVE  tuned' \in [Posts -> SUBSET Clients]
BY DEF TypeOK, TuneOut

(* The user's actions keep the types, *)
LEMMA UserTypes ==
  ASSUME TypeInv, NEW c \in Clients
  PROVE  /\ OpenTimeline(c) => TypeInv'
         /\ Logout(c) => TypeInv'
         /\ \A p \in Posts : CreatePost(c, p) => TypeInv'
         /\ \A p \in Posts : RemovePost(c, p) => TypeInv'
<1> USE DEF sdkVars, appVars, historyVars, envVars
<1>0. TypeOK /\ \A d \in Clients : IsFiniteSet(regs[d]) BY DEF TypeInv
<1>1. ASSUME OpenTimeline(c) PROVE TypeInv'
  <2>1. session[c] + 1 \in Sessions
    <3>1. session[c] < MaxSessions[c] BY <1>1 DEF OpenTimeline
    <3>2. session[c] \in Nat
      BY <1>0, BoundsAssumption DEF TypeOK, Sessions
    <3>3. session[c] + 1 \in 0 .. MaxSessions[c] BY <3>1, <3>2, BoundsAssumption
    <3> QED BY <3>3 DEF Sessions
  <2>2. session' \in [Clients -> Sessions] /\ session'[c] = session[c] + 1
    BY <1>0, <1>1, <2>1 DEF TypeOK, OpenTimeline
  <2>3. [type |-> "observe", reg |-> <<"value", session'[c]>>] \in Blocks
    BY <2>1, <2>2 DEF Blocks, Regs
  <2>4. repoQ' \in [Clients -> Seq(Blocks)]
    <3>1. repoQ[c] \in Seq(Blocks) BY <1>0 DEF TypeOK
    <3>2. Append(repoQ[c], [type |-> "observe", reg |-> <<"value", session'[c]>>]) \in Seq(Blocks)
      BY <2>3, <3>1, AppendProperties
    <3> QED BY <1>0, <1>1, <3>2 DEF TypeOK, OpenTimeline
  <2>5. rows' \in [Clients -> PostCounts]
    BY <1>0, <1>1, NothingIsABoard DEF TypeOK, OpenTimeline
  <2>6. phase' \in [Clients -> {"closed", "loading", "live", "failed"}]
    BY <1>0, <1>1 DEF TypeOK, OpenTimeline
  <2> QED BY <1>0, <1>1, <2>2, <2>4, <2>5, <2>6 DEF TypeInv, TypeOK, OpenTimeline
<1>2. ASSUME Logout(c) PROVE TypeInv'
  <2>1. tuned' \in [Posts -> SUBSET Clients]
    BY <1>0, <1>2, TuneOutType DEF Logout
  <2> QED BY <1>0, <1>2, <2>1, NothingIsABoard DEF TypeInv, TypeOK, Logout
<1>3. ASSUME NEW p \in Posts, CreatePost(c, p) PROVE TypeInv'
  <2>1. Write("set", p) \in Blocks
    BY DEF Write, Blocks, LocalWrites, WriteOps
  <2>2. repoQ' \in [Clients -> Seq(Blocks)]
    <3>1. repoQ[c] \in Seq(Blocks) BY <1>0 DEF TypeOK
    <3>2. Append(repoQ[c], Write("set", p)) \in Seq(Blocks)
      BY <2>1, <3>1, AppendProperties
    <3> QED BY <1>0, <1>3, <3>2 DEF TypeOK, CreatePost
  <2>3. tuned' \in [Posts -> SUBSET Clients]
    BY <1>0, <1>3 DEF TypeOK, CreatePost
  <2>4. posted' \subseteq Posts BY <1>0, <1>3 DEF TypeOK, CreatePost
  <2> QED BY <1>0, <1>3, <2>2, <2>3, <2>4 DEF TypeInv, TypeOK, CreatePost
<1>4. ASSUME NEW p \in Posts, RemovePost(c, p) PROVE TypeInv'
  <2>1. Write("remove", p) \in Blocks
    BY DEF Write, Blocks, LocalWrites, WriteOps
  <2>2. repoQ' \in [Clients -> Seq(Blocks)]
    <3>1. repoQ[c] \in Seq(Blocks) BY <1>0 DEF TypeOK
    <3>2. Append(repoQ[c], Write("remove", p)) \in Seq(Blocks)
      BY <2>1, <3>1, AppendProperties
    <3> QED BY <1>0, <1>4, <3>2 DEF TypeOK, RemovePost
  <2>3. asked' \in [Clients -> PostCounts]
    <3>1. asked[c] \in [Posts -> Nat] /\ asked[c][p] \in Nat
      BY <1>0 DEF TypeOK, PostCounts
    <3>2. [asked[c] EXCEPT ![p] = asked[c][p] + 1] \in PostCounts
      BY <3>1 DEF PostCounts
    <3>3. asked' = [asked EXCEPT ![c] = [asked[c] EXCEPT ![p] = asked[c][p] + 1]]
      BY <1>4 DEF RemovePost
    <3> QED BY <1>0, <3>2, <3>3 DEF TypeOK
  <2> QED BY <1>0, <1>4, <2>2, <2>3 DEF TypeInv, TypeOK, RemovePost
<1> QED BY <1>1, <1>2, <1>3, <1>4

(* the app's callbacks do, *)
LEMMA MainThreadTypes ==
  ASSUME TypeInv, NEW c \in Clients, MainThread(c)
  PROVE  TypeInv'
<1> USE DEF sdkVars, appVars, historyVars, envVars
<1> DEFINE m == Head(mainQ[c])
<1>0. TypeOK /\ \A d \in Clients : IsFiniteSet(regs[d]) BY DEF TypeInv
<1>1. mainQ[c] # <<>> => m \in Callbacks /\ Tail(mainQ[c]) \in Seq(Callbacks)
  BY <1>0, HeadsOfQueues
<1>2. repoQ[c] \in Seq(Blocks) BY <1>0 DEF TypeOK
<1>3. CASE PostsRetrieved(c)
  <2>1. m \in Callbacks /\ m.type = "value" /\ mainQ[c] # <<>>
    BY <1>1, <1>3 DEF PostsRetrieved, Callback
  <2>2. m.session \in Sessions /\ m.posts \in SUBSET Posts
    BY <2>1 DEF Callbacks
  <2> DEFINE off == [type |-> "stop", reg |-> <<"value", m.session>>]
             on(kind) == [type |-> "observe", reg |-> <<kind, m.session>>]
             awaited == phase[c] = "loading" /\ session[c] = m.session
             news == IF awaited THEN <<off, on("changed"), on("removed")>> ELSE <<off>>
  <2>3. off \in Blocks /\ on("changed") \in Blocks /\ on("removed") \in Blocks
    BY <2>2 DEF Blocks, Regs
  <2>4. news \in Seq(Blocks)
    <3> HIDE DEF off, on
    <3> QED BY <2>3
  <2>5. repoQ' = [repoQ EXCEPT ![c] = repoQ[c] \o news]
    BY <1>3 DEF PostsRetrieved
  <2>6. repoQ[c] \o news \in Seq(Blocks)
    <3> HIDE DEF news
    <3> QED BY <1>2, <2>4, ConcatProperties
  <2>7. repoQ' \in [Clients -> Seq(Blocks)]
    <3> HIDE DEF news
    <3> QED BY <1>0, <2>5, <2>6 DEF TypeOK
  <2>8. OneRowEach(m.posts) \in PostCounts BY DEF OneRowEach, PostCounts
  <2>9. rows' \in [Clients -> PostCounts]
    BY <1>0, <1>3, <2>8 DEF TypeOK, PostsRetrieved
  <2>10. phase' \in [Clients -> {"closed", "loading", "live", "failed"}]
    BY <1>0, <1>3 DEF TypeOK, PostsRetrieved
  <2>11. mainQ' \in [Clients -> Seq(Callbacks)]
    BY <1>0, <1>1, <1>3, <2>1 DEF TypeOK, PostsRetrieved
  <2> QED BY <1>0, <1>3, <2>7, <2>9, <2>10, <2>11 DEF TypeInv, TypeOK, PostsRetrieved
<1>4. CASE RetrievalFailed(c)
  <2>1. m \in Callbacks /\ m.type = "cancelled" /\ mainQ[c] # <<>>
    BY <1>1, <1>4 DEF RetrievalFailed, Callback
  <2>2. m.session \in Sessions
    BY <2>1 DEF Callbacks
  <2>3. [type |-> "stop", reg |-> <<"value", m.session>>] \in Blocks
    BY <2>2 DEF Blocks, Regs
  <2>4. Append(repoQ[c], [type |-> "stop", reg |-> <<"value", m.session>>]) \in Seq(Blocks)
    BY <1>2, <2>3, AppendProperties
  <2>5. repoQ' \in [Clients -> Seq(Blocks)]
    BY <1>0, <1>4, <2>4 DEF TypeOK, RetrievalFailed
  <2>6. phase' \in [Clients -> {"closed", "loading", "live", "failed"}]
    BY <1>0, <1>4 DEF TypeOK, RetrievalFailed
  <2>7. mainQ' \in [Clients -> Seq(Callbacks)]
    BY <1>0, <1>1, <1>4, <2>1 DEF TypeOK, RetrievalFailed
  <2> QED BY <1>0, <1>4, <2>5, <2>6, <2>7 DEF TypeInv, TypeOK, RetrievalFailed
<1>5. ASSUME NEW type \in {"changed", "removed"}, NEW inserted \in Nat,
             FeedEvent(c, type, inserted)
      PROVE  TypeInv'
  <2>1. m \in Callbacks /\ m.type = type /\ mainQ[c] # <<>>
    BY <1>1, <1>5 DEF FeedEvent, Callback
  <2>2. m.post \in Posts
    BY <2>1 DEF Callbacks
  <2>3. rows' \in [Clients -> PostCounts]
    <3>1. [rows[c] EXCEPT ![m.post] = inserted] \in PostCounts
      BY <1>0, <2>2 DEF TypeOK, PostCounts
    <3>2. [rows EXCEPT ![c][m.post] = inserted]
            = [rows EXCEPT ![c] = [rows[c] EXCEPT ![m.post] = inserted]]
      OBVIOUS
    <3>3. [rows EXCEPT ![c][m.post] = inserted] \in [Clients -> PostCounts]
      BY <1>0, <3>1, <3>2 DEF TypeOK
    <3> QED BY <1>0, <1>5, <3>3 DEF TypeOK, FeedEvent
  <2>4. mainQ' \in [Clients -> Seq(Callbacks)]
    BY <1>0, <1>1, <1>5, <2>1 DEF TypeOK, FeedEvent
  <2> QED BY <1>0, <1>5, <2>3, <2>4 DEF TypeInv, TypeOK, FeedEvent
<1>6. ASSUME NEW type \in {"changed", "removed"}, Callback(c, type)
      PROVE  rows[c][m.post] \in Nat
  <2>1. m \in Callbacks /\ m.type = type
    BY <1>1, <1>6 DEF Callback
  <2>2. m.post \in Posts
    BY <2>1 DEF Callbacks
  <2> QED BY <1>0, <2>2 DEF TypeOK, PostCounts
<1>7. CASE PostAdded(c)
  <2>1. rows[c][m.post] \in Nat BY <1>6, <1>7 DEF PostAdded, FeedEvent
  <2> QED BY <1>5, <1>7, <2>1 DEF PostAdded
<1>8. CASE PostRemoved(c)
  <2>1. rows[c][m.post] \in Nat BY <1>6, <1>8 DEF PostRemoved, FeedEvent
  <2>2. (IF rows[c][m.post] > 0 THEN rows[c][m.post] - 1 ELSE 0) \in Nat BY <2>1
  <2>3. FeedEvent(c, "removed", IF rows[c][m.post] > 0 THEN rows[c][m.post] - 1 ELSE 0)
    BY <1>8 DEF PostRemoved
  <2> QED BY <1>5, <2>2, <2>3
<1>9. CASE PostWritten(c)
  <2>1. m \in Callbacks /\ m.type = "written" /\ mainQ[c] # <<>>
    BY <1>1, <1>9 DEF PostWritten, Callback
  <2>2. Write("update", m.post) \in Blocks
    BY <2>1 DEF Callbacks, Write, Blocks, LocalWrites, WriteOps
  <2>3. Append(repoQ[c], Write("update", m.post)) \in Seq(Blocks)
    BY <1>2, <2>2, AppendProperties
  <2>4. repoQ' \in [Clients -> Seq(Blocks)]
    BY <1>0, <1>9, <2>3 DEF TypeOK, PostWritten
  <2>5. mainQ' \in [Clients -> Seq(Callbacks)]
    BY <1>0, <1>1, <1>9, <2>1 DEF TypeOK, PostWritten
  <2> QED BY <1>0, <1>9, <2>4, <2>5 DEF TypeInv, TypeOK, PostWritten
<1> QED BY <1>3, <1>4, <1>7, <1>8, <1>9 DEF MainThread

(* (what is sent is put behind what is on its way up) *)
LEMMA SendType ==
  ASSUME TypeOK, NEW c \in Clients, NEW messages \in Seq(Requests), Send(c, messages)
  PROVE  up' \in [Clients -> Seq(Requests)]
<1>1. up[c] \in Seq(Requests) BY DEF TypeOK
<1>2. up[c] \o messages \in Seq(Requests) BY <1>1, ConcatProperties
<1> QED BY <1>1, <1>2 DEF TypeOK, Send

(* the SDK's blocks, *)
LEMMA RepoBlockTypes ==
  ASSUME TypeInv, NEW c \in Clients, RepoBlock(c)
  PROVE  TypeInv'
<1> USE DEF sdkVars, appVars, historyVars, envVars
<1> DEFINE b == Head(repoQ[c])
<1>0. TypeOK /\ \A d \in Clients : IsFiniteSet(regs[d]) BY DEF TypeInv
<1>1. repoQ[c] # <<>> => b \in Blocks /\ Tail(repoQ[c]) \in Seq(Blocks)
  BY <1>0, HeadsOfQueues
<1>2. /\ mainQ[c] \in Seq(Callbacks) /\ writes[c] \in Seq(LocalWrites)
      /\ session[c] \in Sessions /\ regs[c] \in SUBSET Regs
  BY <1>0 DEF TypeOK
<1>3. CASE AddObserver(c)
  <2>1. b \in Blocks /\ b.type = "observe" /\ repoQ[c] # <<>>
    BY <1>1, <1>3 DEF AddObserver, Block
  <2>2. b.reg \in Regs
    BY <2>1 DEF Blocks, LocalWrites, WriteOps
  <2>3. {b.reg} \subseteq Regs /\ IsFiniteSet({b.reg})
    BY <2>2, FS_Singleton
  <2>4. regs' = [regs EXCEPT ![c] = regs[c] \cup {b.reg}]
    BY <1>3 DEF AddObserver
  <2>5. regs[c] \cup {b.reg} \subseteq Regs /\ IsFiniteSet(regs[c] \cup {b.reg})
    BY <1>0, <1>2, <2>3, FS_Union
  <2>6. regs' \in [Clients -> SUBSET Regs] /\ \A d \in Clients : IsFiniteSet(regs'[d])
    <3> HIDE DEF b
    <3> QED BY <1>0, <2>4, <2>5 DEF TypeOK
  <2>7. up' \in [Clients -> Seq(Requests)]
    <3> DEFINE messages == IF regs[c] = {} THEN <<[type |-> "listen"]>> ELSE <<>>
    <3>1. [type |-> "listen"] \in Requests BY DEF Requests
    <3>2. messages \in Seq(Requests) BY <3>1
    <3>3. Send(c, messages) BY <1>3 DEF AddObserver
    <3> HIDE DEF messages
    <3> QED BY <1>0, <3>2, <3>3, SendType
  <2>8. mainQ' \in [Clients -> Seq(Callbacks)]
    <3> DEFINE told == ValueEvents(c, {b.reg}, Picture(c))
    <3>1. told \in Seq(Callbacks) BY <2>3, ValueEventsType
    <3>2. mainQ[c] \o told \in Seq(Callbacks)
      <4> HIDE DEF told
      <4> QED BY <1>2, <3>1, ConcatProperties
    <3>3. mainQ' = [mainQ EXCEPT ![c] =
                      IF b.reg[1] = "value" /\ complete[c] THEN mainQ[c] \o told ELSE mainQ[c]]
      BY <1>3 DEF AddObserver
    <3> HIDE DEF told, b
    <3> QED BY <1>0, <1>2, <3>2, <3>3 DEF TypeOK
  <2>9. repoQ' \in [Clients -> Seq(Blocks)]
    BY <1>0, <1>1, <1>3, <2>1 DEF TypeOK, AddObserver
  <2> QED BY <1>0, <1>3, <2>6, <2>7, <2>8, <2>9 DEF TypeInv, TypeOK, AddObserver
<1>4. CASE RemoveObserver(c)
  <2>1. repoQ[c] # <<>>
    BY <1>4 DEF RemoveObserver, Block
  <2> DEFINE left == regs[c] \ {b.reg}
             isLast == left = {} /\ regs[c] # {}
             messages == IF isLast THEN <<[type |-> "unlisten"]>> ELSE <<>>
  <2>2. left \subseteq Regs /\ IsFiniteSet(left)
    BY <1>0, <1>2, FS_Subset
  <2>3. regs' = [regs EXCEPT ![c] = left]
    BY <1>4 DEF RemoveObserver
  <2>4. regs' \in [Clients -> SUBSET Regs] /\ \A d \in Clients : IsFiniteSet(regs'[d])
    <3> HIDE DEF left
    <3> QED BY <1>0, <2>2, <2>3 DEF TypeOK
  <2>5. up' \in [Clients -> Seq(Requests)]
    <3>1. [type |-> "unlisten"] \in Requests BY DEF Requests
    <3>2. messages \in Seq(Requests) BY <3>1
    <3>3. Send(c, messages) BY <1>4 DEF RemoveObserver
    <3> HIDE DEF messages
    <3> QED BY <1>0, <3>2, <3>3, SendType
  <2>6. complete' \in [Clients -> BOOLEAN] /\ cache' \in [Clients -> Boards]
    <3>1. /\ complete' = [complete EXCEPT ![c] = complete[c] /\ ~isLast]
          /\ cache' = [cache EXCEPT ![c] = IF isLast THEN Nothing ELSE cache[c]]
      BY <1>4 DEF RemoveObserver
    <3> HIDE DEF isLast
    <3> QED BY <1>0, <3>1, NothingIsABoard DEF TypeOK
  <2>7. repoQ' \in [Clients -> Seq(Blocks)]
    BY <1>0, <1>1, <1>4, <2>1 DEF TypeOK, RemoveObserver
  <2> QED BY <1>0, <1>4, <2>4, <2>5, <2>6, <2>7 DEF TypeInv, TypeOK, RemoveObserver
<1>5. CASE LocalWrite(c)
  <2> DEFINE ws == Append(writes[c], b)
             told == ChildEvents(c, regs[c], Picture(c), Overlay(cache[c], complete[c], ws))
  <2>1. b \in Blocks /\ b.type \in WriteOps /\ repoQ[c] # <<>>
    BY <1>1, <1>5 DEF LocalWrite, Block
  <2>2. b \in LocalWrites
    BY <2>1 DEF Blocks, WriteOps
  <2>3. ws \in Seq(LocalWrites) BY <1>2, <2>2, AppendProperties
  <2>4. writes' \in [Clients -> Seq(LocalWrites)]
    <3>1. writes' = [writes EXCEPT ![c] = ws] BY <1>5 DEF LocalWrite
    <3> HIDE DEF ws
    <3> QED BY <1>0, <2>3, <3>1 DEF TypeOK
  <2>5. up' \in [Clients -> Seq(Requests)]
    <3>1. <<b>> \in Seq(Requests) BY <2>2 DEF Requests
    <3>2. Send(c, <<b>>) BY <1>5 DEF LocalWrite
    <3> QED BY <1>0, <3>1, <3>2, SendType
  <2>6. mainQ' \in [Clients -> Seq(Callbacks)]
    <3>1. told \in Seq(Callbacks) BY <1>2, ChildEventsType
    <3>2. mainQ[c] \o told \in Seq(Callbacks)
      <4> HIDE DEF told
      <4> QED BY <1>2, <3>1, ConcatProperties
    <3>3. mainQ' = [mainQ EXCEPT ![c] = mainQ[c] \o told]
      BY <1>5 DEF LocalWrite
    <3> HIDE DEF told
    <3> QED BY <1>0, <3>2, <3>3 DEF TypeOK
  <2>7. repoQ' \in [Clients -> Seq(Blocks)]
    BY <1>0, <1>1, <1>5, <2>1 DEF TypeOK, LocalWrite
  <2> QED BY <1>0, <1>5, <2>4, <2>5, <2>6, <2>7 DEF TypeInv, TypeOK, LocalWrite
<1> QED BY <1>3, <1>4, <1>5 DEF RepoBlock

(* (a push makes a board of the cache) *)
LEMMA PatchType ==
  ASSUME TypeOK, NEW c \in Clients, NEW w \in LocalWrites
  PROVE  Patch(c, w) \in Boards
<1>1. cache[c] \in [Posts -> Records] BY DEF TypeOK, Boards
<1>2. w.post \in Posts /\ w.type \in WriteOps BY DEF LocalWrites
<1>3. Apply(w.type, cache[c][w.post]) \in Records BY <1>1, <1>2, ApplyType
<1>4. [cache[c] EXCEPT ![w.post] = Apply(w.type, cache[c][w.post])] \in Boards
  BY <1>1, <1>3 DEF Boards
<1> QED BY <1>1, <1>4 DEF Patch, Boards

(* The responses held back for client c, all acted on. *)
LEMMA ReleaseTypes ==
  ASSUME TypeInv, NEW c \in Clients
  PROVE  /\ AckPuts(c, Len(held[c])) \in Seq(LocalWrites)
         /\ \A rs, ca, whole : AckPutsEvents(c, rs, ca, whole) \in Seq(Callbacks)
         /\ Cancelled(c) \in Seq(Callbacks)
<1>1. /\ TypeOK /\ held[c] \in Seq(Acks) /\ writes[c] \in Seq(LocalWrites)
      /\ session[c] \in Sessions /\ regs[c] \in SUBSET Regs /\ IsFiniteSet(regs[c])
  BY DEF TypeInv, TypeOK
<1>2. Len(held[c]) \in 0 .. Len(held[c]) BY <1>1
<1>3. AckPuts(c, Len(held[c])) \in Seq(LocalWrites) BY <1>1, <1>2, AckPutsType
<1>4. ASSUME NEW rs, NEW ca, NEW whole
      PROVE  AckPutsEvents(c, rs, ca, whole) \in Seq(Callbacks)
  BY <1>1, AckPutsEventsType
<1>5. Cancelled(c) \in Seq(Callbacks) BY <1>1, CancelledType
<1> QED BY <1>3, <1>4, <1>5

(* the SDK's handling of messages: here the tree must be tracked, since a  *)
(* response must not settle a write that is still to be sent;              *)
LEMMA ReceiveTypes ==
  ASSUME TypeInv, EveryWriteTracked, NEW c \in Clients, connected[c], Receive(c)
  PROVE  TypeInv'
<1> USE DEF sdkVars, appVars, historyVars, envVars
<1> DEFINE m == Head(down[c])
<1>0. TypeOK /\ \A d \in Clients : IsFiniteSet(regs[d]) BY DEF TypeInv
<1>1. down[c] # <<>> => m \in Responses /\ Tail(down[c]) \in Seq(Responses)
  BY <1>0, HeadsOfQueues
<1>2. /\ mainQ[c] \in Seq(Callbacks) /\ writes[c] \in Seq(LocalWrites)
      /\ session[c] \in Sessions /\ regs[c] \in SUBSET Regs /\ IsFiniteSet(regs[c])
      /\ cache[c] \in Boards /\ held[c] \in Seq(Acks)
  BY <1>0 DEF TypeOK
<1>3. CASE ReceivePush(c)
  <2> DEFINE told == ChildEvents(c, regs[c], Picture(c),
                                 Overlay(cache'[c], complete[c], writes[c]))
  <2>1. m \in Responses /\ m.type = "push" /\ down[c] # <<>>
    BY <1>1, <1>3 DEF ReceivePush, Message
  <2>2. m.write \in LocalWrites
    BY <2>1 DEF Responses, Acks
  <2>3. cache' \in [Clients -> Boards]
    <3>1. Patch(c, m.write) \in Boards BY <1>0, <2>2, PatchType
    <3>2. cache' = [cache EXCEPT ![c] = Patch(c, m.write)] BY <1>3 DEF ReceivePush
    <3> QED BY <1>0, <3>1, <3>2 DEF TypeOK
  <2>4. mainQ' \in [Clients -> Seq(Callbacks)]
    <3>1. told \in Seq(Callbacks) BY <1>2, ChildEventsType
    <3>2. mainQ[c] \o told \in Seq(Callbacks)
      <4> HIDE DEF told
      <4> QED BY <1>2, <3>1, ConcatProperties
    <3>3. mainQ' = [mainQ EXCEPT ![c] = mainQ[c] \o told]
      BY <1>3 DEF ReceivePush
    <3> HIDE DEF told
    <3> QED BY <1>0, <3>2, <3>3 DEF TypeOK
  <2>5. down' \in [Clients -> Seq(Responses)]
    BY <1>0, <1>1, <1>3, <2>1 DEF TypeOK, ReceivePush
  <2> QED BY <1>0, <1>3, <2>3, <2>4, <2>5 DEF TypeInv, TypeOK, ReceivePush
<1>4. CASE ReceiveSnapshot(c)
  <2> DEFINE board == m.board
             viewed == regs[c] # {}
             ca == IF viewed THEN board ELSE cache[c]
             whole == viewed \/ complete[c]
             shown == Overlay(ca, whole, writes[c])
             values == IF complete[c] THEN <<>> ELSE ValueEvents(c, ValueRegs(c), shown)
             wait == ListenPending(up[c], Tail(down[c]))
             told == ChildEvents(c, regs[c], Picture(c), shown)
             acks == IF wait THEN <<>> ELSE AckPutsEvents(c, regs[c], ca, whole)
  <2>1. m \in Responses /\ m.type = "snapshot" /\ down[c] # <<>>
    BY <1>1, <1>4 DEF ReceiveSnapshot, Message
  <2>2. board \in Boards
    BY <2>1 DEF Responses, Acks
  <2>3. cache' = [cache EXCEPT ![c] = ca] /\ complete' = [complete EXCEPT ![c] = whole]
    BY <1>4 DEF ReceiveSnapshot
  <2>4. cache' \in [Clients -> Boards] /\ complete' \in [Clients -> BOOLEAN]
    <3>1. ca \in Boards /\ whole \in BOOLEAN BY <1>0, <1>2, <2>2 DEF TypeOK
    <3> HIDE DEF ca, whole
    <3> QED BY <1>0, <2>3, <3>1 DEF TypeOK
  <2>5. writes' \in [Clients -> Seq(LocalWrites)] /\ held' \in [Clients -> Seq(Acks)]
    <3>1. AckPuts(c, Len(held[c])) \in Seq(LocalWrites) BY ReleaseTypes
    <3>2. /\ writes' = [writes EXCEPT ![c] = IF wait THEN writes[c] ELSE AckPuts(c, Len(held[c]))]
          /\ held' = [held EXCEPT ![c] = IF wait THEN held[c] ELSE <<>>]
      BY <1>4 DEF ReceiveSnapshot
    <3>3. <<>> \in Seq(Acks) OBVIOUS
    <3> HIDE DEF wait
    <3> QED BY <1>0, <1>2, <3>1, <3>2, <3>3 DEF TypeOK
  <2>6. mainQ' \in [Clients -> Seq(Callbacks)]
    <3>1. told \in Seq(Callbacks) BY <1>2, ChildEventsType
    <3>2. values \in Seq(Callbacks)
      <4>1. ValueRegs(c) \in SUBSET Regs /\ IsFiniteSet(ValueRegs(c))
        BY <1>2, FS_Subset DEF ValueRegs
      <4>2. ValueEvents(c, ValueRegs(c), shown) \in Seq(Callbacks)
        BY <4>1, ValueEventsType
      <4> QED BY <4>2
    <3>3. acks \in Seq(Callbacks)
      <4>1. AckPutsEvents(c, regs[c], ca, whole) \in Seq(Callbacks) BY ReleaseTypes
      <4> QED BY <4>1
    <3>4. mainQ[c] \o told \o values \o acks \in Seq(Callbacks)
      <4> HIDE DEF told, values, acks
      <4> QED BY <1>2, <3>1, <3>2, <3>3, ConcatProperties
    <3>5. mainQ' = [mainQ EXCEPT ![c] = mainQ[c] \o told \o values \o acks]
      BY <1>4 DEF ReceiveSnapshot
    <3> HIDE DEF told, values, acks
    <3> QED BY <1>0, <3>4, <3>5 DEF TypeOK
  <2>7. down' \in [Clients -> Seq(Responses)]
    BY <1>0, <1>1, <1>4, <2>1 DEF TypeOK, ReceiveSnapshot
  <2> HIDE DEF told, values, acks, ca, whole, wait, shown
  <2> QED BY <1>0, <1>4, <2>4, <2>5, <2>6, <2>7 DEF TypeInv, TypeOK, ReceiveSnapshot
<1>5. ASSUME CancelView(c)
      PROVE  /\ regs' \in [Clients -> SUBSET Regs] /\ \A d \in Clients : IsFiniteSet(regs'[d])
             /\ complete' \in [Clients -> BOOLEAN] /\ cache' \in [Clients -> Boards]
  BY <1>0, <1>5, NothingIsABoard, FS_EmptySet DEF TypeOK, CancelView
<1>6. CASE ReceiveRefusal(c)
  <2>1. down[c] # <<>> BY <1>6 DEF ReceiveRefusal, Message
  <2>2. down' \in [Clients -> Seq(Responses)]
    BY <1>0, <1>1, <1>6, <2>1 DEF TypeOK, ReceiveRefusal
  <2>3. CASE ListenPending(up[c], Tail(down[c]))
    BY <1>0, <1>6, <2>2, <2>3 DEF TypeInv, TypeOK, ReceiveRefusal
  <2>4. CASE ~ListenPending(up[c], Tail(down[c]))
    <3> DEFINE told == AckPutsEvents(c, {}, Nothing, FALSE)
    <3>1. CancelView(c) BY <1>6, <2>4 DEF ReceiveRefusal
    <3>2. writes' = [writes EXCEPT ![c] = AckPuts(c, Len(held[c]))]
          /\ held' = [held EXCEPT ![c] = <<>>]
          /\ mainQ' = [mainQ EXCEPT ![c] = mainQ[c] \o Cancelled(c) \o told]
      BY <1>6, <2>4 DEF ReceiveRefusal
    <3>3. told \in Seq(Callbacks) /\ Cancelled(c) \in Seq(Callbacks)
          /\ AckPuts(c, Len(held[c])) \in Seq(LocalWrites)
      BY ReleaseTypes
    <3> HIDE DEF told
    <3>4. mainQ[c] \o Cancelled(c) \o told \in Seq(Callbacks)
      BY <1>2, <3>3, ConcatProperties
    <3>5. /\ writes' \in [Clients -> Seq(LocalWrites)] /\ held' \in [Clients -> Seq(Acks)]
          /\ mainQ' \in [Clients -> Seq(Callbacks)]
      BY <1>0, <3>2, <3>3, <3>4 DEF TypeOK
    <3> QED BY <1>0, <1>5, <1>6, <2>2, <3>1, <3>5 DEF TypeInv, TypeOK, ReceiveRefusal
  <2> QED BY <2>3, <2>4
<1>7. CASE ReceiveRevocation(c)
  <2>1. down[c] # <<>> BY <1>7 DEF ReceiveRevocation, Message
  <2>2. down' \in [Clients -> Seq(Responses)]
    BY <1>0, <1>1, <1>7, <2>1 DEF TypeOK, ReceiveRevocation
  <2>3. Cancelled(c) \in Seq(Callbacks) BY ReleaseTypes
  <2>4. mainQ[c] \o Cancelled(c) \in Seq(Callbacks)
    BY <1>2, <2>3, ConcatProperties
  <2>5. mainQ' \in [Clients -> Seq(Callbacks)]
    BY <1>0, <1>7, <2>4 DEF TypeOK, ReceiveRevocation
  <2>6. CancelView(c) BY <1>7 DEF ReceiveRevocation
  <2> QED BY <1>0, <1>5, <1>7, <2>2, <2>5, <2>6 DEF TypeInv, TypeOK, ReceiveRevocation
<1>8. CASE ReceiveAck(c)
  <2> DEFINE told == SettleEvents(c, regs[c], cache[c], complete[c], writes[c], Left(c, m), m)
  <2>1. Message(c, "ack") BY <1>8 DEF ReceiveAck
  <2>2. m \in Acks /\ Left(c, m) \in Seq(LocalWrites) /\ down[c] # <<>>
    BY <1>0, <2>1, LeftRest DEF Message
  <2>3. down' \in [Clients -> Seq(Responses)]
    BY <1>0, <1>1, <1>8, <2>2 DEF TypeOK, ReceiveAck
  <2>4. CASE ListenPending(up[c], down[c])
    <3>1. Append(held[c], m) \in Seq(Acks) BY <1>2, <2>2, AppendProperties
    <3>2. held' = [held EXCEPT ![c] = Append(held[c], m)] /\ UNCHANGED <<writes, mainQ>>
      BY <1>8, <2>4 DEF ReceiveAck
    <3>3. held' \in [Clients -> Seq(Acks)] BY <1>0, <3>1, <3>2 DEF TypeOK
    <3> QED BY <1>0, <1>8, <2>3, <3>2, <3>3 DEF TypeInv, TypeOK, ReceiveAck
  <2>5. CASE ~ListenPending(up[c], down[c])
    <3>1. /\ writes' = [writes EXCEPT ![c] = Left(c, m)]
          /\ mainQ' = [mainQ EXCEPT ![c] = mainQ[c] \o told] /\ UNCHANGED held
      BY <1>8, <2>5 DEF ReceiveAck
    <3>2. told \in Seq(Callbacks) BY <1>2, <2>2, SettleEventsType
    <3> HIDE DEF told
    <3>3. mainQ[c] \o told \in Seq(Callbacks) BY <1>2, <3>2, ConcatProperties
    <3>4. writes' \in [Clients -> Seq(LocalWrites)] /\ mainQ' \in [Clients -> Seq(Callbacks)]
      BY <1>0, <2>2, <3>1, <3>3 DEF TypeOK
    <3> QED BY <1>0, <1>8, <2>3, <3>1, <3>4 DEF TypeInv, TypeOK, ReceiveAck
  <2> QED BY <2>4, <2>5
<1> QED BY <1>3, <1>4, <1>6, <1>7, <1>8 DEF Receive

(* What the server's performance of a write sends down to client d. *)
Pushed(d, w, ok) ==
  IF ok /\ listening[d] THEN <<[type |-> "push", write |-> w]>> ELSE <<>>
AckedTo(d, c, w, ok) ==
  IF d = c THEN <<[type |-> "ack", write |-> w, ok |-> ok]>> ELSE <<>>

(* A write served, in one formula. *)
LEMMA ServeWriteDef ==
  ASSUME TypeOK, NEW c \in Clients, ServeWrite(c)
  PROVE  \E w \in LocalWrites, ok \in BOOLEAN :
           /\ w = Head(up[c]) /\ up[c] # <<>> /\ (~RejectsWrites => ok)
           /\ server' = IF ok THEN [server EXCEPT ![w.post] = Apply(w.type, server[w.post])]
                        ELSE server
           /\ \A d \in Clients :
                /\ down'[d] = down[d] \o Pushed(d, w, ok) \o AckedTo(d, c, w, ok)
                /\ Pushed(d, w, ok) \in Seq(Responses)
                /\ AckedTo(d, c, w, ok) \in Seq(Responses)
                /\ down[d] \o Pushed(d, w, ok) \o AckedTo(d, c, w, ok) \in Seq(Responses)
           /\ DOMAIN down' = Clients /\ down' = [d \in Clients |-> down'[d]]
           /\ up' = [up EXCEPT ![c] = Tail(@)]
<1> DEFINE w == Head(up[c])
<1>1. up[c] # <<>> /\ w.type \in WriteOps BY DEF ServeWrite, Request
<1>2. w \in LocalWrites
  BY <1>1, HeadsOfQueues DEF Requests, WriteOps
<1>3. PICK ok \in IF RejectsWrites THEN BOOLEAN ELSE {TRUE} :
          /\ server' = IF ok THEN [server EXCEPT ![w.post] = Apply(w.type, @)]
                       ELSE server
          /\ down' = [d \in Clients |-> down[d] \o Pushed(d, w, ok) \o AckedTo(d, c, w, ok)]
  BY DEF ServeWrite, Pushed, AckedTo
<1>4. ok \in BOOLEAN /\ (~RejectsWrites => ok) OBVIOUS
<1>5. ASSUME NEW d \in Clients
      PROVE  /\ Pushed(d, w, ok) \in Seq(Responses)
             /\ AckedTo(d, c, w, ok) \in Seq(Responses)
             /\ down[d] \o Pushed(d, w, ok) \o AckedTo(d, c, w, ok) \in Seq(Responses)
  <2>1. [type |-> "push", write |-> w] \in Responses BY <1>2 DEF Responses
  <2>2. [type |-> "ack", write |-> w, ok |-> ok] \in Responses
    BY <1>2, <1>4 DEF Responses, Acks
  <2>3. Pushed(d, w, ok) \in Seq(Responses) BY <2>1 DEF Pushed
  <2>4. AckedTo(d, c, w, ok) \in Seq(Responses) BY <2>2 DEF AckedTo
  <2>5. down[d] \in Seq(Responses) BY DEF TypeOK
  <2> QED BY <2>3, <2>4, <2>5, ConcatProperties
<1>6. up' = [up EXCEPT ![c] = Tail(@)] BY DEF ServeWrite
<1>7. \A d \in Clients : down'[d] = down[d] \o Pushed(d, w, ok) \o AckedTo(d, c, w, ok)
  BY <1>3
<1>8. DOMAIN down' = Clients /\ down' = [d \in Clients |-> down'[d]] BY <1>3
<1> HIDE DEF w
<1> QED BY <1>1, <1>2, <1>3, <1>4, <1>5, <1>6, <1>7, <1>8 DEF w

(* the server, *)
LEMMA ServeTypes ==
  ASSUME TypeInv, NEW c \in Clients, Serve(c)
  PROVE  TypeInv'
<1> USE DEF sdkVars, appVars, historyVars, envVars
<1>0. TypeOK /\ \A d \in Clients : IsFiniteSet(regs[d]) BY DEF TypeInv
<1>1. up[c] # <<>> => Head(up[c]) \in Requests /\ Tail(up[c]) \in Seq(Requests)
  BY <1>0, HeadsOfQueues
<1>2. down[c] \in Seq(Responses) /\ server \in Boards BY <1>0 DEF TypeOK
<1>3. CASE ServeListen(c)
  <2>1. PICK ok \in IF RejectsListens THEN BOOLEAN ELSE {TRUE} :
          /\ listening' = [listening EXCEPT ![c] = ok]
          /\ down' = [down EXCEPT ![c] =
                        Append(down[c], IF ok THEN [type |-> "snapshot", board |-> server]
                                               ELSE [type |-> "refusal"])]
    BY <1>3 DEF ServeListen
  <2> DEFINE m == IF ok THEN [type |-> "snapshot", board |-> server] ELSE [type |-> "refusal"]
  <2>2. m \in Responses /\ ok \in BOOLEAN BY <1>2 DEF Responses
  <2>3. Append(down[c], m) \in Seq(Responses)
    <3> HIDE DEF m
    <3> QED BY <1>2, <2>2, AppendProperties
  <2>4. listening' \in [Clients -> BOOLEAN] /\ down' \in [Clients -> Seq(Responses)]
    <3> HIDE DEF m
    <3> QED BY <1>0, <2>1, <2>2, <2>3 DEF TypeOK, m
  <2>5. up' \in [Clients -> Seq(Requests)]
    BY <1>0, <1>1, <1>3 DEF TypeOK, ServeListen, Request
  <2> QED BY <1>0, <1>3, <2>4, <2>5 DEF TypeInv, TypeOK, ServeListen
<1>4. CASE ServeUnlisten(c)
  <2>1. up' \in [Clients -> Seq(Requests)] /\ listening' \in [Clients -> BOOLEAN]
    BY <1>0, <1>1, <1>4 DEF TypeOK, ServeUnlisten, Request
  <2> QED BY <1>0, <1>4, <2>1 DEF TypeInv, TypeOK, ServeUnlisten
<1>5. CASE ServeWrite(c)
  <2>1. PICK w \in LocalWrites, ok \in BOOLEAN :
           /\ w = Head(up[c]) /\ up[c] # <<>>
           /\ server' = IF ok THEN [server EXCEPT ![w.post] = Apply(w.type, server[w.post])]
                        ELSE server
           /\ \A d \in Clients :
                /\ down'[d] = down[d] \o Pushed(d, w, ok) \o AckedTo(d, c, w, ok)
                /\ down[d] \o Pushed(d, w, ok) \o AckedTo(d, c, w, ok) \in Seq(Responses)
           /\ DOMAIN down' = Clients /\ down' = [d \in Clients |-> down'[d]]
           /\ up' = [up EXCEPT ![c] = Tail(@)]
    BY <1>0, <1>5, ServeWriteDef
  <2>2. server' \in Boards
    <3>1. w.post \in Posts /\ w.type \in WriteOps BY DEF LocalWrites
    <3>2. Apply(w.type, server[w.post]) \in Records
      BY <1>2, <3>1, ApplyType DEF Boards
    <3> QED BY <1>2, <2>1, <3>1, <3>2 DEF Boards
  <2>3. down' \in [Clients -> Seq(Responses)]
    <3>1. \A d \in Clients : down'[d] \in Seq(Responses) BY <2>1
    <3> QED BY <2>1, <3>1
  <2>4. up' \in [Clients -> Seq(Requests)]
    BY <1>0, <1>1, <2>1 DEF TypeOK
  <2> QED BY <1>0, <1>5, <2>2, <2>3, <2>4 DEF TypeInv, TypeOK, ServeWrite
<1> QED BY <1>3, <1>4, <1>5 DEF Serve

(* and the connection: what is sent again are the writes without a         *)
(* response, so here, too, those held back must be of the oldest ones.     *)
LEMMA ConnectionTypes ==
  ASSUME TypeInv, EveryWriteTracked, NEW c \in Clients
  PROVE  /\ RevokeListen(c) => TypeInv'
         /\ Disconnect(c) => TypeInv'
         /\ Reconnect(c) => TypeInv'
         /\ Crash(c) => TypeInv'
<1> USE DEF sdkVars, appVars, historyVars, envVars
<1>0. TypeOK /\ \A d \in Clients : IsFiniteSet(regs[d]) BY DEF TypeInv
<1>1. ASSUME RevokeListen(c) PROVE TypeInv'
  <2>1. tuned' \in [Posts -> SUBSET Clients]
    BY <1>0, <1>1, TuneOutType DEF RevokeListen
  <2>2. down' \in [Clients -> Seq(Responses)]
    <3>1. [type |-> "revocation"] \in Responses /\ down[c] \in Seq(Responses)
      BY <1>0 DEF Responses, TypeOK
    <3>2. Append(down[c], [type |-> "revocation"]) \in Seq(Responses)
      BY <3>1, AppendProperties
    <3> QED BY <1>0, <1>1, <3>2 DEF TypeOK, RevokeListen
  <2>3. drops' \in 0 .. MaxDrops
    BY <1>0, <1>1, BoundsAssumption DEF TypeOK, RevokeListen
  <2> QED BY <1>0, <1>1, <2>1, <2>2, <2>3 DEF TypeInv, TypeOK, RevokeListen
<1>2. ASSUME Disconnect(c) PROVE TypeInv'
  <2>1. tuned' \in [Posts -> SUBSET Clients]
    BY <1>0, <1>2, TuneOutType DEF Disconnect
  <2>2. up' \in [Clients -> Seq(Requests)] /\ down' \in [Clients -> Seq(Responses)]
    BY <1>0, <1>2 DEF TypeOK, Disconnect
  <2>3. drops' \in 0 .. MaxDrops
    BY <1>0, <1>2, BoundsAssumption DEF TypeOK, Disconnect
  <2> QED BY <1>0, <1>2, <2>1, <2>2, <2>3 DEF TypeInv, TypeOK, Disconnect
<1>3. ASSUME Reconnect(c) PROVE TypeInv'
  <2>1. Relisten(c) \in Seq(Requests)
    <3>1. [type |-> "listen"] \in Requests BY DEF Requests
    <3> QED BY <3>1 DEF Relisten
  <2>2. Unanswered(c) \in Seq(Requests)
    BY <1>0, HeldAreOldest, RequestedWrites
  <2>3. Relisten(c) \o Unanswered(c) \in Seq(Requests)
    BY <2>1, <2>2, ConcatProperties
  <2>4. up' \in [Clients -> Seq(Requests)]
    BY <1>0, <1>3, <2>3 DEF TypeOK, Reconnect, Reconnected
  <2> QED BY <1>0, <1>3, <2>4 DEF TypeInv, TypeOK, Reconnect, Reconnected
<1>4. ASSUME Crash(c) PROVE TypeInv'
  <2>1. tuned' \in [Posts -> SUBSET Clients]
    BY <1>0, <1>4, TuneOutType DEF Crash
  <2>2. /\ up' \in [Clients -> Seq(Requests)] /\ down' \in [Clients -> Seq(Responses)]
        /\ repoQ' \in [Clients -> Seq(Blocks)] /\ mainQ' \in [Clients -> Seq(Callbacks)]
        /\ writes' \in [Clients -> Seq(LocalWrites)] /\ held' \in [Clients -> Seq(Acks)]
    BY <1>0, <1>4 DEF TypeOK, Crash
  <2>3. /\ listening' \in [Clients -> BOOLEAN] /\ connected' \in [Clients -> BOOLEAN]
        /\ complete' \in [Clients -> BOOLEAN]
        /\ phase' \in [Clients -> {"closed", "loading", "live", "failed"}]
        /\ regs' \in [Clients -> SUBSET Regs] /\ \A d \in Clients : IsFiniteSet(regs'[d])
    BY <1>0, <1>4, FS_EmptySet DEF TypeOK, Crash
  <2>4. cache' \in [Clients -> Boards] /\ rows' \in [Clients -> PostCounts]
    BY <1>0, <1>4, NothingIsABoard DEF TypeOK, Crash
  <2>5. crashes' \in 0 .. MaxCrashes
    BY <1>0, <1>4, BoundsAssumption DEF TypeOK, Crash
  <2> QED BY <1>0, <1>4, <2>1, <2>2, <2>3, <2>4, <2>5 DEF TypeInv, TypeOK, Crash
<1> QED BY <1>1, <1>2, <1>3, <1>4

-----------------------------------------------------------------------------
(* The inductive invariant *)

(* A client that is not connected has had its connection lost; so has, or  *)
(* had its listen taken back, one that is about to hear of it; a listen    *)
(* given up by a client with a view was followed by another one.           *)
Wire(c) ==
  /\ ~connected[c] =>
       up[c] = <<>> /\ down[c] = <<>> /\ ~listening[c] /\ drops > 0
  /\ HasType(down[c], "revocation") => drops > 0
  /\ regs[c] # {} => Followed(up[c], "unlisten", "listen")

(* A view that is not whole waits for a listen's answer. *)
Awaits(c) ==
  connected[c] /\ regs[c] # {} /\ ~complete[c] => ListenPending(up[c], down[c])

(* Once its listen has been served, and not been taken back or refused     *)
(* since, a view and what is on its way to it make the server's board.     *)
Synced(c) ==
  /\ regs[c] # {} /\ connected[c] /\ ~HasType(up[c], "listen")
  /\ ~HasType(down[c], "revocation") /\ Followed(down[c], "refusal", "snapshot")
  => /\ listening[c]
     /\ HasSnapshot(down[c]) \/ complete[c]
     /\ Delivered(down[c], cache[c]) = server

Tracked(c) ==
  IF connected[c]
  THEN Joins(writes[c], Answered(held[c]), Answered(down[c]), Requested(up[c]))
  ELSE IsPrefix(Answered(held[c]), writes[c])

HeldFor(c) ==
  held[c] # <<>> /\ connected[c] /\ (drops > 0 => regs[c] # {}) =>
    ListenPending(up[c], down[c])

Sound(c) == Wire(c) /\ Awaits(c) /\ Synced(c) /\ Tracked(c) /\ HeldFor(c)

SyncInv == TypeInv /\ \A c \in Clients : Sound(c)

(* Tracked, of all clients, is the property EveryWriteTracked. *)
LEMMA SoundTracked ==
  ASSUME \A c \in Clients : Sound(c)
  PROVE  EveryWriteTracked
BY DEF Sound, Tracked, Joins, EveryWriteTracked

(* ListenPending, in terms of the queues' types of messages. *)
LEMMA PendingDef ==
  ASSUME NEW u \in Seq(Requests), NEW d \in Seq(Responses)
  PROVE  ListenPending(u, d) <=>
           HasType(u, "listen") \/ HasType(d, "snapshot") \/ HasType(d, "refusal")
<1>1. DOMAIN u = 1 .. Len(u) /\ DOMAIN d = 1 .. Len(d) BY LenProperties
<1> QED BY <1>1 DEF ListenPending, HasType

(* Nothing of client d has changed but what its screen and the server do. *)
Calm(d) ==
  /\ server' = server /\ listening'[d] = listening[d] /\ connected'[d] = connected[d]
  /\ up'[d] = up[d] /\ down'[d] = down[d]
  /\ regs'[d] = {} <=> regs[d] = {}
  /\ complete'[d] = complete[d] /\ cache'[d] = cache[d]
  /\ writes'[d] = writes[d] /\ held'[d] = held[d]
  /\ drops \in Nat /\ drops' \in Nat /\ drops <= drops'

(* Such a client stays sound. *)
LEMMA SoundIfCalm ==
  ASSUME NEW d \in Clients, Sound(d), Calm(d)
  PROVE  Sound(d)'
<1>1. Wire(d)' BY DEF Sound, Calm, Wire
<1>2. Awaits(d)' BY DEF Sound, Calm, Awaits
<1>3. Synced(d)' BY DEF Sound, Calm, Synced
<1>4. Tracked(d)' BY DEF Sound, Calm, Tracked
<1>5. HeldFor(d)' BY DEF Sound, Calm, HeldFor
<1> QED BY <1>1, <1>2, <1>3, <1>4, <1>5 DEF Sound

(* The user and the app's callbacks change nothing of it, *)
LEMMA ScreensAreCalm ==
  ASSUME TypeOK, NEW c \in Clients, User(c) \/ MainThread(c) \/ UNCHANGED vars
  PROVE  \A d \in Clients : Calm(d)
<1>1. drops \in Nat BY BoundsAssumption DEF TypeOK
<1>2. UNCHANGED <<server, listening, connected, up, down, sdkVars, drops>>
  BY DEF User, OpenTimeline, Logout, CreatePost, RemovePost, MainThread,
         PostsRetrieved, RetrievalFailed, PostAdded, PostRemoved, FeedEvent,
         PostWritten, vars, sdkVars, historyVars, envVars
<1> QED BY <1>1, <1>2 DEF Calm, sdkVars

(* nor does another client or its connection, but for a write served. *)
LEMMA OthersAreCalm ==
  ASSUME TypeOK, NEW c \in Clients, NEW d \in Clients \ {c},
         \/ RepoBlock(c) \/ Receive(c) \/ ServeListen(c) \/ ServeUnlisten(c)
         \/ RevokeListen(c) \/ Disconnect(c) \/ Reconnect(c) \/ Crash(c)
  PROVE  Calm(d)
<1>1. drops \in Nat BY BoundsAssumption DEF TypeOK
<1> USE <1>1 DEF TypeOK, Calm, sdkVars, historyVars, envVars
<1>2. CASE RepoBlock(c)
  <2>1. CASE AddObserver(c) BY <2>1 DEF AddObserver, Send
  <2>2. CASE RemoveObserver(c) BY <2>2 DEF RemoveObserver, Send
  <2>3. CASE LocalWrite(c) BY <2>3 DEF LocalWrite, Send
  <2> QED BY <1>2, <2>1, <2>2, <2>3 DEF RepoBlock
<1>3. CASE Receive(c)
  <2>1. CASE ReceivePush(c) BY <2>1, SMTT(30) DEF ReceivePush
  <2>2. CASE ReceiveSnapshot(c) BY <2>2, SMTT(60) DEF ReceiveSnapshot
  <2>3. CASE ReceiveAck(c) BY <2>3, SMTT(30) DEF ReceiveAck
  <2>4. CASE ReceiveRefusal(c)
    <3>1. CASE ListenPending(up[c], Tail(down[c])) BY <2>4, <3>1, SMTT(30) DEF ReceiveRefusal
    <3>2. CASE ~ListenPending(up[c], Tail(down[c]))
      BY <2>4, <3>2 DEF ReceiveRefusal, CancelView
    <3> QED BY <3>1, <3>2
  <2>5. CASE ReceiveRevocation(c) BY <2>5 DEF ReceiveRevocation, CancelView
  <2> QED BY <1>3, <2>1, <2>2, <2>3, <2>4, <2>5 DEF Receive
<1>4. CASE ServeListen(c) \/ ServeUnlisten(c)
  <2>1. CASE ServeListen(c) BY <2>1 DEF ServeListen
  <2>2. CASE ServeUnlisten(c) BY <2>2 DEF ServeUnlisten
  <2> QED BY <1>4, <2>1, <2>2
<1>5. CASE RevokeListen(c) BY <1>5 DEF RevokeListen
<1>6. CASE Disconnect(c) BY <1>6 DEF Disconnect
<1>7. CASE Reconnect(c) BY <1>7 DEF Reconnect, Reconnected
<1>8. CASE Crash(c) BY <1>8 DEF Crash
<1> QED BY <1>2, <1>3, <1>4, <1>5, <1>6, <1>7, <1>8

(* A queue that grows by one request. *)
LEMMA Extended ==
  ASSUME NEW u \in Seq(Requests), NEW m \in Requests
  PROVE  /\ u \o <<m>> \in Seq(Requests)
         /\ \A t : HasType(u \o <<m>>, t) <=> HasType(u, t) \/ m.type = t
         /\ Requested(u \o <<m>>) = Requested(u) \o RequestOf(m)
         /\ m.type = "listen" => Followed(u \o <<m>>, "unlisten", "listen")
         /\ m.type # "unlisten" /\ Followed(u, "unlisten", "listen")
            => Followed(u \o <<m>>, "unlisten", "listen")
<1>1. <<m>> \in Seq(Requests) OBVIOUS
<1> DEFINE v == <<m>>
<1>2. \A t : HasType(v, t) <=> m.type = t BY HasInOne
<1>3. u \o v = Append(u, m) BY AppendIsConcat
<1> HIDE DEF v
<1>4. v \in Seq(Requests) BY <1>1 DEF v
<1>5. u \o v \in Seq(Requests) BY <1>4, ConcatProperties
<1>6. \A t : HasType(u \o v, t) <=> HasType(u, t) \/ m.type = t
  BY <1>2, <1>4, HasInConcat
<1>7. Requested(u \o v) = Requested(u) \o RequestOf(m)
  BY <1>3, RequestedAppend
<1>8. m.type = "listen" => Followed(u \o v, "unlisten", "listen")
  <2> SUFFICES ASSUME m.type = "listen" PROVE Followed(u \o v, "unlisten", "listen")
    OBVIOUS
  <2>1. ~HasType(v, "unlisten") /\ HasType(v, "listen") BY <1>2
  <2> QED BY <1>4, <2>1, FollowedConcat
<1>9. m.type # "unlisten" /\ Followed(u, "unlisten", "listen")
      => Followed(u \o v, "unlisten", "listen")
  <2> SUFFICES ASSUME m.type # "unlisten", Followed(u, "unlisten", "listen")
               PROVE  Followed(u \o v, "unlisten", "listen")
    OBVIOUS
  <2>1. ~HasType(v, "unlisten") BY <1>2
  <2> QED BY <1>4, <2>1, FollowedConcat
<1> QED BY <1>5, <1>6, <1>7, <1>8, <1>9 DEF v

(* The queues' types, at hand. *)
LEMMA QueueTypes ==
  ASSUME TypeOK, NEW c \in Clients
  PROVE  /\ up[c] \in Seq(Requests) /\ down[c] \in Seq(Responses)
         /\ repoQ[c] \in Seq(Blocks) /\ mainQ[c] \in Seq(Callbacks)
         /\ writes[c] \in Seq(LocalWrites) /\ held[c] \in Seq(Acks)
         /\ connected[c] \in BOOLEAN /\ listening[c] \in BOOLEAN
         /\ complete[c] \in BOOLEAN /\ cache[c] \in Boards /\ server \in Boards
         /\ drops \in Nat /\ crashes \in Nat
         /\ Answered(held[c]) \in Seq(LocalWrites)
         /\ Answered(down[c]) \in Seq(LocalWrites)
         /\ Requested(up[c]) \in Seq(LocalWrites)
<1>1. /\ up[c] \in Seq(Requests) /\ down[c] \in Seq(Responses) /\ held[c] \in Seq(Acks)
  BY DEF TypeOK
<1>2. /\ Answered(held[c]) \in Seq(LocalWrites)
      /\ Answered(down[c]) \in Seq(LocalWrites)
      /\ Requested(up[c]) \in Seq(LocalWrites)
  BY <1>1, AnsweredAcks, AnsweredType, RequestedType
<1> QED BY <1>1, <1>2, BoundsAssumption DEF TypeOK

(* A first registration sends a listen, and nothing is known before. *)
LEMMA AddObserverSound ==
  ASSUME TypeInv, NEW c \in Clients, Sound(c), AddObserver(c)
  PROVE  Sound(c)'
<1> DEFINE reg == Head(repoQ[c]).reg
           l == [type |-> "listen"]
<1>0. TypeOK BY DEF TypeInv
<1>1. /\ UNCHANGED <<server, listening, connected, down, complete, cache, writes, held, drops>>
      /\ regs'[c] = regs[c] \cup {reg}
      /\ Send(c, IF regs[c] = {} THEN <<l>> ELSE <<>>)
  BY <1>0 DEF AddObserver, TypeOK, envVars
<1>2. up[c] \in Seq(Requests) /\ drops \in Nat /\ l \in Requests /\ RequestOf(l) = <<>>
  BY <1>0, QueueTypes DEF Requests, RequestOf, WriteOps
<1>3. regs'[c] # {} BY <1>1
<1> HIDE DEF reg, l
<1>4. CASE regs[c] # {}
  <2>1. up' = [up EXCEPT ![c] = IF connected[c] THEN up[c] \o <<>> ELSE up[c]]
    BY <1>1, <1>4 DEF Send
  <2>2. up'[c] = up[c] BY <1>0, <1>2, <2>1, ConcatEmptySeq DEF TypeOK
  <2> QED BY <1>1, <1>2, <1>3, <1>4, <2>2, SoundIfCalm DEF Calm
<1>5. CASE regs[c] = {} /\ ~connected[c]
  <2>1. up'[c] = up[c] /\ up[c] = <<>>
    BY <1>0, <1>1, <1>5 DEF Send, TypeOK, Sound, Wire
  <2>2. Wire(c)' BY <1>1, <1>5, <2>1, HasInNone, FollowedIfNone DEF Sound, Wire
  <2>3. Awaits(c)' /\ Synced(c)' /\ HeldFor(c)'
    BY <1>1, <1>5 DEF Awaits, Synced, HeldFor
  <2>4. Tracked(c)' BY <1>1, <1>5 DEF Sound, Tracked
  <2> QED BY <2>2, <2>3, <2>4 DEF Sound
<1>6. CASE regs[c] = {} /\ connected[c]
  <2>1. up'[c] = up[c] \o <<l>> BY <1>0, <1>1, <1>6 DEF Send, TypeOK
  <2>2. /\ up[c] \o <<l>> \in Seq(Requests) /\ HasType(up[c] \o <<l>>, "listen")
        /\ Requested(up[c] \o <<l>>) = Requested(up[c]) \o <<>>
        /\ Followed(up[c] \o <<l>>, "unlisten", "listen")
    BY <1>2, Extended DEF l
  <2>3. Wire(c)' BY <1>1, <1>6, <2>1, <2>2 DEF Sound, Wire
  <2>4. ListenPending(up'[c], down'[c])
    BY <1>0, <1>1, <2>1, <2>2, PendingDef, QueueTypes
  <2>5. Awaits(c)' /\ Synced(c)' /\ HeldFor(c)'
    BY <2>1, <2>2, <2>4 DEF Awaits, Synced, HeldFor
  <2>6. Requested(up'[c]) = Requested(up[c])
    BY <1>0, <2>1, <2>2, ConcatEmptySeq, QueueTypes
  <2>7. Tracked(c)' BY <1>1, <1>6, <2>6 DEF Sound, Tracked
  <2> QED BY <2>3, <2>5, <2>7 DEF Sound
<1> QED BY <1>0, <1>4, <1>5, <1>6, QueueTypes

(* The last registration sends an unlisten; no view is left to be in step. *)
LEMMA RemoveObserverSound ==
  ASSUME TypeInv, NEW c \in Clients, Sound(c), RemoveObserver(c)
  PROVE  Sound(c)'
<1> DEFINE left == regs[c] \ {Head(repoQ[c]).reg}
           isLast == left = {} /\ regs[c] # {}
           u == [type |-> "unlisten"]
<1>0. TypeOK BY DEF TypeInv
<1>1. /\ UNCHANGED <<server, listening, connected, down, writes, held, drops>>
      /\ regs'[c] = left
      /\ complete'[c] = (complete[c] /\ ~isLast)
      /\ cache'[c] = (IF isLast THEN Nothing ELSE cache[c])
      /\ Send(c, IF isLast THEN <<u>> ELSE <<>>)
  BY <1>0 DEF RemoveObserver, TypeOK, envVars
<1>2. up[c] \in Seq(Requests) /\ drops \in Nat /\ u \in Requests /\ RequestOf(u) = <<>>
      /\ complete[c] \in BOOLEAN
  BY <1>0, QueueTypes DEF Requests, RequestOf, WriteOps
<1> HIDE DEF u
<1>3. CASE ~isLast
  <2>1. left = {} <=> regs[c] = {} BY <1>3
  <2>2. complete'[c] = complete[c] /\ cache'[c] = cache[c] /\ Send(c, <<>>)
    BY <1>1, <1>2, <1>3
  <2> HIDE DEF isLast, left
  <2>3. up' = [up EXCEPT ![c] = IF connected[c] THEN up[c] \o <<>> ELSE up[c]]
    BY <2>2 DEF Send
  <2>4. up'[c] = up[c] BY <1>0, <1>2, <2>3, ConcatEmptySeq DEF TypeOK
  <2> QED BY <1>1, <1>2, <2>1, <2>2, <2>4, SoundIfCalm DEF Calm
<1>4. CASE isLast
  <2>1. regs'[c] = {} /\ Send(c, <<u>>) BY <1>1, <1>4
  <2> HIDE DEF isLast, left
  <2>2. up'[c] = IF connected[c] THEN up[c] \o <<u>> ELSE up[c]
    BY <1>0, <2>1 DEF Send, TypeOK
  <2>3. /\ up[c] \o <<u>> \in Seq(Requests)
        /\ Requested(up[c] \o <<u>>) = Requested(up[c]) \o <<>>
        /\ HasType(up[c], "listen") => HasType(up[c] \o <<u>>, "listen")
    BY <1>2, Extended, ZenonT(60)
  <2>4. Wire(c)' BY <1>1, <2>1, <2>2, SMTT(30) DEF Sound, Wire
  <2>5. Awaits(c)' /\ Synced(c)' BY <2>1 DEF Awaits, Synced
  <2>6. HeldFor(c)'
    <3> SUFFICES ASSUME held[c] # <<>>, connected[c], ~(drops > 0)
                 PROVE  ListenPending(up'[c], down[c])
      BY <1>1, <2>1 DEF HeldFor
    <3>1. ListenPending(up[c], down[c]) BY DEF Sound, HeldFor
    <3>2. up'[c] = up[c] \o <<u>> BY <2>2
    <3> QED BY <1>0, <2>3, <3>1, <3>2, PendingDef, QueueTypes
  <2>7. Requested(up'[c]) = Requested(up[c])
    BY <1>0, <2>2, <2>3, ConcatEmptySeq, QueueTypes
  <2>8. Tracked(c)' BY <1>1, <2>7 DEF Sound, Tracked
  <2> QED BY <2>4, <2>5, <2>6, <2>8 DEF Sound
<1> QED BY <1>3, <1>4

(* A local write is tracked at the end, as the newest request. *)
LEMMA LocalWriteSound ==
  ASSUME TypeInv, NEW c \in Clients, Sound(c), LocalWrite(c)
  PROVE  Sound(c)'
<1> DEFINE w == Head(repoQ[c])
<1>0. TypeOK BY DEF TypeInv
<1>1. /\ UNCHANGED <<server, listening, connected, down, regs, complete, cache, held, drops>>
      /\ writes'[c] = Append(writes[c], w)
      /\ up'[c] = IF connected[c] THEN up[c] \o <<w>> ELSE up[c]
  BY <1>0 DEF LocalWrite, TypeOK, envVars, Send
<1>2. w \in LocalWrites
  <2>1. w \in Blocks /\ w.type \in WriteOps
    BY <1>0, HeadsOfQueues DEF LocalWrite, Block
  <2> QED BY <2>1 DEF Blocks, WriteOps
<1>3. /\ up[c] \in Seq(Requests) /\ down[c] \in Seq(Responses)
      /\ writes[c] \in Seq(LocalWrites)
  BY <1>0, QueueTypes
<1>a. PICK A \in Seq(LocalWrites) : A = Answered(held[c]) BY <1>0, QueueTypes
<1>d. PICK D \in Seq(LocalWrites) : D = Answered(down[c]) BY <1>0, QueueTypes
<1>r. PICK R \in Seq(LocalWrites) : R = Requested(up[c]) BY <1>0, QueueTypes
<1>4. w \in Requests /\ RequestOf(w) = <<w>> /\ w.type \notin {"listen", "unlisten"}
      /\ <<w>> \in Seq(LocalWrites)
  BY <1>2 DEF Requests, RequestOf, LocalWrites, WriteOps
<1>v. PICK v \in Seq(LocalWrites) : v = <<w>> BY <1>4
<1> HIDE DEF w
<1>5. /\ up[c] \o <<w>> \in Seq(Requests)
      /\ \A t : HasType(up[c] \o <<w>>, t) <=> HasType(up[c], t) \/ w.type = t
      /\ Requested(up[c] \o <<w>>) = R \o <<w>>
      /\ Followed(up[c], "unlisten", "listen") => Followed(up[c] \o <<w>>, "unlisten", "listen")
  BY <1>3, <1>4, <1>r, Extended
<1>6. /\ up'[c] \in Seq(Requests)
      /\ HasType(up'[c], "listen") <=> HasType(up[c], "listen")
  BY <1>1, <1>3, <1>4, <1>5
<1>7. ListenPending(up'[c], down[c]) <=> ListenPending(up[c], down[c])
  BY <1>3, <1>6, PendingDef
<1>8. Wire(c)' BY <1>1, <1>5 DEF Sound, Wire
<1>9. Awaits(c)' /\ HeldFor(c)' BY <1>1, <1>7 DEF Sound, Awaits, HeldFor
<1>10. Synced(c)' BY <1>1, <1>6 DEF Sound, Synced
<1>11. Tracked(c)'
  <2>1. writes'[c] = writes[c] \o v BY <1>1, <1>2, <1>3, <1>v, AppendIsConcat
  <2>2. CASE connected[c]
    <3>1. Joins(writes[c], A, D, R) BY <2>2, <1>a, <1>d, <1>r DEF Sound, Tracked
    <3>2. Joins(writes[c] \o v, A, D, R \o v) BY <3>1, JoinsConcat
    <3>3. Requested(up'[c]) = R \o v BY <1>1, <1>5, <1>v, <2>2
    <3> QED BY <1>1, <1>a, <1>d, <2>1, <2>2, <3>2, <3>3 DEF Tracked
  <2>3. CASE ~connected[c]
    <3>1. IsPrefix(A, writes[c]) BY <2>3, <1>a DEF Sound, Tracked
    <3>2. IsPrefix(A, writes[c] \o v) BY <1>3, <3>1, PrefixConcat
    <3> QED BY <1>1, <1>a, <2>1, <2>3, <3>2 DEF Tracked
  <2> QED BY <2>2, <2>3
<1> QED BY <1>8, <1>9, <1>10, <1>11 DEF Sound

-----------------------------------------------------------------------------
(* Messages from the socket keep the invariant *)

(* Nothing, nothing and nothing. *)
LEMMA JoinsNone ==
  ASSUME NEW T, NEW D \in Seq(T), NEW R \in Seq(T)
  PROVE  Joins(D \o R, <<>>, D, R)
BY ConcatEmptySeq DEF Joins

(* What client c is about to hear, and what comes after it. *)
LEMMA Popped ==
  ASSUME TypeOK, NEW c \in Clients, down[c] # <<>>
  PROVE  LET m == Head(down[c])
             d == Tail(down[c])
         IN  /\ m \in Responses /\ d \in Seq(Responses)
             /\ AnswerOf(m) \in Seq(LocalWrites) /\ Answered(d) \in Seq(LocalWrites)
             /\ \A t : HasType(down[c], t) <=> m.type = t \/ HasType(d, t)
             /\ Followed(down[c], "refusal", "snapshot") <=>
                  /\ Followed(d, "refusal", "snapshot")
                  /\ m.type = "refusal" => HasType(d, "snapshot")
             /\ Answered(down[c]) = AnswerOf(m) \o Answered(d)
             /\ After(m, cache[c]) \in Boards
             /\ Delivered(down[c], cache[c]) = Delivered(d, After(m, cache[c]))
<1> DEFINE m == Head(down[c])
           d == Tail(down[c])
<1>1. down[c] \in Seq(Responses) /\ cache[c] \in Boards BY QueueTypes
<1>2. m \in Responses /\ d \in Seq(Responses) BY HeadsOfQueues
<1>3. \A t : HasType(down[c], t) <=> m.type = t \/ HasType(d, t) BY <1>1, HasInHead
<1>4. Followed(down[c], "refusal", "snapshot") <=>
        /\ Followed(d, "refusal", "snapshot")
        /\ m.type = "refusal" => HasType(d, "snapshot")
  BY <1>1, FollowedHead
<1>5. Answered(down[c]) = AnswerOf(m) \o Answered(d) BY <1>1, AnsweredHead
<1>6. Delivered(down[c], cache[c]) = Delivered(d, After(m, cache[c]))
  BY <1>1, DeliveredHead
<1>7. AnswerOf(m) \in Seq(LocalWrites) /\ Answered(d) \in Seq(LocalWrites)
  BY <1>2, AnswerOfType, AnsweredType
<1>8. After(m, cache[c]) \in Boards BY <1>1, <1>2, AfterType
<1> QED BY <1>2, <1>3, <1>4, <1>5, <1>6, <1>7, <1>8

(* One message is heard, and the server and the connection stay. *)
Heard(c, m, d) ==
  /\ down[c] # <<>> /\ m = Head(down[c]) /\ d = Tail(down[c]) /\ down'[c] = d
  /\ server' = server /\ listening'[c] = listening[c] /\ connected'[c] = connected[c]
  /\ up'[c] = up[c] /\ drops' = drops

(* Only a client that is connected hears anything. *)
LEMMA HeardConnected ==
  ASSUME NEW c \in Clients, NEW m, NEW d, Sound(c), Heard(c, m, d)
  PROVE  connected[c]
BY DEF Sound, Wire, Heard

(* Another listen is awaited still, if one comes after the message. *)
LEMMA HeardPending ==
  ASSUME TypeOK, NEW c \in Clients, NEW m, NEW d, Heard(c, m, d)
  PROVE  /\ ListenPending(up[c], down[c]) <=>
              m.type \in {"snapshot", "refusal"} \/ ListenPending(up[c], d)
         /\ ListenPending(up[c], d) <=>
              HasType(up[c], "listen") \/ HasType(d, "snapshot") \/ HasType(d, "refusal")
<1>1. up[c] \in Seq(Requests) /\ down[c] \in Seq(Responses) BY QueueTypes
<1>2. /\ d \in Seq(Responses)
      /\ \A t : HasType(down[c], t) <=> m.type = t \/ HasType(d, t)
  BY Popped DEF Heard
<1>3. /\ ListenPending(up[c], down[c]) <=>
           \/ HasType(up[c], "listen")
           \/ HasType(down[c], "snapshot") \/ HasType(down[c], "refusal")
      /\ ListenPending(up[c], d) <=>
           HasType(up[c], "listen") \/ HasType(d, "snapshot") \/ HasType(d, "refusal")
  BY <1>1, <1>2, PendingDef
<1> QED BY <1>2, <1>3

(* What is heard leaves the wire as it was, *)
LEMMA HeardWire ==
  ASSUME TypeOK, NEW c \in Clients, NEW m, NEW d, Sound(c), Heard(c, m, d),
         regs'[c] # {} => regs[c] # {}
  PROVE  Wire(c)'
<1>1. \A t : HasType(down[c], t) <=> m.type = t \/ HasType(d, t)
  BY Popped DEF Heard
<1>2. connected[c] BY HeardConnected
<1> QED BY <1>1, <1>2 DEF Sound, Wire, Heard

(* and the writes, unless it is a response. *)
LEMMA HeardTracked ==
  ASSUME TypeOK, NEW c \in Clients, NEW m, NEW d, Sound(c), Heard(c, m, d),
         m.type # "ack", writes'[c] = writes[c], held'[c] = held[c]
  PROVE  Tracked(c)'
<1>1. connected[c] BY HeardConnected
<1>2. Answered(down[c]) = AnswerOf(m) \o Answered(d) /\ Answered(d) \in Seq(LocalWrites)
  BY Popped DEF Heard
<1>3. AnswerOf(m) = <<>> BY DEF AnswerOf
<1>4. Answered(down[c]) = Answered(d) BY <1>2, <1>3, ConcatEmptySeq
<1> QED BY <1>1, <1>4 DEF Sound, Tracked, Heard

(* All responses held back are acted on, on hearing something else. *)
LEMMA HeardReleased ==
  ASSUME TypeOK, EveryWriteTracked, NEW c \in Clients, NEW m, NEW d, Sound(c),
         Heard(c, m, d), m.type # "ack",
         writes'[c] = AckPuts(c, Len(held[c])), held'[c] = <<>>
  PROVE  Tracked(c)'
<1>1. connected[c] BY HeardConnected
<1>2. Answered(down[c]) = AnswerOf(m) \o Answered(d) /\ Answered(d) \in Seq(LocalWrites)
  BY Popped DEF Heard
<1>3. AnswerOf(m) = <<>> BY DEF AnswerOf
<1>4. Answered(down[c]) = Answered(d) BY <1>2, <1>3, ConcatEmptySeq
<1>5. writes'[c] = Answered(d) \o Requested(up[c])
  BY <1>1, <1>4, AckPutsRest, HeldAreOldest
<1>6. Joins(writes'[c], <<>>, Answered(d), Requested(up[c]))
  BY <1>2, <1>5, JoinsNone, QueueTypes
<1>7. Answered(held'[c]) = <<>> BY AnsweredEmpty
<1> QED BY <1>1, <1>6, <1>7 DEF Tracked, Heard

(* A push is applied to the cache: it was the next of what is delivered. *)
LEMMA ReceivePushSound ==
  ASSUME TypeInv, NEW c \in Clients, Sound(c), ReceivePush(c)
  PROVE  Sound(c)'
<1> DEFINE m == Head(down[c])
           d == Tail(down[c])
<1>0. TypeOK BY DEF TypeInv
<1>1. /\ Heard(c, m, d) /\ m.type = "push"
      /\ UNCHANGED <<regs, complete, writes, held>>
      /\ cache'[c] = Patch(c, m.write)
  BY <1>0 DEF ReceivePush, Message, Heard, TypeOK, envVars
<1>2. /\ m \in Responses /\ d \in Seq(Responses)
      /\ \A t : HasType(down[c], t) <=> m.type = t \/ HasType(d, t)
      /\ Followed(down[c], "refusal", "snapshot") <=>
           /\ Followed(d, "refusal", "snapshot")
           /\ m.type = "refusal" => HasType(d, "snapshot")
      /\ After(m, cache[c]) \in Boards
      /\ Delivered(down[c], cache[c]) = Delivered(d, After(m, cache[c]))
  BY <1>0, <1>1, Popped DEF Heard
<1>3. m.write \in LocalWrites BY <1>1, <1>2 DEF Responses, Acks
<1>4. cache[c] \in Boards /\ complete[c] \in BOOLEAN /\ Patch(c, m.write) \in Boards
  BY <1>0, <1>3, QueueTypes, PatchType
<1>5. regs[c] # {} /\ complete[c] => Patch(c, m.write) = After(m, cache[c])
  BY <1>1, <1>3, <1>4 DEF Patch, After, Brought, Boards, LocalWrites
<1>6. ListenPending(up[c], d) <=> ListenPending(up[c], down[c])
  BY <1>0, <1>1, HeardPending
<1> HIDE DEF m, d
<1>7. Wire(c)' BY <1>0, <1>1, HeardWire
<1>8. Awaits(c)' /\ HeldFor(c)'
  BY <1>1, <1>6 DEF Heard, Sound, Awaits, HeldFor
<1>9. Synced(c)'
  <2> SUFFICES ASSUME regs[c] # {}, connected[c], ~HasType(up[c], "listen"),
                      ~HasType(d, "revocation"), Followed(d, "refusal", "snapshot")
               PROVE  /\ listening[c] /\ (HasSnapshot(d) \/ complete[c])
                      /\ Delivered(d, cache'[c]) = server
    BY <1>1 DEF Heard, Synced
  <2>1. /\ listening[c] /\ (HasSnapshot(down[c]) \/ complete[c])
        /\ Delivered(down[c], cache[c]) = server
    BY <1>1, <1>2 DEF Sound, Synced
  <2>2. HasSnapshot(d) \/ complete[c] BY <1>1, <1>2, <2>1 DEF HasSnapshot
  <2>3. Delivered(d, cache'[c]) = Delivered(d, After(m, cache[c]))
    BY <1>1, <1>2, <1>4, <1>5, <2>2, DeliveredSnapshot
  <2> QED BY <1>2, <2>1, <2>2, <2>3
<1>10. Tracked(c)' BY <1>0, <1>1, HeardTracked
<1> QED BY <1>7, <1>8, <1>9, <1>10 DEF Sound

(* A snapshot replaces the cache, whatever it was. *)
LEMMA ReceiveSnapshotSound ==
  ASSUME TypeInv, EveryWriteTracked, NEW c \in Clients, Sound(c), ReceiveSnapshot(c)
  PROVE  Sound(c)'
<1> DEFINE m == Head(down[c])
           d == Tail(down[c])
           wait == ListenPending(up[c], d)
<1>0. TypeOK BY DEF TypeInv
<1>1. /\ Heard(c, m, d) /\ m.type = "snapshot"
      /\ regs' = regs
      /\ cache'[c] = (IF regs[c] # {} THEN m.board ELSE cache[c])
      /\ complete'[c] = (regs[c] # {} \/ complete[c])
      /\ writes'[c] = (IF wait THEN writes[c] ELSE AckPuts(c, Len(held[c])))
      /\ held'[c] = (IF wait THEN held[c] ELSE <<>>)
  BY <1>0 DEF ReceiveSnapshot, Message, Heard, TypeOK, envVars
<1>2. /\ m \in Responses /\ d \in Seq(Responses)
      /\ \A t : HasType(down[c], t) <=> m.type = t \/ HasType(d, t)
      /\ Followed(down[c], "refusal", "snapshot") <=>
           /\ Followed(d, "refusal", "snapshot")
           /\ m.type = "refusal" => HasType(d, "snapshot")
      /\ Delivered(down[c], cache[c]) = Delivered(d, After(m, cache[c]))
  BY <1>0, <1>1, Popped DEF Heard
<1>3. m.board \in Boards BY <1>1, <1>2 DEF Responses, Acks
<1>4. After(m, cache[c]) = m.board BY <1>1, <1>3 DEF After, Brought, Boards
<1> HIDE DEF m, d, wait
<1>5. Wire(c)' BY <1>0, <1>1, HeardWire
<1>6. Awaits(c)' BY <1>1 DEF Awaits
<1>7. Synced(c)'
  <2> SUFFICES ASSUME regs[c] # {}, connected[c], ~HasType(up[c], "listen"),
                      ~HasType(d, "revocation"), Followed(d, "refusal", "snapshot")
               PROVE  listening[c] /\ complete'[c] /\ Delivered(d, m.board) = server
    BY <1>1 DEF Heard, Synced
  <2>1. listening[c] /\ Delivered(down[c], cache[c]) = server
    BY <1>1, <1>2 DEF Sound, Synced
  <2> QED BY <1>1, <1>2, <1>4, <2>1
<1>8. Tracked(c)'
  <2>1. CASE wait BY <1>0, <1>1, <2>1, HeardTracked
  <2>2. CASE ~wait BY <1>0, <1>1, <2>2, HeardReleased
  <2> QED BY <2>1, <2>2
<1>9. HeldFor(c)' BY <1>1 DEF HeldFor, Heard, wait
<1> QED BY <1>5, <1>6, <1>7, <1>8, <1>9 DEF Sound

(* A response settles the oldest write without one, or is held back. *)
LEMMA ReceiveAckSound ==
  ASSUME TypeInv, EveryWriteTracked, NEW c \in Clients, Sound(c), ReceiveAck(c)
  PROVE  Sound(c)'
<1> DEFINE m == Head(down[c])
           d == Tail(down[c])
           wait == ListenPending(up[c], down[c])
<1>0. TypeOK BY DEF TypeInv
<1>1. /\ Heard(c, m, d) /\ m.type = "ack"
      /\ UNCHANGED <<regs, complete, cache>>
      /\ writes'[c] = (IF wait THEN writes[c] ELSE Left(c, m))
      /\ held'[c] = (IF wait THEN Append(held[c], m) ELSE held[c])
  BY <1>0 DEF ReceiveAck, Message, Heard, TypeOK, envVars
<1>2. /\ m \in Responses /\ d \in Seq(Responses)
      /\ AnswerOf(m) \in Seq(LocalWrites) /\ Answered(d) \in Seq(LocalWrites)
      /\ \A t : HasType(down[c], t) <=> m.type = t \/ HasType(d, t)
      /\ Followed(down[c], "refusal", "snapshot") <=>
           /\ Followed(d, "refusal", "snapshot")
           /\ m.type = "refusal" => HasType(d, "snapshot")
      /\ Answered(down[c]) = AnswerOf(m) \o Answered(d)
      /\ Delivered(down[c], cache[c]) = Delivered(d, After(m, cache[c]))
  BY <1>0, <1>1, Popped DEF Heard
<1>3. After(m, cache[c]) = cache[c]
  BY <1>0, <1>1, QueueTypes DEF After, Brought, Boards
<1>4. connected[c] BY <1>1, HeardConnected
<1>5. wait <=> ListenPending(up[c], d)
  BY <1>0, <1>1, HeardPending
<1>6. /\ Answered(held[c]) \in Seq(LocalWrites) /\ Requested(up[c]) \in Seq(LocalWrites)
      /\ held[c] \in Seq(Responses)
  BY <1>0, QueueTypes, AnsweredAcks
<1>7. ~wait => Left(c, m) = Answered(held[c]) \o Answered(d) \o Requested(up[c])
  BY <1>0, <1>1, <1>4, LeftRest DEF Message, Heard
<1> HIDE DEF m, d, wait
<1>8. Wire(c)' BY <1>0, <1>1, HeardWire
<1>9. Awaits(c)' /\ HeldFor(c)'
  BY <1>1, <1>5 DEF Heard, Sound, Awaits, HeldFor, wait
<1>10. Synced(c)' BY <1>1, <1>2, <1>3 DEF Heard, Sound, Synced, HasSnapshot
<1>11. Tracked(c)'
  <2>1. CASE wait
    <3>1. Joins(writes[c], Answered(held[c]), AnswerOf(m) \o Answered(d), Requested(up[c]))
      BY <1>2, <1>4 DEF Sound, Tracked
    <3>2. Joins(writes[c], Answered(held[c]) \o AnswerOf(m), Answered(d), Requested(up[c]))
      BY <1>2, <1>6, <3>1, JoinsMove
    <3>3. Answered(held'[c]) = Answered(held[c]) \o AnswerOf(m)
      BY <1>1, <1>2, <1>6, <2>1, AnsweredAppend
    <3> QED BY <1>1, <1>4, <2>1, <3>2, <3>3 DEF Tracked, Heard
  <2>2. CASE ~wait
    <3>1. Joins(writes'[c], Answered(held[c]), Answered(d), Requested(up[c]))
      BY <1>1, <1>7, <2>2 DEF Joins
    <3> QED BY <1>1, <1>4, <2>2, <3>1 DEF Tracked, Heard
  <2> QED BY <2>1, <2>2
<1> QED BY <1>8, <1>9, <1>10, <1>11 DEF Sound

(* A refusal cancels the view, unless another listen is awaited. *)
LEMMA ReceiveRefusalSound ==
  ASSUME TypeInv, EveryWriteTracked, NEW c \in Clients, Sound(c), ReceiveRefusal(c)
  PROVE  Sound(c)'
<1> DEFINE m == Head(down[c])
           d == Tail(down[c])
           wait == ListenPending(up[c], d)
<1>0. TypeOK BY DEF TypeInv
<1>1. Heard(c, m, d) /\ m.type = "refusal"
  BY <1>0 DEF ReceiveRefusal, Message, Heard, TypeOK, envVars
<1>2. /\ m \in Responses /\ d \in Seq(Responses)
      /\ \A t : HasType(down[c], t) <=> m.type = t \/ HasType(d, t)
      /\ Followed(down[c], "refusal", "snapshot") <=>
           /\ Followed(d, "refusal", "snapshot")
           /\ m.type = "refusal" => HasType(d, "snapshot")
      /\ Delivered(down[c], cache[c]) = Delivered(d, After(m, cache[c]))
  BY <1>0, <1>1, Popped DEF Heard
<1>3. CASE wait
  <2>1. UNCHANGED sdkVars BY <1>3 DEF ReceiveRefusal
  <2>2. wait <=> HasType(up[c], "listen") \/ HasType(d, "snapshot") \/ HasType(d, "refusal")
    BY <1>0, <1>1, HeardPending
  <2>3. After(m, cache[c]) = cache[c]
    BY <1>0, <1>1, QueueTypes DEF After, Brought, Boards
  <2> HIDE DEF m, d
  <2>4. Wire(c)' BY <1>0, <1>1, <2>1, HeardWire DEF sdkVars
  <2>5. Awaits(c)' /\ HeldFor(c)'
    BY <1>1, <1>3, <2>1 DEF Heard, Awaits, HeldFor, sdkVars
  <2>6. Tracked(c)' BY <1>0, <1>1, <2>1, HeardTracked DEF sdkVars
  <2>7. Synced(c)'
    <3> SUFFICES ASSUME regs[c] # {}, connected[c], ~HasType(up[c], "listen"),
                        ~HasType(d, "revocation"), Followed(d, "refusal", "snapshot")
                 PROVE  /\ listening[c] /\ (HasSnapshot(d) \/ complete[c])
                        /\ Delivered(d, cache[c]) = server
      BY <1>1, <2>1 DEF Heard, Synced, sdkVars
    <3>1. HasType(d, "snapshot")
      <4>1. HasType(d, "refusal") => HasType(d, "snapshot")
        BY DEF Followed, HasType
      <4> QED BY <1>3, <2>2, <4>1
    <3>2. listening[c] /\ Delivered(down[c], cache[c]) = server
      BY <1>1, <1>2, <3>1 DEF Sound, Synced
    <3> QED BY <1>2, <2>3, <3>1, <3>2 DEF HasSnapshot
  <2> QED BY <2>4, <2>5, <2>6, <2>7 DEF Sound
<1>4. CASE ~wait
  <2>1. /\ regs'[c] = {} /\ held'[c] = <<>>
        /\ writes'[c] = AckPuts(c, Len(held[c]))
    BY <1>0, <1>4 DEF ReceiveRefusal, CancelView, TypeOK
  <2> HIDE DEF m, d, wait
  <2>2. Wire(c)' BY <1>0, <1>1, <2>1, HeardWire
  <2>3. Awaits(c)' /\ Synced(c)' /\ HeldFor(c)' BY <2>1 DEF Awaits, Synced, HeldFor
  <2>4. Tracked(c)' BY <1>0, <1>1, <2>1, HeardReleased
  <2> QED BY <2>2, <2>3, <2>4 DEF Sound
<1> QED BY <1>3, <1>4

(* A revocation cancels it in any case. *)
LEMMA ReceiveRevocationSound ==
  ASSUME TypeInv, NEW c \in Clients, Sound(c), ReceiveRevocation(c)
  PROVE  Sound(c)'
<1> DEFINE m == Head(down[c])
           d == Tail(down[c])
<1>0. TypeOK BY DEF TypeInv
<1>1. /\ Heard(c, m, d) /\ m.type = "revocation" /\ regs'[c] = {}
      /\ UNCHANGED <<writes, held>>
  BY <1>0 DEF ReceiveRevocation, CancelView, Message, Heard, TypeOK, envVars
<1>2. drops > 0
  <2>1. HasType(down[c], "revocation") BY <1>0, <1>1, Popped DEF Heard
  <2> QED BY <2>1 DEF Sound, Wire
<1> HIDE DEF m, d
<1>3. Wire(c)' BY <1>0, <1>1, HeardWire
<1>4. Awaits(c)' /\ Synced(c)' BY <1>1 DEF Awaits, Synced
<1>5. HeldFor(c)' BY <1>1, <1>2 DEF HeldFor, Heard
<1>6. Tracked(c)' BY <1>0, <1>1, HeardTracked
<1> QED BY <1>3, <1>4, <1>5, <1>6 DEF Sound

-----------------------------------------------------------------------------
(* The server and the connection keep the invariant *)

(* What the server is about to serve, and what comes after it. *)
LEMMA Asked ==
  ASSUME TypeOK, NEW c \in Clients, up[c] # <<>>
  PROVE  LET r == Head(up[c])
             u == Tail(up[c])
         IN  /\ r \in Requests /\ u \in Seq(Requests)
             /\ RequestOf(r) \in Seq(LocalWrites) /\ Requested(u) \in Seq(LocalWrites)
             /\ \A t : HasType(up[c], t) <=> r.type = t \/ HasType(u, t)
             /\ Followed(up[c], "unlisten", "listen") <=>
                  /\ Followed(u, "unlisten", "listen")
                  /\ r.type = "unlisten" => HasType(u, "listen")
             /\ Requested(up[c]) = RequestOf(r) \o Requested(u)
             /\ r.type \notin WriteOps => Requested(up[c]) = Requested(u)
<1> DEFINE r == Head(up[c])
           u == Tail(up[c])
<1>1. up[c] \in Seq(Requests) BY QueueTypes
<1>2. r \in Requests /\ u \in Seq(Requests) BY HeadsOfQueues
<1>3. \A t : HasType(up[c], t) <=> r.type = t \/ HasType(u, t) BY <1>1, HasInHead
<1>4. Followed(up[c], "unlisten", "listen") <=>
        /\ Followed(u, "unlisten", "listen")
        /\ r.type = "unlisten" => HasType(u, "listen")
  BY <1>1, FollowedHead
<1>5. Requested(up[c]) = RequestOf(r) \o Requested(u) BY <1>1, RequestedHead
<1>6. RequestOf(r) \in Seq(LocalWrites) /\ Requested(u) \in Seq(LocalWrites)
  BY <1>2, RequestOfType, RequestedType
<1> HIDE DEF r, u
<1>7. r.type \notin WriteOps => Requested(up[c]) = Requested(u)
  BY <1>5, <1>6, ConcatEmptySeq DEF RequestOf
<1> QED BY <1>2, <1>3, <1>4, <1>5, <1>6, <1>7 DEF r, u

(* From its answer on a listen brings the server's board. *)
LEMMA ServeListenSound ==
  ASSUME TypeInv, NEW c \in Clients, Sound(c), ServeListen(c)
  PROVE  Sound(c)'
<1> DEFINE u == Tail(up[c])
<1>0. TypeOK BY DEF TypeInv
<1>1. PICK ok \in BOOLEAN :
        /\ listening'[c] = ok
        /\ down'[c] = Append(down[c], IF ok THEN [type |-> "snapshot", board |-> server]
                                            ELSE [type |-> "refusal"])
  BY <1>0 DEF ServeListen, TypeOK
<1> DEFINE m == IF ok THEN [type |-> "snapshot", board |-> server] ELSE [type |-> "refusal"]
<1>2. /\ up[c] # <<>> /\ Head(up[c]).type = "listen" /\ up'[c] = u
      /\ down'[c] = Append(down[c], m)
      /\ UNCHANGED <<server, connected, regs, complete, cache, writes, held, drops>>
  BY <1>0, <1>1 DEF ServeListen, Request, TypeOK, sdkVars, envVars
<1>3. /\ m \in Responses /\ m.type = (IF ok THEN "snapshot" ELSE "refusal")
      /\ AnswerOf(m) = <<>>
      /\ ok => m.type = "snapshot" /\ m.board = server
  BY <1>0 DEF Responses, TypeOK, AnswerOf
<1> HIDE DEF m
<1>4. /\ down[c] \in Seq(Responses) /\ cache[c] \in Boards /\ server \in Boards
      /\ Delivered(down[c], cache[c]) \in Boards
  BY <1>0, QueueTypes, DeliveredType
<1>5. /\ down'[c] \in Seq(Responses)
      /\ \A t : HasType(down'[c], t) <=> HasType(down[c], t) \/ m.type = t
  <2>1. PICK v \in Seq(Responses) : v = <<m>> BY <1>3, <<m>> \in Seq(Responses)
  <2>2. \A t : HasType(v, t) <=> m.type = t BY <2>1, HasInOne
  <2>3. down'[c] = down[c] \o v BY <1>2, <1>3, <1>4, <2>1, AppendIsConcat
  <2>4. \A t : HasType(down[c] \o v, t) <=> HasType(down[c], t) \/ HasType(v, t)
    BY <1>4, HasInConcat
  <2> QED BY <1>4, <2>2, <2>3, <2>4, ConcatProperties
<1>6. Answered(down'[c]) = Answered(down[c])
  <2>1. Answered(down'[c]) = Answered(down[c]) \o <<>>
    BY <1>2, <1>3, <1>4, AnsweredAppend
  <2> QED BY <1>4, <2>1, AnsweredType, ConcatEmptySeq
<1>7. connected[c] BY <1>2 DEF Sound, Wire
<1>8. /\ u \in Seq(Requests) /\ Requested(up[c]) = Requested(u)
      /\ Followed(up[c], "unlisten", "listen") => Followed(u, "unlisten", "listen")
  BY <1>0, <1>2, Asked DEF WriteOps
<1> HIDE DEF u
<1>9. ListenPending(up'[c], down'[c]) BY <1>2, <1>3, <1>5, <1>8, PendingDef
<1>10. Wire(c)' BY <1>2, <1>3, <1>5, <1>7, <1>8 DEF Sound, Wire
<1>11. Awaits(c)' /\ HeldFor(c)' BY <1>9 DEF Awaits, HeldFor
<1>12. Tracked(c)' BY <1>2, <1>6, <1>7, <1>8 DEF Sound, Tracked
<1>13. Synced(c)'
  <2> SUFFICES ASSUME Followed(down'[c], "refusal", "snapshot")
               PROVE  /\ listening'[c] /\ HasSnapshot(down'[c])
                      /\ Delivered(down'[c], cache[c]) = server
    BY <1>2 DEF Synced
  <2>1. ok
    <3> SUFFICES ASSUME ~ok PROVE FALSE OBVIOUS
    <3>1. m.type = "refusal" BY <1>3
    <3>2. ~Followed(Append(down[c], m), m.type, "snapshot")
      BY <1>3, <1>4, FollowedLast
    <3> QED BY <1>2, <3>1, <3>2
  <2>2. Delivered(down'[c], cache[c]) = After(m, Delivered(down[c], cache[c]))
    BY <1>2, <1>3, <1>4, DeliveredAppend
  <2>3. After(m, Delivered(down[c], cache[c])) = server
    BY <1>3, <1>4, <2>1 DEF After, Brought, Boards
  <2> QED BY <1>1, <1>3, <1>5, <2>1, <2>2, <2>3 DEF HasSnapshot
<1> QED BY <1>10, <1>11, <1>12, <1>13 DEF Sound

(* A listen given up: the view is gone or waits for another listen. *)
LEMMA ServeUnlistenSound ==
  ASSUME TypeInv, NEW c \in Clients, Sound(c), ServeUnlisten(c)
  PROVE  Sound(c)'
<1> DEFINE u == Tail(up[c])
<1>0. TypeOK BY DEF TypeInv
<1>1. /\ up[c] # <<>> /\ Head(up[c]).type = "unlisten" /\ up'[c] = u
      /\ UNCHANGED <<server, connected, down, regs, complete, cache, writes, held, drops>>
  BY <1>0 DEF ServeUnlisten, Request, TypeOK, sdkVars, envVars
<1>2. connected[c] BY <1>1 DEF Sound, Wire
<1>3. /\ u \in Seq(Requests) /\ Requested(up[c]) = Requested(u)
      /\ HasType(up[c], "listen") <=> HasType(u, "listen")
      /\ Followed(up[c], "unlisten", "listen") =>
           Followed(u, "unlisten", "listen") /\ HasType(u, "listen")
  BY <1>0, <1>1, Asked DEF WriteOps
<1> HIDE DEF u
<1>4. ListenPending(up'[c], down[c]) <=> ListenPending(up[c], down[c])
  BY <1>0, <1>1, <1>3, PendingDef, QueueTypes
<1>5. Wire(c)' BY <1>1, <1>2, <1>3 DEF Sound, Wire
<1>6. Awaits(c)' /\ HeldFor(c)' BY <1>1, <1>4 DEF Sound, Awaits, HeldFor
<1>7. Tracked(c)' BY <1>1, <1>2, <1>3 DEF Sound, Tracked
<1>8. Synced(c)' BY <1>1, <1>3 DEF Sound, Wire, Synced
<1> QED BY <1>5, <1>6, <1>7, <1>8 DEF Sound

(* A push or a response to a write, behind what is on its way down. *)
LEMMA Told ==
  ASSUME NEW q \in Seq(Responses), NEW m \in Responses, m.type \in {"push", "ack"}
  PROVE  LET r == Append(q, m)
         IN  /\ r \in Seq(Responses)
             /\ \A t \in {"snapshot", "refusal", "revocation"} :
                  HasType(r, t) <=> HasType(q, t)
             /\ Followed(r, "refusal", "snapshot") => Followed(q, "refusal", "snapshot")
<1>1. PICK v \in Seq(Responses) : v = <<m>> BY <<m>> \in Seq(Responses)
<1>2. \A t : HasType(v, t) <=> m.type = t BY <1>1, HasInOne
<1>3. Append(q, m) = q \o v BY <1>1, AppendIsConcat
<1>4. \A t : HasType(q \o v, t) <=> HasType(q, t) \/ HasType(v, t) BY HasInConcat
<1>5. Followed(q \o v, "refusal", "snapshot") => Followed(q, "refusal", "snapshot")
  BY <1>2, FollowedPrefix
<1>6. q \o v \in Seq(Responses) BY ConcatProperties
<1> QED BY <1>2, <1>3, <1>4, <1>5, <1>6

(* All who listen get the push with the change: their boards stay          *)
(* delivered.                                                              *)
LEMMA ServeWriteSound ==
  ASSUME TypeInv, NEW c \in Clients, \A d \in Clients : Sound(d), ServeWrite(c),
         NEW d \in Clients
  PROVE  Sound(d)'
<1>0. TypeOK BY DEF TypeInv
<1>1. PICK w \in LocalWrites, ok \in BOOLEAN :
        /\ w = Head(up[c]) /\ up[c] # <<>>
        /\ server' = IF ok THEN [server EXCEPT ![w.post] = Apply(w.type, server[w.post])]
                     ELSE server
        /\ down'[d] = down[d] \o Pushed(d, w, ok) \o AckedTo(d, c, w, ok)
        /\ up' = [up EXCEPT ![c] = Tail(@)]
  BY <1>0, ServeWriteDef
<1>2. UNCHANGED <<listening, connected, regs, complete, cache, writes, held, drops>>
  BY DEF ServeWrite, sdkVars, envVars
<1> DEFINE pu == [type |-> "push", write |-> w]
           ac == [type |-> "ack", write |-> w, ok |-> ok]
           told == ok /\ listening[d]
           q == down[d]
           r == IF told THEN Append(q, pu) ELSE q
           s == IF d = c THEN Append(r, ac) ELSE r
<1>3. /\ pu \in Responses /\ pu.type = "push" /\ pu.write = w /\ AnswerOf(pu) = <<>>
      /\ ac \in Responses /\ ac.type = "ack" /\ ac.write = w /\ AnswerOf(ac) = <<w>>
  BY DEF Responses, Acks, AnswerOf
<1>4. /\ q \in Seq(Responses) /\ cache[d] \in Boards /\ server \in Boards
      /\ up[c] \in Seq(Requests) /\ up[d] \in Seq(Requests)
      /\ Delivered(q, cache[d]) \in Boards /\ Answered(q) \in Seq(LocalWrites)
  BY <1>0, QueueTypes, DeliveredType
<1> HIDE DEF pu, ac
<1>5. /\ r \in Seq(Responses)
      /\ \A t \in {"snapshot", "refusal", "revocation"} : HasType(r, t) <=> HasType(q, t)
      /\ Followed(r, "refusal", "snapshot") => Followed(q, "refusal", "snapshot")
      /\ Answered(r) = Answered(q)
      /\ Delivered(r, cache[d]) =
           IF told THEN After(pu, Delivered(q, cache[d])) ELSE Delivered(q, cache[d])
  <2>1. CASE ~told BY <1>4, <2>1
  <2>2. CASE told
    <3>1. Answered(Append(q, pu)) = Answered(q) \o <<>> BY <1>3, <1>4, AnsweredAppend
    <3>2. Answered(Append(q, pu)) = Answered(q) BY <1>4, <3>1, ConcatEmptySeq
    <3>3. Delivered(Append(q, pu), cache[d]) = After(pu, Delivered(q, cache[d]))
      BY <1>3, <1>4, DeliveredAppend
    <3> HIDE DEF q, told
    <3> QED BY <1>3, <1>4, <2>2, <3>2, <3>3, Told
  <2> QED BY <2>1, <2>2
<1> HIDE DEF r, told
<1>6. Delivered(r, cache[d]) \in Boards /\ Answered(r) \in Seq(LocalWrites)
  BY <1>4, <1>5, DeliveredType
<1>7. /\ s \in Seq(Responses)
      /\ \A t \in {"snapshot", "refusal", "revocation"} : HasType(s, t) <=> HasType(q, t)
      /\ Followed(s, "refusal", "snapshot") => Followed(q, "refusal", "snapshot")
      /\ Answered(s) = IF d = c THEN Answered(q) \o <<w>> ELSE Answered(q)
      /\ Delivered(s, cache[d]) = Delivered(r, cache[d])
  <2>1. CASE d # c BY <1>5, <2>1
  <2>2. CASE d = c
    <3>1. Answered(Append(r, ac)) = Answered(q) \o <<w>> BY <1>3, <1>5, AnsweredAppend
    <3>2. Delivered(Append(r, ac), cache[d]) = After(ac, Delivered(r, cache[d]))
      BY <1>3, <1>4, <1>5, DeliveredAppend
    <3>3. After(ac, Delivered(r, cache[d])) = Delivered(r, cache[d])
      BY <1>3, <1>6 DEF After, Brought, Boards
    <3> HIDE DEF q
    <3> QED BY <1>3, <1>5, <2>2, <3>1, <3>2, <3>3, Told
  <2> QED BY <2>1, <2>2
<1>8. down'[d] = s
  <2>1. q \o Pushed(d, w, ok) = r
    <3>1. Pushed(d, w, ok) = IF told THEN <<pu>> ELSE <<>> BY DEF Pushed, told, pu
    <3>2. r = IF told THEN Append(q, pu) ELSE q BY DEF r
    <3> HIDE DEF q
    <3>3. q \o <<>> = q BY <1>4, ConcatEmptySeq
    <3>4. Append(q, pu) = q \o <<pu>> BY <1>3, <1>4, AppendIsConcat
    <3> QED BY <3>1, <3>2, <3>3, <3>4
  <2>2. r \o AckedTo(d, c, w, ok) = s
    BY <1>3, <1>5, AppendIsConcat, ConcatEmptySeq DEF AckedTo, ac
  <2> QED BY <1>1, <2>1, <2>2
<1>9. Delivered(q, cache[d]) = server /\ listening[d] => Delivered(s, cache[d]) = server'
  <2> SUFFICES ASSUME Delivered(q, cache[d]) = server, listening[d]
               PROVE  Delivered(s, cache[d]) = server'
    OBVIOUS
  <2>1. w.post \in Posts BY DEF LocalWrites
  <2>2. After(pu, server) = [server EXCEPT ![w.post] = Apply(w.type, server[w.post])]
    BY <1>3, <1>4, <2>1 DEF After, Brought, Boards
  <2> HIDE DEF q, s
  <2> QED BY <1>1, <1>5, <1>7, <2>2 DEF told
<1> HIDE DEF s
<1>10. /\ up'[d] \in Seq(Requests)
       /\ HasType(up'[d], "listen") <=> HasType(up[d], "listen")
       /\ Followed(up[d], "unlisten", "listen") => Followed(up'[d], "unlisten", "listen")
       /\ up[d] = <<>> => up'[d] = <<>>
  <2>1. CASE d = c
    <3>1. w.type \notin {"listen", "unlisten"} BY DEF LocalWrites, WriteOps
    <3>2. up'[c] = Tail(up[c]) BY <1>0, <1>1 DEF TypeOK
    <3> QED BY <1>0, <1>1, <2>1, <3>1, <3>2, Asked
  <2>2. CASE d # c
    <3>1. up'[d] = up[d] BY <1>0, <1>1, <2>2 DEF TypeOK
    <3> QED BY <1>4, <3>1
  <2> QED BY <2>1, <2>2
<1>11. ListenPending(up'[d], s) <=> ListenPending(up[d], down[d])
  BY <1>4, <1>7, <1>10, PendingDef
<1>12. connected[c] BY <1>1 DEF Sound, Wire
<1>13. Wire(d)'
  <2>1. ~connected[d] => s = <<>>
    <3> SUFFICES ASSUME ~connected[d] PROVE s = <<>> OBVIOUS
    <3>1. d # c /\ ~listening[d] /\ q = <<>> BY <1>12 DEF Sound, Wire
    <3> HIDE DEF q
    <3> QED BY <3>1 DEF s, r, told
  <2> QED BY <1>2, <1>7, <1>8, <1>10, <2>1 DEF Sound, Wire
<1>14. Awaits(d)' /\ HeldFor(d)'
  BY <1>2, <1>8, <1>11 DEF Sound, Awaits, HeldFor
<1>15. Synced(d)'
  BY <1>2, <1>7, <1>8, <1>9, <1>10 DEF Sound, Synced, HasSnapshot
<1>16. Tracked(d)'
  <2>1. CASE d # c
    <3>1. up'[d] = up[d] BY <1>0, <1>1, <2>1 DEF TypeOK
    <3>2. Answered(down'[d]) = Answered(down[d]) BY <1>7, <1>8, <2>1
    <3> QED BY <1>2, <3>1, <3>2 DEF Sound, Tracked
  <2>2. CASE d = c
    <3> DEFINE u == Tail(up[c])
    <3>1. /\ u \in Seq(Requests) /\ Requested(u) \in Seq(LocalWrites)
          /\ Requested(up[c]) = RequestOf(w) \o Requested(u)
          /\ RequestOf(w) \in Seq(LocalWrites)
      BY <1>0, <1>1, Asked
    <3>2. up'[c] = u BY <1>0, <1>1 DEF TypeOK
    <3> HIDE DEF u
    <3>3. RequestOf(w) = <<w>> BY DEF RequestOf, LocalWrites
    <3>4. Joins(writes[c], Answered(held[c]), Answered(down[c]), RequestOf(w) \o Requested(u))
      BY <1>12, <3>1 DEF Sound, Tracked
    <3>5. Answered(held[c]) \in Seq(LocalWrites) /\ Answered(down[c]) \in Seq(LocalWrites)
      BY <1>0, QueueTypes
    <3>6. Joins(writes[c], Answered(held[c]), Answered(down[c]) \o RequestOf(w), Requested(u))
      BY <3>1, <3>4, <3>5, JoinsServed
    <3>7. Answered(down'[c]) = Answered(down[c]) \o RequestOf(w)
      BY <1>7, <1>8, <2>2, <3>3
    <3> QED BY <1>2, <1>12, <2>2, <3>2, <3>6, <3>7 DEF Tracked
  <2> QED BY <2>1, <2>2
<1> QED BY <1>13, <1>14, <1>15, <1>16 DEF Sound

(* A revocation is on its way: no view counts on the listen any more. *)
LEMMA RevokeListenSound ==
  ASSUME TypeInv, NEW c \in Clients, Sound(c), RevokeListen(c)
  PROVE  Sound(c)'
<1> DEFINE m == [type |-> "revocation"]
<1>0. TypeOK BY DEF TypeInv
<1>1. /\ listening[c] /\ drops' = drops + 1 /\ down'[c] = Append(down[c], m)
      /\ UNCHANGED <<server, connected, up, regs, complete, cache, writes, held>>
  BY <1>0 DEF RevokeListen, TypeOK, sdkVars
<1>2. m \in Responses /\ m.type = "revocation" /\ AnswerOf(m) = <<>>
  BY DEF Responses, AnswerOf
<1> HIDE DEF m
<1>3. connected[c] BY <1>1 DEF Sound, Wire
<1>4. down[c] \in Seq(Responses) /\ up[c] \in Seq(Requests) /\ drops \in Nat
      /\ Answered(down[c]) \in Seq(LocalWrites)
  BY <1>0, QueueTypes
<1>5. /\ down'[c] \in Seq(Responses)
      /\ \A t : HasType(down'[c], t) <=> HasType(down[c], t) \/ m.type = t
  <2>1. PICK v \in Seq(Responses) : v = <<m>> BY <1>2, <<m>> \in Seq(Responses)
  <2>2. \A t : HasType(v, t) <=> m.type = t BY <2>1, HasInOne
  <2>3. down'[c] = down[c] \o v BY <1>1, <1>2, <1>4, <2>1, AppendIsConcat
  <2>4. \A t : HasType(down[c] \o v, t) <=> HasType(down[c], t) \/ HasType(v, t)
    BY <1>4, HasInConcat
  <2> QED BY <1>4, <2>2, <2>3, <2>4, ConcatProperties
<1>6. Answered(down'[c]) = Answered(down[c])
  <2>1. Answered(down'[c]) = Answered(down[c]) \o <<>>
    BY <1>1, <1>2, <1>4, AnsweredAppend
  <2> QED BY <1>4, <2>1, ConcatEmptySeq
<1>7. ListenPending(up[c], down'[c]) <=> ListenPending(up[c], down[c])
  BY <1>2, <1>4, <1>5, PendingDef
<1>8. drops' > 0 BY <1>1, <1>4
<1>9. Wire(c)' BY <1>1, <1>3, <1>8 DEF Sound, Wire
<1>10. Awaits(c)' BY <1>1, <1>7 DEF Sound, Awaits
<1>11. HeldFor(c)' BY <1>1, <1>7, <1>8 DEF Sound, HeldFor
<1>12. Synced(c)' BY <1>2, <1>5 DEF Synced
<1>13. Tracked(c)' BY <1>1, <1>3, <1>6 DEF Sound, Tracked
<1> QED BY <1>9, <1>10, <1>11, <1>12, <1>13 DEF Sound

(* A lost connection takes both queues along; the prefix held back stays. *)
LEMMA DisconnectSound ==
  ASSUME TypeInv, NEW c \in Clients, Sound(c), Disconnect(c)
  PROVE  Sound(c)'
<1>0. TypeOK BY DEF TypeInv
<1>1. /\ connected[c] /\ ~connected'[c] /\ ~listening'[c] /\ drops' = drops + 1
      /\ up'[c] = <<>> /\ down'[c] = <<>>
      /\ UNCHANGED <<server, regs, complete, cache, writes, held>>
  BY <1>0 DEF Disconnect, TypeOK, sdkVars
<1>2. drops \in Nat BY <1>0, QueueTypes
<1>3. Wire(c)'
  BY <1>1, <1>2, HasInNone, FollowedIfNone DEF Wire
<1>4. Awaits(c)' /\ HeldFor(c)' /\ Synced(c)' BY <1>1 DEF Awaits, HeldFor, Synced
<1>5. Tracked(c)'
  <2>1. IsPrefix(Answered(held[c]), writes[c])
    BY <1>0, <1>1, JoinsPrefix, QueueTypes DEF Sound, Tracked
  <2> QED BY <1>1, <2>1 DEF Tracked
<1> QED BY <1>3, <1>4, <1>5 DEF Sound

(* The listen restored, and the writes without a response sent again. *)
LEMMA ReconnectSound ==
  ASSUME TypeInv, EveryWriteTracked, NEW c \in Clients, Sound(c), Reconnect(c)
  PROVE  Sound(c)'
<1> DEFINE U == Unanswered(c)
           L == Relisten(c)
           l == [type |-> "listen"]
<1>0. TypeOK BY DEF TypeInv
<1>1. /\ ~connected[c] /\ connected'[c] /\ up'[c] = L \o U
      /\ UNCHANGED <<server, listening, down, regs, complete, cache, writes, held, drops>>
  BY <1>0 DEF Reconnect, Reconnected, TypeOK, sdkVars, envVars
<1>2. /\ U \in Seq(LocalWrites) /\ writes[c] = Answered(held[c]) \o U
      /\ Answered(held[c]) \in Seq(LocalWrites)
  BY <1>0, HeldAreOldest
<1>3. U \in Seq(Requests) /\ Requested(U) = U BY <1>2, RequestedWrites
<1>4. /\ L \in Seq(Requests) /\ Requested(L) = <<>>
      /\ \A t : HasType(L, t) <=> regs[c] # {} /\ t = "listen"
  <2>1. CASE regs[c] = {}
    <3>1. L = <<>> BY <2>1 DEF Relisten
    <3> QED BY <2>1, <3>1, RequestedEmpty, HasInNone, <<>> \in Seq(Requests)
  <2>2. CASE regs[c] # {}
    <3>1. L = <<l>> BY <2>2 DEF Relisten
    <3>2. l \in Requests /\ l.type = "listen" /\ RequestOf(l) = <<>>
      BY DEF Requests, RequestOf, WriteOps
    <3> HIDE DEF l, L
    <3>3. <<l>> \in Seq(Requests) /\ Requested(<<l>>) = <<>>
      BY <3>2, RequestedOne
    <3> QED BY <2>2, <3>1, <3>2, <3>3, HasInOne
  <2> QED BY <2>1, <2>2
<1> HIDE DEF L, U
<1>5. ~HasType(U, "unlisten")
  <2>1. \A i \in 1 .. Len(U) : U[i] \in LocalWrites BY <1>2
  <2>2. \A w \in LocalWrites : w.type # "unlisten" BY DEF LocalWrites, WriteOps
  <2> QED BY <2>1, <2>2 DEF HasType
<1>6. /\ up'[c] \in Seq(Requests)
      /\ HasType(up'[c], "unlisten") <=> FALSE
      /\ regs[c] # {} => HasType(up'[c], "listen")
  <2>1. \A t : HasType(L \o U, t) <=> HasType(L, t) \/ HasType(U, t)
    BY <1>3, <1>4, HasInConcat
  <2>2. L \o U \in Seq(Requests) BY <1>3, <1>4, ConcatProperties
  <2> QED BY <1>1, <1>4, <1>5, <2>1, <2>2
<1>7. Requested(up'[c]) = U
  <2>1. Requested(L \o U) = Requested(L) \o Requested(U)
    BY <1>3, <1>4, RequestedConcat
  <2> QED BY <1>1, <1>2, <1>3, <1>4, <2>1, ConcatEmptySeq
<1>8. down[c] = <<>> /\ drops > 0 BY <1>1 DEF Sound, Wire
<1>9. regs[c] # {} => ListenPending(up'[c], down[c])
  BY <1>0, <1>6, PendingDef, QueueTypes
<1>10. Wire(c)'
  BY <1>1, <1>6, <1>8, HasInNone, FollowedIfNone DEF Wire
<1>11. Awaits(c)' BY <1>1, <1>9 DEF Awaits
<1>12. HeldFor(c)' BY <1>1, <1>8, <1>9 DEF HeldFor
<1>13. Synced(c)' BY <1>1, <1>6 DEF Synced
<1>14. Tracked(c)'
  <2>1. Answered(down[c]) = <<>> BY <1>8, AnsweredEmpty
  <2>2. Joins(writes[c], Answered(held[c]), <<>>, U)
    BY <1>2, ConcatEmptySeq DEF Joins
  <2> QED BY <1>1, <1>7, <2>1, <2>2 DEF Tracked
<1> QED BY <1>10, <1>11, <1>12, <1>13, <1>14 DEF Sound

(* A crash leaves nothing to be sound of. *)
LEMMA CrashSound ==
  ASSUME TypeInv, NEW c \in Clients, Crash(c)
  PROVE  Sound(c)'
<1>0. TypeOK BY DEF TypeInv
<1>1. /\ connected'[c] /\ up'[c] = <<>> /\ down'[c] = <<>> /\ regs'[c] = {}
      /\ writes'[c] = <<>> /\ held'[c] = <<>>
  BY <1>0 DEF Crash, TypeOK
<1>2. Wire(c)' BY <1>1, HasInNone DEF Wire
<1>3. Awaits(c)' /\ HeldFor(c)' /\ Synced(c)' BY <1>1 DEF Awaits, HeldFor, Synced
<1>4. Tracked(c)'
  <2>1. <<>> \in Seq(LocalWrites) OBVIOUS
  <2>2. Joins(<<>>, <<>>, <<>>, <<>>) BY <2>1, ConcatEmptySeq DEF Joins
  <2>3. Answered(held'[c]) = <<>> /\ Answered(down'[c]) = <<>> /\ Requested(up'[c]) = <<>>
    BY <1>1, AnsweredEmpty, RequestedEmpty
  <2> QED BY <1>1, <2>2, <2>3 DEF Tracked
<1> QED BY <1>2, <1>3, <1>4 DEF Sound

-----------------------------------------------------------------------------
(* The invariant holds, and what follows from it *)

(* The invariant holds at first. *)
LEMMA SyncInit == Init => SyncInv
<1> SUFFICES ASSUME Init PROVE SyncInv OBVIOUS
<1>1. TypeInv BY TypeInit
<1>2. ASSUME NEW c \in Clients PROVE Sound(c)
  <2>1. /\ connected[c] /\ up[c] = <<>> /\ down[c] = <<>> /\ regs[c] = {}
        /\ writes[c] = <<>> /\ held[c] = <<>>
    BY <1>2 DEF Init
  <2>2. Wire(c) BY <2>1, HasInNone DEF Wire
  <2>3. Awaits(c) /\ HeldFor(c) /\ Synced(c) BY <2>1 DEF Awaits, HeldFor, Synced
  <2>4. Tracked(c)
    <3>1. <<>> \in Seq(LocalWrites) OBVIOUS
    <3>2. Joins(<<>>, <<>>, <<>>, <<>>) BY <3>1, ConcatEmptySeq DEF Joins
    <3>3. Answered(held[c]) = <<>> /\ Answered(down[c]) = <<>> /\ Requested(up[c]) = <<>>
      BY <2>1, AnsweredEmpty, RequestedEmpty
    <3> QED BY <2>1, <3>2, <3>3 DEF Tracked
  <2> QED BY <2>2, <2>3, <2>4 DEF Sound
<1> QED BY <1>1, <1>2 DEF SyncInv

(* A step keeps the types, *)
LEMMA SyncTypes ==
  ASSUME SyncInv, [Next]_vars
  PROVE  TypeInv'
<1>0. TypeInv /\ EveryWriteTracked BY SoundTracked DEF SyncInv
<1>1. CASE UNCHANGED vars
  BY <1>0, <1>1 DEF TypeInv, TypeOK, vars, sdkVars, appVars, historyVars, envVars
<1>2. ASSUME NEW c \in Clients, User(c) PROVE TypeInv'
  BY <1>0, <1>2, UserTypes DEF User
<1>3. ASSUME NEW c \in Clients, Receive(c) PROVE TypeInv'
  <2>1. down[c] # <<>>
    BY <1>3 DEF Receive, ReceivePush, ReceiveSnapshot, ReceiveAck, ReceiveRefusal,
                ReceiveRevocation, Message
  <2>2. connected[c] BY <1>3, <2>1 DEF SyncInv, Sound, Wire
  <2> QED BY <1>0, <1>3, <2>2, ReceiveTypes
<1>4. ASSUME NEW c \in Clients,
             \/ MainThread(c) \/ RepoBlock(c) \/ Serve(c)
             \/ RevokeListen(c) \/ Disconnect(c) \/ Reconnect(c) \/ Crash(c)
      PROVE  TypeInv'
  BY <1>0, <1>4, MainThreadTypes, RepoBlockTypes, ServeTypes, ConnectionTypes
<1> QED BY <1>1, <1>2, <1>3, <1>4 DEF Next

(* and every client sound. *)
LEMMA SyncSound ==
  ASSUME SyncInv, [Next]_vars
  PROVE  \A d \in Clients : Sound(d)'
<1>0. TypeInv /\ TypeOK /\ EveryWriteTracked /\ \A c \in Clients : Sound(c)
  BY SoundTracked DEF SyncInv, TypeInv
<1>1. CASE UNCHANGED vars
  <2> SUFFICES ASSUME NEW d \in Clients PROVE Sound(d)' OBVIOUS
  <2>1. Calm(d) BY <1>0, <1>1, ScreensAreCalm
  <2> QED BY <1>0, <2>1, SoundIfCalm
<1>2. ASSUME NEW c \in Clients, User(c) \/ MainThread(c)
      PROVE  \A d \in Clients : Sound(d)'
  <2> SUFFICES ASSUME NEW d \in Clients PROVE Sound(d)' OBVIOUS
  <2>1. Calm(d) BY <1>0, <1>2, ScreensAreCalm
  <2> QED BY <1>0, <2>1, SoundIfCalm
<1>3. ASSUME NEW c \in Clients, ServeWrite(c) PROVE \A d \in Clients : Sound(d)'
  BY <1>0, <1>3, ServeWriteSound
<1>4. ASSUME NEW c \in Clients,
             \/ RepoBlock(c) \/ Receive(c) \/ ServeListen(c) \/ ServeUnlisten(c)
             \/ RevokeListen(c) \/ Disconnect(c) \/ Reconnect(c) \/ Crash(c)
      PROVE  \A d \in Clients : Sound(d)'
  <2>1. Sound(c)'
    <3>1. CASE RepoBlock(c)
      BY <1>0, <3>1, AddObserverSound, RemoveObserverSound, LocalWriteSound DEF RepoBlock
    <3>2. CASE Receive(c)
      BY <1>0, <3>2, ReceivePushSound, ReceiveSnapshotSound, ReceiveAckSound,
         ReceiveRefusalSound, ReceiveRevocationSound DEF Receive
    <3>3. CASE \/ ServeListen(c) \/ ServeUnlisten(c) \/ RevokeListen(c)
               \/ Disconnect(c) \/ Reconnect(c) \/ Crash(c)
      BY <1>0, <3>3, ServeListenSound, ServeUnlistenSound, RevokeListenSound,
         DisconnectSound, ReconnectSound, CrashSound
    <3> QED BY <1>4, <3>1, <3>2, <3>3
  <2>2. ASSUME NEW d \in Clients \ {c} PROVE Sound(d)'
    <3>1. Calm(d) BY <1>0, <1>4, OthersAreCalm
    <3> QED BY <1>0, <3>1, SoundIfCalm
  <2> QED BY <2>1, <2>2
<1> QED BY <1>1, <1>2, <1>3, <1>4 DEF Next, Serve

(* The invariant is inductive. *)
LEMMA SyncStep == SyncInv /\ [Next]_vars => SyncInv'
<1> SUFFICES ASSUME SyncInv, [Next]_vars PROVE SyncInv' OBVIOUS
<1>1. TypeInv' BY SyncTypes
<1>2. \A d \in Clients : Sound(d)' BY SyncSound
<1> QED BY <1>1, <1>2 DEF SyncInv

(* At every step of every run each client is sound: its connection, its    *)
(* listen, its cache, its tree of writes and the responses held back agree *)
(* with the queues and the server (FPersistentConnection.m:336-396,        *)
(* 666-707, 810-815, 988-1018; FSyncTree.m:509-692).                       *)
THEOREM SyncAlways == Spec => []SyncInv
<1>1. SyncInv /\ [Next]_vars => SyncInv' BY SyncStep
<1> QED BY SyncInit, <1>1, PTL DEF Spec

(* Every queue holds messages of the kinds its reader knows, for any       *)
(* number of clients, posts, screens, lost connections and crashes         *)
(* (FPersistentConnection.m:336-362,                                       *)
(* FirebaseTimelineService.swift:18-119).                                  *)
THEOREM TypeCorrect == Spec => []TypeOK
<1>1. SyncInv => TypeOK BY DEF SyncInv, TypeInv
<1> QED BY <1>1, SyncAlways, PTL

(* No local write is lost, reordered or sent twice on one connection,      *)
(* whatever is refused, held back or cut off: a response always meets its  *)
(* own write at the head (FPersistentConnection.m:364-396, 666-707,        *)
(* 988-1018).                                                              *)
THEOREM WritesAlwaysTracked == Spec => []EveryWriteTracked
<1>1. SyncInv => EveryWriteTracked BY SoundTracked DEF SyncInv
<1> QED BY <1>1, SyncAlways, PTL

(* A write's answer is held back only while a listen's answer is awaited   *)
(* (FPersistentConnection.m:689-697, 810-815, 1074-1080).                  *)
THEOREM HeldOnlyForAListen == Spec => []HeldForAListen
<1>1. SyncInv => HeldForAListen BY DEF SyncInv, Sound, HeldFor, HeldForAListen
<1> QED BY <1>1, SyncAlways, PTL

(* A client that follows is in step. *)
LEMMA FollowedCache == SyncInv => CacheFollowsServer
<1> SUFFICES ASSUME SyncInv, NEW c \in Clients, Following(c)
             PROVE  complete[c] /\ server = Delivered(down[c], cache[c])
  BY DEF CacheFollowsServer
<1>1. up[c] \in Seq(Requests) /\ down[c] \in Seq(Responses)
  BY QueueTypes DEF SyncInv, TypeInv
<1>2. DOMAIN down[c] = 1 .. Len(down[c]) BY <1>1, LenProperties
<1>3. ~HasType(down[c], "revocation") BY <1>2 DEF Following, HasType
<1>4. ~HasType(up[c], "listen") /\ ~HasType(down[c], "refusal")
  BY <1>1, PendingDef DEF Following
<1>5. Followed(down[c], "refusal", "snapshot") BY <1>4, FollowedIfNone
<1>6. complete[c] BY DEF Following, SyncInv, Sound, Awaits
<1>7. Delivered(down[c], cache[c]) = server
  BY <1>3, <1>4, <1>5 DEF Following, SyncInv, Sound, Synced
<1> QED BY <1>6, <1>7

(* Once its listen is answered, a client's cache and the pushes on their   *)
(* way are never behind or ahead of the server, across relistens, refusals *)
(* and reconnections (FSyncTree.m:509-692, FViewProcessor.m:377-452).      *)
THEOREM CacheAlwaysFollows == Spec => []CacheFollowsServer
BY FollowedCache, SyncAlways, PTL

(* A tree that shrinks under a view does so under a whole one: a response  *)
(* is acted on when no listen is awaited.                                  *)
LEMMA UncoveredWhole ==
  ASSUME SyncInv, [Next]_vars
  PROVE  \A c \in Clients :
           Len(writes'[c]) < Len(writes[c]) /\ regs'[c] # {} => complete'[c]
<1> DEFINE Whole(d) == Len(writes'[d]) < Len(writes[d]) /\ regs'[d] # {} => complete'[d]
<1>0. TypeOK /\ EveryWriteTracked /\ \A c \in Clients : Len(writes[c]) \in Nat
  BY SoundTracked DEF SyncInv, TypeInv, TypeOK
<1>1. ASSUME NEW d \in Clients, writes'[d] = writes[d] PROVE Whole(d)
  BY <1>0, <1>1
<1>2. ASSUME NEW d \in Clients, Calm(d) PROVE Whole(d) BY <1>1, <1>2 DEF Calm
<1>3. CASE UNCHANGED vars BY <1>0, <1>2, <1>3, ScreensAreCalm
<1>4. ASSUME NEW c \in Clients, User(c) \/ MainThread(c)
      PROVE  \A d \in Clients : Whole(d)
  BY <1>0, <1>2, <1>4, ScreensAreCalm
<1>5. ASSUME NEW c \in Clients, ServeWrite(c) PROVE \A d \in Clients : Whole(d)
  BY <1>1, <1>5 DEF ServeWrite, sdkVars
<1>6. ASSUME NEW c \in Clients,
             \/ RepoBlock(c) \/ Receive(c) \/ ServeListen(c) \/ ServeUnlisten(c)
             \/ RevokeListen(c) \/ Disconnect(c) \/ Reconnect(c) \/ Crash(c)
      PROVE  \A d \in Clients : Whole(d)
  <2>1. Whole(c)
    <3>1. CASE AddObserver(c) \/ RemoveObserver(c)
      BY <1>1, <3>1 DEF AddObserver, RemoveObserver
    <3>2. CASE LocalWrite(c)
      <4>1. writes'[c] = Append(writes[c], Head(repoQ[c])) /\ writes[c] \in Seq(LocalWrites)
            /\ Head(repoQ[c]) \in LocalWrites
        BY <1>0, <3>2, HeadsOfQueues DEF LocalWrite, Block, Blocks, WriteOps, TypeOK
      <4>2. Len(writes'[c]) = Len(writes[c]) + 1 BY <4>1, AppendProperties
      <4> QED BY <1>0, <4>2
    <3>3. CASE ReceivePush(c) \/ ReceiveRevocation(c)
      BY <1>1, <3>3 DEF ReceivePush, ReceiveRevocation
    <3>4. CASE ReceiveSnapshot(c)
      BY <1>0, <3>4 DEF ReceiveSnapshot, TypeOK
    <3>5. CASE ReceiveRefusal(c)
      <4>1. CASE ListenPending(up[c], Tail(down[c]))
        BY <1>1, <3>5, <4>1 DEF ReceiveRefusal, sdkVars
      <4>2. CASE ~ListenPending(up[c], Tail(down[c]))
        BY <1>0, <3>5, <4>2 DEF ReceiveRefusal, CancelView, TypeOK
      <4> QED BY <4>1, <4>2
    <3>6. CASE ReceiveAck(c)
      <4>1. CASE ListenPending(up[c], down[c]) BY <1>1, <3>6, <4>1 DEF ReceiveAck
      <4>2. CASE ~ListenPending(up[c], down[c])
        <5>1. down[c] # <<>> BY <3>6 DEF ReceiveAck, Message
        <5>2. regs[c] # {} => complete[c]
          BY <4>2, <5>1 DEF SyncInv, Sound, Wire, Awaits
        <5> QED BY <3>6, <5>2 DEF ReceiveAck
      <4> QED BY <4>1, <4>2
    <3>7. CASE ServeListen(c) \/ ServeUnlisten(c)
      BY <1>1, <3>7 DEF ServeListen, ServeUnlisten, sdkVars
    <3>8. CASE RevokeListen(c) \/ Disconnect(c) \/ Reconnect(c)
      BY <1>1, <3>8 DEF RevokeListen, Disconnect, Reconnect, Reconnected, sdkVars
    <3>9. CASE Crash(c) BY <1>0, <3>9 DEF Crash, TypeOK
    <3> QED BY <1>6, <3>1, <3>2, <3>3, <3>4, <3>5, <3>6, <3>7, <3>8, <3>9
            DEF RepoBlock, Receive
  <2>2. ASSUME NEW d \in Clients \ {c} PROVE Whole(d)
    BY <1>0, <1>2, <1>6, OthersAreCalm
  <2> QED BY <2>1, <2>2
<1> QED BY <1>3, <1>4, <1>5, <1>6 DEF Next, Serve

(* A write is never uncovered over a cache that has not been filled        *)
(* (FPersistentConnection.m:689-698).                                      *)
THEOREM AcksMeetWholeView == Spec => AckMeetsWholeView
<1>1. SyncInv /\ [Next]_vars =>
        [\A c \in Clients :
           Len(writes'[c]) < Len(writes[c]) /\ regs'[c] # {} => complete'[c]]_vars
  BY UncoveredWhole
<1> QED BY <1>1, SyncAlways, PTL DEF Spec, AckMeetsWholeView

-----------------------------------------------------------------------------
(* No post is left unannounced *)

(* The responses of a server that refuses nothing. *)
Accepted == {m \in Responses : m.type = "ack" => m.ok}

AllAccepted ==
  ~RejectsWrites =>
    \A c \in Clients : down[c] \in Seq(Accepted) /\ held[c] \in Seq(Accepted)

(* What client k has still to send to the server, connected or not. *)
Outbox(k) == IF connected[k] THEN up[k] ELSE Unanswered(k)

(* Client k has still to hear of the creation of p, to act on that, or to  *)
(* have its announcement performed.                                        *)
Underway(k, p) ==
  \/ Has(writes[k], Write("set", p))
  \/ Has(mainQ[k], [type |-> "written", post |-> p])
  \/ Has(repoQ[k], Write("update", p))
  \/ Has(Outbox(k), Write("update", p))

Announcing ==
  ~RejectsWrites /\ crashes = 0 =>
    \A p \in Posts : server[p] = "created" => \E k \in Clients : Underway(k, p)

(* They stay so in the rest of a queue, *)
LEMMA AcceptedTail ==
  ASSUME NEW q \in Seq(Accepted), q # <<>>
  PROVE  Head(q) \in Accepted /\ Tail(q) \in Seq(Accepted)
BY HeadTailProperties

(* and in two queues, one after the other; *)
LEMMA AcceptedConcat ==
  ASSUME NEW q \in Seq(Accepted), NEW r \in Seq(Accepted)
  PROVE  q \o r \in Seq(Accepted)
BY ConcatProperties

(* anything but a refusing ack is one. *)
LEMMA AcceptedOthers ==
  /\ \A m \in Responses : m.type # "ack" => m \in Accepted
  /\ \A w \in LocalWrites :
       [type |-> "ack", write |-> w, ok |-> TRUE] \in Accepted
BY DEF Accepted, Responses, Acks

(* Nothing comes down to client d, and nothing is held back. *)
Quiet(d) == UNCHANGED <<down[d], held[d]>>

(* Who else may hear anything in a step. *)
LEMMA OthersAreQuiet ==
  ASSUME TypeOK, [Next]_vars
  PROVE  \/ \A d \in Clients : Quiet(d)
         \/ \E c \in Clients : ServeWrite(c)
         \/ \E c \in Clients :
              /\ Receive(c) \/ ServeListen(c) \/ RevokeListen(c) \/ Disconnect(c) \/ Crash(c)
              /\ \A d \in Clients \ {c} : Quiet(d)
<1>1. CASE UNCHANGED vars BY <1>1 DEF vars, sdkVars, Quiet
<1>2. ASSUME NEW c \in Clients, User(c) \/ MainThread(c) PROVE \A d \in Clients : Quiet(d)
  <2>1. \A d \in Clients : Calm(d) BY <1>2, ScreensAreCalm
  <2> QED BY <2>1 DEF Calm, Quiet
<1>3. ASSUME NEW c \in Clients, RepoBlock(c) \/ ServeUnlisten(c) \/ Reconnect(c)
      PROVE  \A d \in Clients : Quiet(d)
  BY <1>3 DEF RepoBlock, AddObserver, RemoveObserver, LocalWrite, ServeUnlisten,
              Reconnect, Reconnected, sdkVars, Quiet
<1>4. ASSUME NEW c \in Clients,
             Receive(c) \/ ServeListen(c) \/ RevokeListen(c) \/ Disconnect(c) \/ Crash(c)
      PROVE  \A d \in Clients \ {c} : Quiet(d)
  <2>1. \A d \in Clients \ {c} : Calm(d) BY <1>4, OthersAreCalm
  <2> QED BY <2>1 DEF Calm, Quiet
<1> QED BY <1>1, <1>2, <1>3, <1>4 DEF Next, Serve

(* A server that refuses nothing never has. *)
LEMMA AcceptedStep ==
  ASSUME TypeOK, AllAccepted, [Next]_vars
  PROVE  AllAccepted'
<1> SUFFICES ASSUME ~RejectsWrites, NEW d \in Clients
             PROVE  (down[d])' \in Seq(Accepted) /\ (held[d])' \in Seq(Accepted)
  BY DEF AllAccepted
<1>1. /\ down[d] \in Seq(Accepted) /\ held[d] \in Seq(Accepted)
      /\ <<>> \in Seq(Accepted)
  BY DEF AllAccepted
<1>2. CASE Quiet(d) BY <1>1, <1>2 DEF Quiet
<1>3. ASSUME NEW c \in Clients, ServeWrite(c)
      PROVE  down'[d] \in Seq(Accepted) /\ held'[d] \in Seq(Accepted)
  <2>1. PICK w \in LocalWrites, ok \in BOOLEAN :
          ok /\ down'[d] = down[d] \o Pushed(d, w, ok) \o AckedTo(d, c, w, ok)
    BY <1>3, ServeWriteDef
  <2>2. Pushed(d, w, ok) \in Seq(Accepted)
    <3>1. [type |-> "push", write |-> w] \in Accepted
      BY AcceptedOthers DEF Responses
    <3> QED BY <1>1, <3>1 DEF Pushed
  <2>3. AckedTo(d, c, w, ok) \in Seq(Accepted)
    <3>1. [type |-> "ack", write |-> w, ok |-> ok] \in Accepted
      BY <2>1, AcceptedOthers
    <3> QED BY <1>1, <3>1 DEF AckedTo
  <2>4. held'[d] = held[d] BY <1>3 DEF ServeWrite, sdkVars
  <2>5. PICK P \in Seq(Accepted) : P = Pushed(d, w, ok) BY <2>2
  <2>6. PICK K \in Seq(Accepted) : K = AckedTo(d, c, w, ok) BY <2>3
  <2>7. down[d] \o P \in Seq(Accepted) BY <1>1, AcceptedConcat
  <2>8. (down[d] \o P) \o K \in Seq(Accepted) BY <2>7, AcceptedConcat
  <2> QED BY <1>1, <2>1, <2>4, <2>5, <2>6, <2>8
<1>4. CASE Receive(d)
  <2>1. down[d] # <<>> /\ down'[d] = Tail(down[d])
    BY <1>4 DEF Receive, ReceivePush, ReceiveSnapshot, ReceiveAck, ReceiveRefusal,
                ReceiveRevocation, Message, TypeOK
  <2>2. \/ held'[d] = held[d] \/ held'[d] = <<>>
        \/ held'[d] = Append(held[d], Head(down[d]))
    <3>1. CASE ReceivePush(d) \/ ReceiveRevocation(d)
      BY <3>1 DEF ReceivePush, ReceiveRevocation
    <3>2. CASE ReceiveSnapshot(d) BY <3>2 DEF ReceiveSnapshot, TypeOK
    <3>3. CASE ReceiveAck(d) BY <3>3 DEF ReceiveAck, TypeOK
    <3>4. CASE ReceiveRefusal(d) BY <3>4 DEF ReceiveRefusal, TypeOK, sdkVars
    <3> QED BY <1>4, <3>1, <3>2, <3>3, <3>4 DEF Receive
  <2>3. Head(down[d]) \in Accepted /\ Tail(down[d]) \in Seq(Accepted)
    BY <1>1, <2>1, AcceptedTail
  <2> QED BY <1>1, <2>1, <2>2, <2>3, AppendProperties
<1>5. CASE ServeListen(d) \/ RevokeListen(d)
  <2>1. \E m \in Accepted : down'[d] = Append(down[d], m)
    <3>1. CASE ServeListen(d)
      <4>1. /\ [type |-> "refusal"] \in Accepted
            /\ [type |-> "snapshot", board |-> server] \in Accepted
        BY AcceptedOthers DEF Responses, TypeOK
      <4> QED BY <3>1, <4>1 DEF ServeListen, TypeOK
    <3>2. CASE RevokeListen(d)
      <4>1. [type |-> "revocation"] \in Accepted BY AcceptedOthers DEF Responses
      <4> QED BY <3>2, <4>1 DEF RevokeListen, TypeOK
    <3> QED BY <1>5, <3>1, <3>2
  <2>2. held'[d] = held[d] BY <1>5 DEF ServeListen, RevokeListen, sdkVars
  <2> QED BY <1>1, <2>1, <2>2, AppendProperties
<1>6. CASE Disconnect(d) \/ Crash(d)
  <2>1. down'[d] = <<>> /\ (held'[d] = held[d] \/ held'[d] = <<>>)
    <3>1. CASE Disconnect(d) BY <3>1 DEF Disconnect, sdkVars, TypeOK
    <3>2. CASE Crash(d) BY <3>2 DEF Crash, TypeOK
    <3> QED BY <1>6, <3>1, <3>2
  <2> QED BY <1>1, <2>1
<1> QED BY <1>2, <1>3, <1>4, <1>5, <1>6, OthersAreQuiet

(* What releasing the responses held back tells. *)
LEMMA AckPutsTell ==
  ASSUME NEW c \in Clients, session[c] \in Sessions, held[c] \in Seq(Acks),
         NEW rs, NEW ca, NEW whole, NEW i \in 1 .. Len(held[c]), held[c][i].ok,
         held[c][i].write.type = "set"
  PROVE  Has(AckPutsEvents(c, rs, ca, whole),
             [type |-> "written", post |-> held[c][i].write.post])
<1> DEFINE N == Len(held[c])
           e == [type |-> "written", post |-> held[c][i].write.post]
           told(n) == SettleEvents(c, rs, ca, whole, AckPuts(c, n - 1),
                                   AckPuts(c, n), held[c][n])
<1>1. PICK f \in [0 .. N -> Seq(Callbacks)] :
        /\ IsTelling(f, c, rs, ca, whole)
        /\ AckPutsEvents(c, rs, ca, whole) = f[N]
  BY AckPutsEventsDef
<1>2. N \in Nat /\ \A n \in 1 .. N : held[c][n] \in Acks OBVIOUS
<1>3. \A n \in 1 .. N : f[n] = f[n - 1] \o told(n) BY <1>1 DEF IsTelling
<1>4. \A n \in 1 .. N : told(n) \in Seq(Callbacks) BY <1>2, SettleEventsType
<1>5. Has(told(i), e)
  <2>1. PICK q \in Seq(Callbacks) :
          q = ChildEvents(c, rs, Overlay(ca, whole, AckPuts(c, i - 1)),
                          Overlay(ca, whole, AckPuts(c, i)))
    BY ChildEventsType
  <2>2. told(i) = q \o <<e>> BY <2>1 DEF SettleEvents
  <2>3. e \in Callbacks BY <1>2 DEF Acks, LocalWrites, Callbacks
  <2> HIDE DEF e, told
  <2>4. PICK v \in Seq(Callbacks) : v = <<e>> BY <2>3, <<e>> \in Seq(Callbacks)
  <2>5. Has(v, e) BY <2>4, HasInOne
  <2>6. Has(q \o v, e) BY <2>5, HasInConcat
  <2>7. told(i) = q \o v BY <2>2, <2>4
  <2> QED BY <2>6, <2>7
<1> HIDE DEF told, e, N
<1> DEFINE S == {n \in 0 .. N : n >= i => Has(f[n], e)}
<1>6. 0 \in S BY <1>2 DEF N
<1>7. ASSUME NEW n \in 1 .. N, n - 1 \in S PROVE n \in S
  <2>1. f[n - 1] \in Seq(Callbacks) /\ told(n) \in Seq(Callbacks) BY <1>2, <1>4, SMTT(30)
  <2>2. n >= i => n = i \/ (n - 1 >= i /\ Has(f[n - 1], e)) BY <1>2, <1>7 DEF N
  <2>3. n >= i => Has(told(n), e) \/ Has(f[n - 1], e) BY <1>5, <2>2
  <2> HIDE DEF S
  <2>4. PICK g \in Seq(Callbacks) : g = f[n - 1] BY <2>1
  <2>5. PICK t \in Seq(Callbacks) : t = told(n) BY <2>1
  <2>6. f[n] = g \o t BY <1>3, <2>4, <2>5
  <2>7. Has(g \o t, e) <=> Has(g, e) \/ Has(t, e) BY HasInConcat
  <2>8. n >= i => Has(f[n], e) BY <2>3, <2>4, <2>5, <2>6, <2>7
  <2> QED BY <1>2, <2>8 DEF S
<1> HIDE DEF S
<1>8. 0 .. N \subseteq S BY <1>2, <1>6, <1>7, InductionUpTo
<1>9. N \in S /\ i <= N BY <1>2, <1>8 DEF N
<1> QED BY <1>1, <1>9 DEF S, e

(* A post stays underway while the queues it may be in only grow. *)
LEMMA UnderwayGrows ==
  ASSUME NEW k \in Clients, NEW p, Underway(k, p),
         LET set == Write("set", p)
             update == Write("update", p)
             written == [type |-> "written", post |-> p]
         IN  /\ Has(writes[k], set) => Has(writes'[k], set) \/ Has(mainQ'[k], written)
             /\ Has(mainQ[k], written) => Has(mainQ'[k], written) \/ Has(repoQ'[k], update)
             /\ Has(repoQ[k], update) => Has(repoQ'[k], update) \/ Has(Outbox(k)', update)
             /\ Has(Outbox(k), update) => Has(Outbox(k)', update)
  PROVE  Underway(k, p)'
BY DEF Underway

(* An outbox changes with what it depends on only. *)
LEMMA OutboxSame ==
  ASSUME NEW k \in Clients,
         connected'[k] = connected[k], up'[k] = up[k], writes'[k] = writes[k],
         held'[k] = held[k]
  PROVE  Outbox(k)' = Outbox(k)
BY DEF Outbox, Unanswered

(* What is not of client c's doing. *)
LEMMA UnderwayElsewhere ==
  ASSUME TypeOK, NEW c \in Clients, NEW k \in Clients \ {c}, NEW p,
         Underway(k, p),
         \/ User(c) \/ MainThread(c) \/ RepoBlock(c) \/ Receive(c) \/ Serve(c)
         \/ RevokeListen(c) \/ Disconnect(c) \/ Reconnect(c) \/ Crash(c)
  PROVE  Underway(k, p)'
<1>1. /\ connected'[k] = connected[k] /\ up'[k] = up[k] /\ writes'[k] = writes[k]
      /\ held'[k] = held[k]
  <2>1. CASE ServeWrite(c) BY <2>1 DEF ServeWrite, TypeOK, sdkVars
  <2>2. CASE ~ServeWrite(c)
    <3>1. Calm(k) BY <2>2, ScreensAreCalm, OthersAreCalm DEF Serve
    <3> QED BY <3>1 DEF Calm
  <2> QED BY <2>1, <2>2
<1>2. mainQ'[k] = mainQ[k] /\ repoQ'[k] = repoQ[k]
  <2> USE DEF TypeOK
  <2>1. CASE User(c) BY <2>1 DEF User, OpenTimeline, Logout, CreatePost, RemovePost
  <2>2. CASE MainThread(c)
    BY <2>2 DEF MainThread, PostsRetrieved, RetrievalFailed, PostAdded, PostRemoved,
                FeedEvent, PostWritten
  <2>3. CASE RepoBlock(c)
    BY <2>3 DEF RepoBlock, AddObserver, RemoveObserver, LocalWrite
  <2>4. CASE Receive(c)
    <3>1. CASE ReceiveRefusal(c)
      <4>1. CASE ListenPending(up[c], Tail(down[c])) BY <3>1, <4>1 DEF ReceiveRefusal
      <4>2. CASE ~ListenPending(up[c], Tail(down[c])) BY <3>1, <4>2 DEF ReceiveRefusal
      <4> QED BY <4>1, <4>2
    <3>2. CASE ReceivePush(c) BY <3>2 DEF ReceivePush
    <3>3. CASE ReceiveSnapshot(c) BY <3>3 DEF ReceiveSnapshot
    <3>4. CASE ReceiveAck(c) BY <3>4 DEF ReceiveAck
    <3>5. CASE ReceiveRevocation(c) BY <3>5 DEF ReceiveRevocation
    <3> QED BY <2>4, <3>1, <3>2, <3>3, <3>4, <3>5 DEF Receive
  <2>5. CASE Serve(c)
    BY <2>5 DEF Serve, ServeListen, ServeUnlisten, ServeWrite
  <2>6. CASE RevokeListen(c) \/ Disconnect(c) \/ Reconnect(c) \/ Crash(c)
    BY <2>6 DEF RevokeListen, Disconnect, Reconnect, Reconnected, Crash
  <2> QED BY <2>1, <2>2, <2>3, <2>4, <2>5, <2>6
<1>3. Outbox(k)' = Outbox(k) BY <1>1, OutboxSame
<1> QED BY <1>1, <1>2, <1>3 DEF Underway

(* A post stays underway, whatever the user does, a removal included; *)
LEMMA UserUnderway ==
  ASSUME TypeInv, NEW c \in Clients, NEW p \in Posts, Underway(c, p), User(c)
  PROVE  Underway(c, p)'
<1>0. TypeOK BY DEF TypeInv
<1>1. /\ connected'[c] = connected[c] /\ up'[c] = up[c] /\ writes'[c] = writes[c]
      /\ held'[c] = held[c] /\ mainQ'[c] = mainQ[c]
  BY DEF User, OpenTimeline, Logout, CreatePost, RemovePost, sdkVars
<1>2. Outbox(c)' = Outbox(c) BY <1>1, OutboxSame
<1>3. \/ repoQ'[c] = repoQ[c]
      \/ \E b : repoQ'[c] = Append(repoQ[c], b) /\ b \in Blocks
  <2>1. CASE OpenTimeline(c)
    <3>1. <<"value", session'[c]>> \in Regs
      <4>1. session'[c] \in Sessions BY <2>1, UserTypes DEF TypeInv, TypeOK
      <4> QED BY <4>1 DEF Regs
    <3>2. [type |-> "observe", reg |-> <<"value", session'[c]>>] \in Blocks
      BY <3>1 DEF Blocks
    <3> QED BY <1>0, <2>1, <3>2 DEF OpenTimeline, TypeOK
  <2>2. CASE Logout(c) BY <2>2 DEF Logout
  <2>3. CASE \E q \in Posts : CreatePost(c, q) \/ RemovePost(c, q)
    BY <1>0, <2>3 DEF CreatePost, RemovePost, Write, Blocks, LocalWrites, WriteOps, TypeOK
  <2> QED BY <2>1, <2>2, <2>3 DEF User
<1>4. Has(repoQ[c], Write("update", p)) => Has(repoQ'[c], Write("update", p))
  <2> DEFINE e == Write("update", p)
  <2> HIDE DEF e
  <2>1. repoQ[c] \in Seq(Blocks) BY <1>0, QueueTypes
  <2>2. CASE repoQ'[c] = repoQ[c] BY <2>2 DEF e
  <2>3. ASSUME NEW b, repoQ'[c] = Append(repoQ[c], b), b \in Blocks
        PROVE  Has(repoQ[c], e) => Has(repoQ'[c], e)
    <3>1. Has(Append(repoQ[c], b), e) <=> Has(repoQ[c], e) \/ b = e
      BY <2>1, <2>3, HasInAppend
    <3> QED BY <2>3, <3>1
  <2> QED BY <1>3, <2>2, <2>3 DEF e
<1> QED BY <1>1, <1>2, <1>4, UnderwayGrows

(* a creation that is told is answered with the update; *)
LEMMA MainThreadUnderway ==
  ASSUME TypeInv, NEW c \in Clients, NEW p \in Posts, Underway(c, p), MainThread(c)
  PROVE  Underway(c, p)'
<1> DEFINE m == Head(mainQ[c])
           written == [type |-> "written", post |-> p]
           update == Write("update", p)
<1>0. TypeOK /\ repoQ'[c] \in Seq(Blocks)
  BY MainThreadTypes DEF TypeInv, TypeOK
<1>1. /\ connected'[c] = connected[c] /\ up'[c] = up[c] /\ writes'[c] = writes[c]
      /\ held'[c] = held[c] /\ mainQ[c] # <<>> /\ mainQ'[c] = Tail(mainQ[c])
  BY <1>0 DEF MainThread, PostsRetrieved, RetrievalFailed, PostAdded, PostRemoved,
         FeedEvent, PostWritten, Callback, TypeOK, sdkVars
<1>2. Outbox(c)' = Outbox(c) BY <1>1, OutboxSame
<1>3. mainQ[c] \in Seq(Callbacks) /\ repoQ[c] \in Seq(Blocks) BY <1>0, QueueTypes
<1>4. \A e : Has(mainQ[c], e) <=> m = e \/ Has(mainQ'[c], e)
  BY <1>1, <1>3, HasInHead
<1> HIDE DEF m
<1>5. Has(repoQ[c], update) => Has(repoQ'[c], update)
  <2>1. CASE PostsRetrieved(c)
    <3> DEFINE off == [type |-> "stop", reg |-> <<"value", m.session>>]
               on(kind) == [type |-> "observe", reg |-> <<kind, m.session>>]
    <3>1. \/ repoQ'[c] = repoQ[c] \o <<off>>
          \/ repoQ'[c] = repoQ[c] \o <<off, on("changed"), on("removed")>>
      BY <1>0, <2>1 DEF PostsRetrieved, TypeOK, m
    <3>2. m \in Callbacks /\ m.type = "value"
      BY <1>0, <2>1, HeadsOfQueues DEF PostsRetrieved, Callback, m
    <3>3. m.session \in Sessions BY <3>2 DEF Callbacks
    <3>4. off \in Blocks /\ on("changed") \in Blocks /\ on("removed") \in Blocks
      BY <3>3 DEF Blocks, Regs
    <3> HIDE DEF off, on
    <3>5. \E v \in Seq(Blocks) : repoQ'[c] = repoQ[c] \o v
      <4>1. <<off>> \in Seq(Blocks) /\ <<off, on("changed"), on("removed")>> \in Seq(Blocks)
        BY <3>4
      <4> QED BY <3>1, <4>1
    <3> QED BY <1>3, <3>5, HasInConcat
  <2>2. CASE RetrievalFailed(c)
    <3> DEFINE b == [type |-> "stop", reg |-> <<"value", m.session>>]
    <3>1. repoQ'[c] = Append(repoQ[c], b) BY <1>0, <2>2 DEF RetrievalFailed, TypeOK, m
    <3>2. m \in Callbacks /\ m.type = "cancelled"
      BY <1>0, <2>2, HeadsOfQueues DEF RetrievalFailed, Callback, m
    <3>3. m.session \in Sessions BY <3>2 DEF Callbacks
    <3>4. b \in Blocks BY <3>3 DEF Blocks, Regs
    <3> HIDE DEF b
    <3> QED BY <1>3, <3>1, <3>4, HasInAppend
  <2>3. CASE PostAdded(c) \/ PostRemoved(c)
    BY <2>3 DEF PostAdded, PostRemoved, FeedEvent
  <2>4. CASE PostWritten(c)
    <3> DEFINE b == Write("update", m.post)
    <3>1. repoQ'[c] = Append(repoQ[c], b) BY <1>0, <2>4 DEF PostWritten, TypeOK, m
    <3>2. m \in Callbacks /\ m.type = "written"
      BY <1>0, <2>4, HeadsOfQueues DEF PostWritten, Callback, m
    <3>3. b \in Blocks
      BY <3>2 DEF Callbacks, Write, Blocks, LocalWrites, WriteOps
    <3> HIDE DEF b, update
    <3> QED BY <1>3, <3>1, <3>3, HasInAppend
  <2> QED BY <2>1, <2>2, <2>3, <2>4 DEF MainThread
<1>6. Has(mainQ[c], written) => Has(mainQ'[c], written) \/ Has(repoQ'[c], update)
  <2> SUFFICES ASSUME m = written PROVE Has(repoQ'[c], update) BY <1>4
  <2>1. m.type = "written" /\ m.post = p OBVIOUS
  <2>2. PostWritten(c)
    BY <2>1 DEF MainThread, PostsRetrieved, RetrievalFailed, PostAdded, PostRemoved,
                FeedEvent, Callback, m
  <2>3. repoQ'[c] = Append(repoQ[c], update) BY <1>0, <2>1, <2>2 DEF PostWritten, TypeOK, m
  <2>4. update \in Blocks BY DEF Write, Blocks, LocalWrites, WriteOps
  <2> HIDE DEF update
  <2> QED BY <1>3, <2>3, <2>4, HasInAppend
<1> QED BY <1>1, <1>2, <1>5, <1>6, UnderwayGrows

(* (a write is requested if it is in the queue) *)
LEMMA RequestedHas ==
  ASSUME NEW w \in LocalWrites
  PROVE  \A q \in Seq(Requests) : Has(q, w) => Has(Requested(q), w)
<1> DEFINE S == {q \in Seq(Requests) : Has(q, w) => Has(Requested(q), w)}
<1>1. <<>> \in S BY HasInNone, <<>> \in Seq(Requests)
<1>2. ASSUME NEW q \in Seq(Requests), NEW m \in Requests, q \in S
      PROVE  Append(q, m) \in S
  <2>1. Append(q, m) \in Seq(Requests) BY AppendProperties
  <2>2. Requested(q) \in Seq(LocalWrites) /\ RequestOf(m) \in Seq(LocalWrites)
    BY RequestedType, RequestOfType
  <2>3. Has(Requested(Append(q, m)), w) <=> Has(Requested(q), w) \/ Has(RequestOf(m), w)
    <3>1. PICK a \in Seq(LocalWrites) : a = Requested(q) BY <2>2
    <3>2. PICK b \in Seq(LocalWrites) : b = RequestOf(m) BY <2>2
    <3>3. Requested(Append(q, m)) = a \o b BY <3>1, <3>2, RequestedAppend
    <3>4. Has(a \o b, w) <=> Has(a, w) \/ Has(b, w) BY HasInConcat
    <3> QED BY <3>1, <3>2, <3>3, <3>4
  <2>4. Has(Append(q, m), w) <=> Has(q, w) \/ m = w BY HasInAppend
  <2>5. m = w => Has(RequestOf(m), w)
    <3> SUFFICES ASSUME m = w PROVE Has(RequestOf(m), w) OBVIOUS
    <3>1. RequestOf(m) = <<w>> BY DEF RequestOf, LocalWrites
    <3> QED BY <3>1, HasInOne
  <2> QED BY <1>2, <2>1, <2>3, <2>4, <2>5
<1> HIDE DEF S
<1>3. Seq(Requests) \subseteq S BY <1>1, <1>2, InductionOnSeq
<1> QED BY <1>3 DEF S

(* (the two writes of createPost) *)
LEMMA WriteTypes ==
  ASSUME NEW p \in Posts
  PROVE  /\ Write("set", p) \in LocalWrites /\ Write("update", p) \in LocalWrites
         /\ Write("update", p).type = "update" /\ Write("set", p).type = "set"
         /\ Write("update", p).post = p /\ Write("set", p).post = p
BY DEF Write, LocalWrites, WriteOps

(* (a local write goes to the outbox, connected or not) *)
LEMMA OutboxGrows ==
  ASSUME TypeOK, NEW c \in Clients, NEW s \in Seq(Requests), Send(c, s),
         connected'[c] = connected[c], writes'[c] = writes[c], held'[c] = held[c]
  PROVE  \A e : Has(Outbox(c), e) => Has(Outbox(c)', e)
<1>1. up[c] \in Seq(Requests) BY QueueTypes
<1>2. CASE connected[c]
  <2>1. up'[c] = up[c] \o s BY <1>2 DEF Send, TypeOK
  <2>2. \A e : Has(up[c] \o s, e) <=> Has(up[c], e) \/ Has(s, e) BY <1>1, HasInConcat
  <2> QED BY <1>2, <2>1, <2>2 DEF Outbox
<1>3. CASE ~connected[c]
  <2>1. up'[c] = up[c] BY <1>3 DEF Send, TypeOK
  <2> QED BY <2>1, OutboxSame
<1> QED BY <1>2, <1>3

(* the update goes from the app to the outbox; *)
LEMMA RepoBlockUnderway ==
  ASSUME TypeInv, EveryWriteTracked, NEW c \in Clients, NEW p \in Posts,
         Underway(c, p), RepoBlock(c)
  PROVE  Underway(c, p)'
<1> DEFINE b == Head(repoQ[c])
           update == Write("update", p)
<1>0. TypeOK BY DEF TypeInv
<1>1. /\ repoQ[c] # <<>> /\ repoQ'[c] = Tail(repoQ[c])
      /\ connected'[c] = connected[c] /\ held'[c] = held[c]
  BY <1>0 DEF RepoBlock, AddObserver, RemoveObserver, LocalWrite, Block, TypeOK
<1>2. /\ mainQ[c] \in Seq(Callbacks) /\ repoQ[c] \in Seq(Blocks)
      /\ writes[c] \in Seq(LocalWrites) /\ up[c] \in Seq(Requests)
  BY <1>0, QueueTypes
<1>3. b \in Blocks BY <1>0, <1>1, HeadsOfQueues
<1>4. \A e : Has(repoQ[c], e) <=> b = e \/ Has(repoQ'[c], e)
  BY <1>1, <1>2, HasInHead
<1>5. update \in LocalWrites /\ update.type = "update" BY WriteTypes
<1> HIDE DEF update, b
<1>6. CASE AddObserver(c)
  <2>1. /\ b.type = "observe" /\ writes'[c] = writes[c]
        /\ Send(c, IF regs[c] = {} THEN <<[type |-> "listen"]>> ELSE <<>>)
        /\ \/ mainQ'[c] = mainQ[c]
           \/ mainQ'[c] = mainQ[c] \o ValueEvents(c, {b.reg}, Picture(c))
    BY <1>0, <1>6 DEF AddObserver, Block, TypeOK, b
  <2>2. b.reg \in Regs BY <1>3, <2>1 DEF Blocks, LocalWrites, WriteOps
  <2>3. PICK v \in Seq(Callbacks) : v = ValueEvents(c, {b.reg}, Picture(c))
    BY <2>2, ValueEventsType, FS_Singleton
  <2>4. \A e : Has(mainQ[c] \o v, e) <=> Has(mainQ[c], e) \/ Has(v, e)
    BY <1>2, HasInConcat
  <2>5. \A e : Has(mainQ[c], e) => Has(mainQ'[c], e) BY <2>1, <2>3, <2>4
  <2>6. \A e : Has(Outbox(c), e) => Has(Outbox(c)', e)
    <3>1. PICK s \in Seq(Requests) :
            s = IF regs[c] = {} THEN <<[type |-> "listen"]>> ELSE <<>>
      <4>1. [type |-> "listen"] \in Requests BY DEF Requests
      <4>2. <<[type |-> "listen"]>> \in Seq(Requests) /\ <<>> \in Seq(Requests) BY <4>1
      <4> QED BY <4>2
    <3> QED BY <1>0, <1>1, <2>1, <3>1, OutboxGrows
  <2>7. b # update BY <1>5, <2>1
  <2> QED BY <1>4, <2>1, <2>5, <2>6, <2>7, UnderwayGrows DEF update
<1>7. CASE RemoveObserver(c)
  <2>1. b.type = "stop" /\ writes'[c] = writes[c] /\ mainQ'[c] = mainQ[c]
    BY <1>0, <1>7 DEF RemoveObserver, Block, TypeOK, b
  <2>2. \A e : Has(Outbox(c), e) => Has(Outbox(c)', e)
    <3>1. PICK s \in Seq(Requests) : Send(c, s)
      <4>1. [type |-> "unlisten"] \in Requests BY DEF Requests
      <4>2. <<[type |-> "unlisten"]>> \in Seq(Requests) /\ <<>> \in Seq(Requests) BY <4>1
      <4> QED BY <1>7, <4>2 DEF RemoveObserver
    <3> QED BY <1>0, <1>1, <2>1, <3>1, OutboxGrows
  <2>3. b # update BY <1>5, <2>1
  <2> QED BY <1>4, <2>1, <2>2, <2>3, UnderwayGrows DEF update
<1>8. CASE LocalWrite(c)
  <2>1. /\ b.type \in WriteOps /\ writes'[c] = Append(writes[c], b)
        /\ Send(c, <<b>>)
        /\ mainQ'[c] = mainQ[c] \o ChildEvents(c, regs[c], Picture(c),
                         Overlay(cache[c], complete[c], Append(writes[c], b)))
    BY <1>0, <1>8 DEF LocalWrite, Block, TypeOK, b
  <2>2. b \in LocalWrites BY <1>3, <2>1 DEF Blocks, WriteOps
  <2>3. session[c] \in Sessions BY <1>0 DEF TypeOK
  <2>4. \A e : Has(mainQ[c], e) => Has(mainQ'[c], e)
    <3>1. PICK v \in Seq(Callbacks) :
            v = ChildEvents(c, regs[c], Picture(c),
                            Overlay(cache[c], complete[c], Append(writes[c], b)))
      BY <2>3, ChildEventsType
    <3>2. \A e : Has(mainQ[c] \o v, e) <=> Has(mainQ[c], e) \/ Has(v, e)
      BY <1>2, HasInConcat
    <3> QED BY <2>1, <3>1, <3>2
  <2>5. \A e : Has(writes[c], e) => Has(writes'[c], e) BY <1>2, <2>1, <2>2, HasInAppend
  <2>6. /\ \A e : Has(Outbox(c), e) => Has(Outbox(c)', e)
        /\ Has(Outbox(c)', b)
    <3>1. CASE connected[c]
      <4>1. b \in Requests BY <2>2 DEF Requests
      <4>2. up'[c] = up[c] \o <<b>> BY <1>0, <2>1, <3>1 DEF Send, TypeOK
      <4>3. up'[c] = Append(up[c], b) BY <1>2, <4>1, <4>2, AppendIsConcat
      <4>4. \A e : Has(Append(up[c], b), e) <=> Has(up[c], e) \/ b = e
        BY <1>2, <4>1, HasInAppend
      <4> QED BY <1>1, <3>1, <4>3, <4>4 DEF Outbox
    <3>2. CASE ~connected[c]
      <4>1. Len(held[c]) \in 0 .. Len(writes[c])
        BY <1>0, <1>2, HeldAreOldest DEF TypeOK
      <4>2. Outbox(c) = SubSeq(writes[c], Len(held[c]) + 1, Len(writes[c]))
        BY <3>2 DEF Outbox, Unanswered
      <4>3. Outbox(c)' = SubSeq(Append(writes[c], b), Len(held[c]) + 1,
                                Len(Append(writes[c], b)))
        BY <1>1, <2>1, <3>2 DEF Outbox, Unanswered
      <4> QED BY <1>2, <2>2, <4>1, <4>2, <4>3, HasInRestOfAppend
    <3> QED BY <3>1, <3>2
  <2> QED BY <1>4, <2>4, <2>5, <2>6, UnderwayGrows DEF update
<1> QED BY <1>6, <1>7, <1>8 DEF RepoBlock

(* A creation answered, and the answer acted on, is told. *)
LEMMA Released ==
  ASSUME TypeInv, EveryWriteTracked, NEW c \in Clients, held[c] \in Seq(Accepted),
         NEW p \in Posts, Has(writes[c], Write("set", p)), NEW rs, NEW ca, NEW whole
  PROVE  \/ Has(AckPuts(c, Len(held[c])), Write("set", p))
         \/ Has(AckPutsEvents(c, rs, ca, whole), [type |-> "written", post |-> p])
<1>0. TypeOK BY DEF TypeInv
<1> DEFINE e == Write("set", p)
<1>1. /\ Answered(held[c]) \in Seq(LocalWrites) /\ Unanswered(c) \in Seq(LocalWrites)
      /\ writes[c] = Answered(held[c]) \o Unanswered(c)
      /\ AckPuts(c, Len(held[c])) = Unanswered(c)
  BY <1>0, HeldAreOldest, AckPutsRest
<1>2. PICK A \in Seq(LocalWrites) : A = Answered(held[c]) BY <1>1
<1>3. PICK U \in Seq(LocalWrites) : U = Unanswered(c) BY <1>1
<1> HIDE DEF e
<1>4. Has(A \o U, e) <=> Has(A, e) \/ Has(U, e) BY HasInConcat
<1>5. Has(A, e) \/ Has(U, e) BY <1>1, <1>2, <1>3, <1>4 DEF e
<1>6. ASSUME Has(A, e)
      PROVE  Has(AckPutsEvents(c, rs, ca, whole), [type |-> "written", post |-> p])
  <2>1. held[c] \in Seq(Acks) /\ session[c] \in Sessions BY <1>0 DEF TypeOK
  <2>2. /\ Len(A) = Len(held[c])
        /\ \A i \in 1 .. Len(held[c]) : A[i] = held[c][i].write
    BY <1>2, <2>1, AnsweredAcks
  <2>3. PICK i \in 1 .. Len(held[c]) : held[c][i].write = e BY <1>6, <2>2 DEF Has
  <2>4. held[c][i].ok
    <3>1. held[c][i] \in Acks /\ held[c][i] \in Accepted BY <2>1
    <3> QED BY <3>1 DEF Acks, Accepted
  <2>5. e.type = "set" /\ e.post = p BY WriteTypes DEF e
  <2> QED BY <2>1, <2>3, <2>4, <2>5, AckPutsTell
<1> QED BY <1>1, <1>3, <1>5, <1>6 DEF e

(* Callbacks put behind those of client c. *)
LEMMA CallbacksBehind ==
  ASSUME NEW q \in Seq(Callbacks), NEW v \in Seq(Callbacks)
  PROVE  /\ q \o v \in Seq(Callbacks)
         /\ \A e : Has(q, e) => Has(q \o v, e)
         /\ \A e : Has(v, e) => Has(q \o v, e)
<1>1. q \o v \in Seq(Callbacks) BY ConcatProperties
<1>2. \A e : Has(q \o v, e) <=> Has(q, e) \/ Has(v, e) BY HasInConcat
<1> QED BY <1>1, <1>2

(* (a write is answered if its response is in the queue) *)
LEMMA AnsweredHas ==
  ASSUME NEW q \in Seq(Responses), q # <<>>
  PROVE  \A e : Has(Answered(q), e) <=>
                  Has(AnswerOf(Head(q)), e) \/ Has(Answered(Tail(q)), e)
<1>1. Head(q) \in Responses /\ Tail(q) \in Seq(Responses) BY HeadTailProperties
<1>2. PICK h \in Seq(LocalWrites) : h = AnswerOf(Head(q)) BY <1>1, AnswerOfType
<1>3. PICK r \in Seq(LocalWrites) : r = Answered(Tail(q)) BY <1>1, AnsweredType
<1>4. Answered(q) = h \o r BY <1>2, <1>3, AnsweredHead
<1>5. \A e : Has(h \o r, e) <=> Has(h, e) \/ Has(r, e) BY HasInConcat
<1> QED BY <1>2, <1>3, <1>4, <1>5

(* a creation that leaves the tree is told; *)
LEMMA ReceiveUnderway ==
  ASSUME TypeInv, EveryWriteTracked, AllAccepted, ~RejectsWrites, NEW c \in Clients,
         connected[c], NEW p \in Posts, Underway(c, p), Receive(c)
  PROVE  Underway(c, p)'
<1> DEFINE set == Write("set", p)
           written == [type |-> "written", post |-> p]
           q == mainQ[c]
<1>0. TypeOK /\ \A d \in Clients : session[d] \in Sessions BY DEF TypeInv, TypeOK
<1>1. /\ connected'[c] = connected[c] /\ up'[c] = up[c] /\ repoQ'[c] = repoQ[c]
  BY DEF Receive, ReceivePush, ReceiveSnapshot, ReceiveAck, ReceiveRefusal,
         ReceiveRevocation
<1>2. Outbox(c)' = Outbox(c) BY <1>1 DEF Outbox
<1>3. q \in Seq(Callbacks) /\ held[c] \in Seq(Accepted)
  BY <1>0, QueueTypes DEF AllAccepted
<1> HIDE DEF set, written
<1> SUFFICES /\ \A e : Has(q, e) => Has(mainQ'[c], e)
             /\ Has(writes[c], set) => Has(writes'[c], set) \/ Has(mainQ'[c], written)
  BY <1>1, <1>2, UnderwayGrows DEF set, written
<1> HIDE DEF q
<1>4. CASE ReceivePush(c)
  <2>1. writes'[c] = writes[c]
        /\ mainQ'[c] = q \o ChildEvents(c, regs[c], Picture(c),
                              Overlay(cache'[c], complete[c], writes[c]))
    BY <1>0, <1>4 DEF ReceivePush, TypeOK, q
  <2>2. PICK v \in Seq(Callbacks) :
          v = ChildEvents(c, regs[c], Picture(c),
                          Overlay(cache'[c], complete[c], writes[c]))
    BY <1>0, ChildEventsType
  <2> QED BY <1>3, <2>1, <2>2, CallbacksBehind
<1>5. CASE ReceiveSnapshot(c)
  <2> DEFINE viewed == regs[c] # {}
             ca == IF viewed THEN Head(down[c]).board ELSE cache[c]
             whole == viewed \/ complete[c]
             shown == Overlay(ca, whole, writes[c])
             child == ChildEvents(c, regs[c], Picture(c), shown)
             values == IF complete[c] THEN <<>> ELSE ValueEvents(c, ValueRegs(c), shown)
             wait == ListenPending(up[c], Tail(down[c]))
             told == AckPutsEvents(c, regs[c], ca, whole)
  <2>1. /\ writes'[c] = IF wait THEN writes[c] ELSE AckPuts(c, Len(held[c]))
        /\ mainQ'[c] = q \o child \o values \o IF wait THEN <<>> ELSE told
    BY <1>0, <1>5 DEF ReceiveSnapshot, TypeOK, q
  <2>2. child \in Seq(Callbacks) BY <1>0, ChildEventsType
  <2>3. values \in Seq(Callbacks)
    <3>1. ValueRegs(c) \in SUBSET Regs /\ IsFiniteSet(ValueRegs(c))
      BY FS_Subset DEF TypeInv, TypeOK, ValueRegs
    <3> HIDE DEF shown
    <3>2. ValueEvents(c, ValueRegs(c), shown) \in Seq(Callbacks)
      BY <3>1, ValueEventsType
    <3> QED BY <3>2
  <2>4. told \in Seq(Callbacks) BY ReleaseTypes
  <2>5. Has(writes[c], set) => Has(AckPuts(c, Len(held[c])), set) \/ Has(told, written)
    BY <1>3, Released DEF set, written
  <2> HIDE DEF child, values, wait, told
  <2>6. PICK v \in Seq(Callbacks) : v = IF wait THEN <<>> ELSE told BY <2>4, <<>> \in Seq(Callbacks)
  <2>7. PICK r \in Seq(Callbacks) : r = q \o child /\ \A e : Has(q, e) => Has(r, e)
    BY <1>3, <2>2, CallbacksBehind
  <2>8. PICK s \in Seq(Callbacks) : s = r \o values /\ \A e : Has(r, e) => Has(s, e)
    BY <2>3, CallbacksBehind
  <2>9. /\ \A e : Has(s, e) => Has(s \o v, e)
        /\ \A e : Has(v, e) => Has(s \o v, e)
    BY CallbacksBehind
  <2>10. mainQ'[c] = s \o v BY <2>1, <2>6, <2>7, <2>8
  <2> QED BY <2>1, <2>5, <2>6, <2>7, <2>8, <2>9, <2>10
<1>6. CASE ReceiveAck(c)
  <2>1. CASE ListenPending(up[c], down[c]) BY <1>6, <2>1 DEF ReceiveAck, q
  <2>2. CASE ~ListenPending(up[c], down[c])
    <3> DEFINE m == Head(down[c])
               ws == writes[c]
               child == ChildEvents(c, regs[c], Overlay(cache[c], complete[c], ws),
                                    Overlay(cache[c], complete[c], Left(c, m)))
               last == IF m.ok /\ m.write.type = "set"
                       THEN <<[type |-> "written", post |-> m.write.post]>>
                       ELSE <<>>
    <3>1. /\ writes'[c] = Left(c, m) /\ Message(c, "ack")
          /\ mainQ'[c] = q \o (child \o last)
      BY <1>0, <1>6, <2>2 DEF ReceiveAck, SettleEvents, TypeOK, q
    <3>2. /\ m \in Acks
          /\ Answered(down[c]) = <<m.write>> \o Answered(Tail(down[c]))
          /\ Left(c, m) = Answered(held[c]) \o Answered(Tail(down[c])) \o Requested(up[c])
      BY <1>0, <3>1, LeftRest
    <3>3. m.ok
      <4>1. down[c] # <<>> /\ down[c] \in Seq(Accepted)
        BY <3>1 DEF AllAccepted, Message
      <4>2. m \in Accepted BY <4>1, AcceptedTail
      <4> QED BY <3>2, <4>2 DEF Acks, Accepted
    <3>4. child \in Seq(Callbacks) BY <1>0, ChildEventsType
    <3>5. last \in Seq(Callbacks)
      <4>1. [type |-> "written", post |-> m.write.post] \in Callbacks
        BY <3>2 DEF Acks, LocalWrites, Callbacks
      <4> QED BY <4>1
    <3>6. m.write = set => Has(last, written)
      <4> SUFFICES ASSUME m.write = set PROVE Has(last, written) OBVIOUS
      <4>1. m.write.type = "set" /\ m.write.post = p BY WriteTypes DEF set
      <4>2. last = <<written>> BY <3>3, <4>1 DEF written
      <4> QED BY <4>2, HasInOne
    <3>7. Has(writes[c], set) => m.write = set \/ Has(Left(c, m), set)
      <4>1. PICK A \in Seq(LocalWrites) : A = Answered(held[c]) BY <1>0, QueueTypes
      <4>2. PICK D \in Seq(LocalWrites) : D = Answered(Tail(down[c]))
        BY <1>0, <3>1, Popped DEF Message
      <4>3. PICK R \in Seq(LocalWrites) : R = Requested(up[c]) BY <1>0, QueueTypes
      <4>4. PICK E \in Seq(LocalWrites) : E = Answered(down[c]) BY <1>0, QueueTypes
      <4>5. Has(E, set) => m.write = set \/ Has(D, set)
        <5>1. down[c] \in Seq(Responses) /\ down[c] # <<>> /\ m.type = "ack"
          BY <1>0, <3>1, QueueTypes DEF Message
        <5>2. Has(E, set) => Has(AnswerOf(m), set) \/ Has(D, set)
          BY <4>2, <4>4, <5>1, AnsweredHas
        <5>3. AnswerOf(m) = <<m.write>> BY <5>1 DEF AnswerOf
        <5> QED BY <5>2, <5>3, HasInOne
      <4>6. Joins(writes[c], A, E, R)
        BY <4>1, <4>3, <4>4 DEF EveryWriteTracked, Joins
      <4>7. Joins(Left(c, m), A, D, R) BY <3>2, <4>1, <4>2, <4>3 DEF Joins
      <4> QED BY <4>5, <4>6, <4>7, JoinsHas
    <3> HIDE DEF child, last, m
    <3>8. PICK v \in Seq(Callbacks) : v = child \o last /\ \A e : Has(last, e) => Has(v, e)
      BY <3>4, <3>5, CallbacksBehind
    <3>9. /\ \A e : Has(q, e) => Has(q \o v, e)
          /\ \A e : Has(v, e) => Has(q \o v, e)
      BY <1>3, CallbacksBehind
    <3>10. mainQ'[c] = q \o v BY <3>1, <3>8
    <3> QED BY <3>1, <3>6, <3>7, <3>8, <3>9, <3>10
  <2> QED BY <2>1, <2>2
<1>7. CASE ReceiveRefusal(c)
  <2>1. CASE ListenPending(up[c], Tail(down[c]))
    BY <1>7, <2>1 DEF ReceiveRefusal, sdkVars, q
  <2>2. CASE ~ListenPending(up[c], Tail(down[c]))
    <3> DEFINE told == AckPutsEvents(c, {}, Nothing, FALSE)
               gone == Cancelled(c)
    <3>1. /\ writes'[c] = AckPuts(c, Len(held[c]))
          /\ mainQ'[c] = q \o gone \o told
      BY <1>0, <1>7, <2>2 DEF ReceiveRefusal, TypeOK, q
    <3>2. told \in Seq(Callbacks) /\ gone \in Seq(Callbacks) BY ReleaseTypes
    <3>3. Has(writes[c], set) => Has(AckPuts(c, Len(held[c])), set) \/ Has(told, written)
      BY <1>3, Released DEF set, written
    <3> HIDE DEF told, gone
    <3>4. PICK r \in Seq(Callbacks) : r = q \o gone /\ \A e : Has(q, e) => Has(r, e)
      BY <1>3, <3>2, CallbacksBehind
    <3>5. /\ \A e : Has(r, e) => Has(r \o told, e)
          /\ \A e : Has(told, e) => Has(r \o told, e)
      BY <3>2, CallbacksBehind
    <3> QED BY <3>1, <3>3, <3>4, <3>5
  <2> QED BY <2>1, <2>2
<1>8. CASE ReceiveRevocation(c)
  <2>1. writes'[c] = writes[c] /\ mainQ'[c] = q \o Cancelled(c)
    BY <1>0, <1>8 DEF ReceiveRevocation, TypeOK, q
  <2>2. PICK v \in Seq(Callbacks) : v = Cancelled(c) BY ReleaseTypes
  <2> QED BY <1>3, <2>1, <2>2, CallbacksBehind
<1> QED BY <1>4, <1>5, <1>6, <1>7, <1>8 DEF Receive

(* a write that is served, unless it is the update itself, leaves it; *)
LEMMA ServeUnderway ==
  ASSUME TypeInv, EveryWriteTracked, ~RejectsWrites, NEW c \in Clients, connected[c],
         NEW p \in Posts, Underway(c, p), Serve(c),
         server[p] = "created", server'[p] = "created"
  PROVE  Underway(c, p)'
<1> DEFINE r == Head(up[c])
           update == Write("update", p)
<1>0. TypeOK BY DEF TypeInv
<1>1. /\ up[c] # <<>> /\ up'[c] = Tail(up[c]) /\ connected'[c] = connected[c]
      /\ mainQ'[c] = mainQ[c] /\ repoQ'[c] = repoQ[c] /\ writes'[c] = writes[c]
  BY <1>0 DEF Serve, ServeListen, ServeUnlisten, ServeWrite, Request, TypeOK, sdkVars
<1>2. r # update
  <2>1. update.type = "update" /\ update.post = p BY WriteTypes
  <2>2. CASE ServeListen(c) \/ ServeUnlisten(c)
    BY <2>1, <2>2 DEF ServeListen, ServeUnlisten, Request
  <2>3. CASE ServeWrite(c)
    <3> SUFFICES ASSUME r = update PROVE FALSE OBVIOUS
    <3>1. server' = [server EXCEPT ![p] = Apply("update", server[p])]
      BY <1>0, <2>1, <2>3, ServeWriteDef
    <3>2. server'[p] = "stamped" BY <1>0, <3>1 DEF Apply, TypeOK, Boards
    <3> QED BY <3>2
  <2> QED BY <2>2, <2>3 DEF Serve
<1>3. \A e : Has(up[c], e) <=> r = e \/ Has(up'[c], e)
  BY <1>0, <1>1, HasInHead, QueueTypes
<1> HIDE DEF r, update
<1>4. Has(Outbox(c), update) => Has(Outbox(c)', update)
  BY <1>1, <1>2, <1>3 DEF Outbox
<1> QED BY <1>1, <1>4, UnderwayGrows DEF update

(* and a lost connection only puts back what has no response. *)
LEMMA ConnectionUnderway ==
  ASSUME TypeInv, EveryWriteTracked, NEW c \in Clients, NEW p \in Posts, Underway(c, p),
         RevokeListen(c) \/ Disconnect(c) \/ Reconnect(c)
  PROVE  Underway(c, p)'
<1> DEFINE update == Write("update", p)
<1>0. TypeOK BY DEF TypeInv
<1>1. /\ mainQ'[c] = mainQ[c] /\ repoQ'[c] = repoQ[c] /\ writes'[c] = writes[c]
      /\ held'[c] = held[c]
  BY DEF RevokeListen, Disconnect, Reconnect, Reconnected, sdkVars
<1>2. Unanswered(c)' = Unanswered(c) BY <1>1 DEF Unanswered
<1>3. Unanswered(c) \in Seq(LocalWrites) /\ up[c] \in Seq(Requests)
  BY <1>0, HeldAreOldest, QueueTypes
<1>4. update \in LocalWrites BY WriteTypes
<1> HIDE DEF update
<1>5. Has(Outbox(c), update) => Has(Outbox(c)', update)
  <2>1. CASE RevokeListen(c) BY <1>2, <2>1 DEF RevokeListen, Outbox
  <2>2. CASE Disconnect(c)
    <3>1. connected[c] /\ ~connected'[c] BY <1>0, <2>2 DEF Disconnect, TypeOK
    <3>2. Has(up[c], update) => Has(Requested(up[c]), update)
      BY <1>3, <1>4, RequestedHas
    <3>3. PICK D \in Seq(LocalWrites) : D = Answered(down[c]) BY <1>0, QueueTypes
    <3>4. PICK R \in Seq(LocalWrites) : R = Requested(up[c]) BY <1>0, QueueTypes
    <3>5. Unanswered(c) = D \o R BY <1>0, <3>1, <3>3, <3>4, HeldAreOldest
    <3>6. Has(D \o R, update) <=> Has(D, update) \/ Has(R, update) BY HasInConcat
    <3> QED BY <1>2, <3>1, <3>2, <3>4, <3>5, <3>6 DEF Outbox
  <2>3. CASE Reconnect(c)
    <3>1. ~connected[c] /\ connected'[c] /\ up'[c] = Relisten(c) \o Unanswered(c)
      BY <1>0, <2>3 DEF Reconnect, Reconnected, TypeOK
    <3>2. PICK L \in Seq(Requests) : L = Relisten(c)
      <4>1. [type |-> "listen"] \in Requests BY DEF Requests
      <4>2. <<[type |-> "listen"]>> \in Seq(Requests) /\ <<>> \in Seq(Requests) BY <4>1
      <4> QED BY <4>2 DEF Relisten
    <3>3. PICK U \in Seq(Requests) : U = Unanswered(c) BY <1>3, RequestedWrites
    <3>4. Has(L \o U, update) <=> Has(L, update) \/ Has(U, update) BY HasInConcat
    <3> QED BY <3>1, <3>2, <3>3, <3>4 DEF Outbox
  <2> QED BY <2>1, <2>2, <2>3
<1> QED BY <1>1, <1>5, UnderwayGrows DEF update

(* A creation performed is underway on the client it came from. *)
LEMMA CreatedUnderway ==
  ASSUME TypeInv, EveryWriteTracked, NEW c \in Clients, connected[c], NEW p \in Posts,
         ServeWrite(c), server[p] # "created", server'[p] = "created"
  PROVE  Underway(c, p)'
<1>0. TypeOK BY DEF TypeInv
<1>1. PICK w \in LocalWrites, ok \in BOOLEAN :
        /\ w = Head(up[c]) /\ up[c] # <<>>
        /\ server' = IF ok THEN [server EXCEPT ![w.post] = Apply(w.type, server[w.post])]
                     ELSE server
  BY <1>0, ServeWriteDef
<1>2. w = Write("set", p)
  <2>1. w.post = p /\ Apply(w.type, server[p]) = "created"
    BY <1>0, <1>1 DEF TypeOK, Boards
  <2>2. w.type = "set"
    <3>1. server[p] \in Records BY <1>0 DEF TypeOK, Boards
    <3> QED BY <2>1, <3>1 DEF Apply, LocalWrites, WriteOps, Records
  <2> QED BY <2>1, <2>2 DEF Write, LocalWrites
<1>3. up[c] \in Seq(Requests) /\ writes'[c] = writes[c]
  BY <1>0, QueueTypes DEF ServeWrite, sdkVars
<1>4. Has(up[c], w) BY <1>1, <1>3, HasInHead
<1>5. Has(Requested(up[c]), w) BY <1>3, <1>4, RequestedHas
<1>6. Joins(writes[c], Answered(held[c]), Answered(down[c]), Requested(up[c]))
  BY DEF EveryWriteTracked, Joins
<1>7. Has(writes[c], w) BY <1>0, <1>5, <1>6, JoinsHas, QueueTypes
<1> QED BY <1>2, <1>3, <1>7 DEF Underway

(* Only a write served changes the board. *)
LEMMA ServerChanges ==
  ASSUME [Next]_vars, NEW p, server'[p] # server[p]
  PROVE  \E c \in Clients : ServeWrite(c)
<1>1. CASE UNCHANGED vars BY <1>1 DEF vars
<1>2. ASSUME NEW c \in Clients, ~ServeWrite(c),
             \/ User(c) \/ MainThread(c) \/ RepoBlock(c) \/ Receive(c) \/ Serve(c)
             \/ RevokeListen(c) \/ Disconnect(c) \/ Reconnect(c) \/ Crash(c)
      PROVE  server' = server
  <2>1. CASE User(c) BY <2>1 DEF User, OpenTimeline, Logout, CreatePost, RemovePost
  <2>2. CASE MainThread(c)
    BY <2>2 DEF MainThread, PostsRetrieved, RetrievalFailed, PostAdded, PostRemoved,
                FeedEvent, PostWritten
  <2>3. CASE RepoBlock(c) BY <2>3 DEF RepoBlock, AddObserver, RemoveObserver, LocalWrite
  <2>4. CASE Receive(c)
    BY <2>4 DEF Receive, ReceivePush, ReceiveSnapshot, ReceiveAck, ReceiveRefusal,
                ReceiveRevocation
  <2>5. CASE Serve(c) BY <1>2, <2>5 DEF Serve, ServeListen, ServeUnlisten
  <2>6. CASE RevokeListen(c) \/ Disconnect(c) \/ Reconnect(c) \/ Crash(c)
    BY <2>6 DEF RevokeListen, Disconnect, Reconnect, Reconnected, Crash
  <2> QED BY <1>2, <2>1, <2>2, <2>3, <2>4, <2>5, <2>6
<1> QED BY <1>1, <1>2 DEF Next

(* Whatever record is created is underway until it is stamped or gone. *)
LEMMA AnnouncingStep ==
  ASSUME SyncInv, AllAccepted, Announcing, [Next]_vars
  PROVE  Announcing'
<1> SUFFICES ASSUME ~RejectsWrites, crashes' = 0, NEW p \in Posts, server'[p] = "created"
             PROVE  \E k \in Clients : Underway(k, p)'
  BY DEF Announcing
<1>0. TypeInv /\ TypeOK /\ EveryWriteTracked /\ crashes \in Nat
  BY SoundTracked, BoundsAssumption DEF SyncInv, TypeInv, TypeOK
<1>1. CASE server[p] # "created"
  <2>1. PICK c \in Clients : ServeWrite(c) BY <1>1, ServerChanges
  <2>2. up[c] # <<>> BY <2>1 DEF ServeWrite, Request
  <2>3. connected[c] BY <2>2 DEF SyncInv, Sound, Wire
  <2> QED BY <1>0, <1>1, <2>1, <2>3, CreatedUnderway
<1>2. CASE server[p] = "created"
  <2>1. CASE UNCHANGED vars
    <3>1. PICK k \in Clients : Underway(k, p)
      BY <1>2, <2>1 DEF Announcing, vars, envVars
    <3>2. Outbox(k)' = Outbox(k) BY <2>1, OutboxSame DEF vars, sdkVars
    <3>3. Underway(k, p)' BY <2>1, <3>1, <3>2 DEF Underway, vars, sdkVars
    <3> QED BY <3>3
  <2>2. ASSUME NEW c \in Clients,
               \/ User(c) \/ MainThread(c) \/ RepoBlock(c) \/ Receive(c) \/ Serve(c)
               \/ RevokeListen(c) \/ Disconnect(c) \/ Reconnect(c) \/ Crash(c)
        PROVE  \E k \in Clients : Underway(k, p)'
    <3>1. ~Crash(c) BY <1>0 DEF Crash
    <3>2. crashes = 0
      BY <1>0, <2>2, <3>1
         DEF User, OpenTimeline, Logout, CreatePost, RemovePost, MainThread,
             PostsRetrieved, RetrievalFailed, PostAdded, PostRemoved, FeedEvent,
             PostWritten, RepoBlock, AddObserver, RemoveObserver, LocalWrite, Receive,
             ReceivePush, ReceiveSnapshot, ReceiveAck, ReceiveRefusal,
             ReceiveRevocation, Serve, ServeListen, ServeUnlisten, ServeWrite,
             RevokeListen, Disconnect, Reconnect, Reconnected, envVars
    <3>3. PICK k \in Clients : Underway(k, p) BY <1>2, <3>2 DEF Announcing
    <3>4. CASE k # c BY <1>0, <2>2, <3>3, <3>4, UnderwayElsewhere
    <3>5. CASE k = c
      <4>1. up[c] # <<>> \/ down[c] # <<>> => connected[c] BY DEF SyncInv, Sound, Wire
      <4>2. CASE Receive(c)
        <5>1. down[c] # <<>>
          BY <4>2 DEF Receive, ReceivePush, ReceiveSnapshot, ReceiveAck,
                      ReceiveRefusal, ReceiveRevocation, Message
        <5> QED BY <1>0, <3>3, <3>5, <4>1, <4>2, <5>1, ReceiveUnderway
      <4>3. CASE Serve(c)
        <5>1. up[c] # <<>>
          BY <4>3 DEF Serve, ServeListen, ServeUnlisten, ServeWrite, Request
        <5> QED BY <1>0, <1>2, <3>3, <3>5, <4>1, <4>3, <5>1, ServeUnderway
      <4> QED BY <1>0, <2>2, <3>1, <3>3, <3>5, <4>2, <4>3, UserUnderway,
                 MainThreadUnderway, RepoBlockUnderway, ConnectionUnderway
    <3> QED BY <3>4, <3>5
  <2> QED BY <2>1, <2>2 DEF Next
<1> QED BY <1>1, <1>2

BoardInv == SyncInv /\ AllAccepted /\ Announcing

(* The invariant holds at first, *)
LEMMA BoardInit == Init => BoardInv
<1> SUFFICES ASSUME Init PROVE BoardInv OBVIOUS
<1>1. AllAccepted
  <2>1. <<>> \in Seq(Accepted) OBVIOUS
  <2> QED BY <2>1 DEF Init, AllAccepted
<1>2. Announcing BY DEF Init, Nothing, Announcing
<1> QED BY <1>1, <1>2, SyncInit DEF BoardInv

(* and it is inductive. *)
LEMMA BoardStep == BoardInv /\ [Next]_vars => BoardInv'
<1> SUFFICES ASSUME BoardInv, [Next]_vars PROVE BoardInv' OBVIOUS
<1>1. SyncInv' BY SyncStep DEF BoardInv
<1>2. AllAccepted' BY AcceptedStep DEF BoardInv, SyncInv, TypeInv
<1>3. Announcing' BY AnnouncingStep DEF BoardInv
<1> QED BY <1>1, <1>2, <1>3 DEF BoardInv

(* With all queues empty nothing is left to send or to hear. *)
LEMMA QuiescentView ==
  ASSUME SyncInv, Quiescent, NEW c \in Clients
  PROVE  /\ regs[c] # {} => Picture(c) = server
         /\ held[c] = <<>> => writes[c] = <<>> /\ Outbox(c) = <<>>
<1>0. TypeOK /\ Sound(c) BY DEF SyncInv, TypeInv
<1>1. connected[c] /\ up[c] = <<>> /\ down[c] = <<>> BY DEF Quiescent
<1>2. held[c] = <<>> => writes[c] = <<>>
  <2>1. Answered(<<>>) = <<>> /\ Requested(<<>>) = <<>>
    BY AnsweredEmpty, RequestedEmpty
  <2>2. <<>> \o <<>> \o <<>> = <<>>
    <3>1. <<>> \in Seq(LocalWrites) OBVIOUS
    <3> QED BY <3>1, ConcatEmptySeq
  <2> QED BY <1>0, <1>1, <2>1, <2>2 DEF Sound, Tracked, Joins
<1>3. ASSUME regs[c] # {} PROVE Picture(c) = server
  <2>1. ~ListenPending(up[c], down[c])
    <3>1. up[c] \in Seq(Requests) /\ down[c] \in Seq(Responses) BY <1>0, QueueTypes
    <3> QED BY <1>1, <3>1, PendingDef, HasInNone
  <2>2. complete[c] BY <1>0, <1>1, <1>3, <2>1 DEF Sound, Awaits
  <2>3. held[c] = <<>> BY <1>0, <1>1, <1>3, <2>1 DEF Sound, HeldFor
  <2>4. Delivered(<<>>, cache[c]) = server
    BY <1>0, <1>1, <1>3, HasInNone, FollowedIfNone DEF Sound, Synced
  <2>5. cache[c] \in Boards BY <1>0, QueueTypes
  <2>6. cache[c] = server BY <2>4, <2>5, DeliveredNothing
  <2> QED BY <1>2, <2>2, <2>3, <2>5, <2>6, BarePicture DEF Picture
<1>4. Outbox(c) = <<>> BY <1>1 DEF Outbox
<1> QED BY <1>2, <1>3, <1>4

(* so every picture is the board, and no creation is unannounced. *)
LEMMA BoardSettled == BoardInv => SettledBoard
<1> SUFFICES ASSUME BoardInv, Quiescent
             PROVE  /\ \A c \in Clients : regs[c] # {} => Picture(c) = server
                    /\ ~RejectsWrites /\ crashes = 0 /\ (\A c \in Clients : held[c] = <<>>)
                       => \A p \in Posts : server[p] # "created"
  BY DEF SettledBoard
<1>1. \A c \in Clients : regs[c] # {} => Picture(c) = server
  BY QuiescentView DEF BoardInv
<1>2. ASSUME ~RejectsWrites, crashes = 0, \A c \in Clients : held[c] = <<>>,
             NEW p \in Posts, server[p] = "created"
      PROVE  FALSE
  <2>1. PICK k \in Clients : Underway(k, p) BY <1>2 DEF BoardInv, Announcing
  <2>2. writes[k] = <<>> /\ Outbox(k) = <<>> BY <1>2, QuiescentView DEF BoardInv
  <2>3. mainQ[k] = <<>> /\ repoQ[k] = <<>> BY DEF Quiescent
  <2> QED BY <2>1, <2>2, <2>3, HasInNone DEF Underway
<1> QED BY <1>1, <1>2

(* When all queues are empty every view shows the server's board, for any  *)
(* number of clients and faults; and if the server refuses nothing, nobody *)
(* crashed and no answer is held back, no post is left unannounced         *)
(* (FirebaseTimelineService.swift:25-36).                                  *)
THEOREM BoardSettles == Spec => []SettledBoard
<1>1. Spec => []BoardInv
  <2>1. BoardInv /\ [Next]_vars => BoardInv' BY BoardStep
  <2> QED BY BoardInit, <2>1, PTL DEF Spec
<1> QED BY <1>1, BoardSettled, PTL
=============================================================================
