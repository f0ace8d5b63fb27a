------------------------------ MODULE AppProofs ------------------------------
(***************************************************************************)
(* Proofs about App, for every set of users, every empty text and all      *)
(* bounds.  First its screens by themselves.  Their inductive invariant    *)
(* says what the indicator buys: either nothing is pending, or exactly one *)
(* call or answer is, it belongs to the screen on top, that screen is      *)
(* covered and nothing is presented over it.  So no timeline is open while *)
(* Firebase may still change its current user.                             *)
(*                                                                         *)
(* The screens of the app behave as Screens says, so what is proved of     *)
(* Screens holds of the app; form and composer have inductive invariants   *)
(* of their own.                                                           *)
(***************************************************************************)
EXTENDS App, SequenceTheorems, FiniteSetTheorems, TLAPS

Callers == {"signIn", "createUser"}
ScreenOf(type) == IF type = "signIn" THEN "signIn" ELSE "createAccount"
StackOf(type) ==
  IF type = "signIn" THEN <<SignIn>> ELSE <<SignIn, CreateAccount>>

Idle == calls = {} /\ answers = <<>> /\ hud = [s \in Covered |-> 0]

(* One call of this type is with Auth, or its answer with the main queue.  *)
Pending(type) ==
  /\ stack = StackOf(type) /\ modal = "none"
  /\ hud = [s \in Covered |-> IF s = ScreenOf(type) THEN 1 ELSE 0]
  /\ \/ answers = <<>> /\ \E u \in Users : calls = {Call(type, u)}
     \/ /\ calls = {}
        /\ \E u \in Users, ok \in BOOLEAN :
             /\ answers = <<[type |-> type, user |-> u, ok |-> ok]>>
             /\ ok => currentUser = u

OneAtATime == Idle \/ \E type \in Callers : Pending(type)

(* TimelineOfCurrentUser, for the stacks there can be. *)
OpenForCurrentUser ==
  \A u \in Users : stack = <<SignIn, Timeline(u)>> => currentUser = u

(* Only an open timeline loads: its alert comes over no other screen. *)
LoadingIsOpen ==
  loading => \E u \in Users : stack = <<SignIn, Timeline(u)>>

IInv == TypeOK /\ OpenForCurrentUser /\ LoadingIsOpen /\ OneAtATime

-----------------------------------------------------------------------------
(* Popping one of two screens leaves the first. *)
LEMMA FirstOfTwo ==
  ASSUME NEW a, NEW b
  PROVE  SubSeq(<<a, b>>, 1, Len(<<a, b>>) - 1) = <<a>>
<1> DEFINE s == <<a, b>>
           t == SubSeq(s, 1, Len(s) - 1)
<1>1. s \in Seq({a, b}) /\ Len(s) = 2 /\ s[1] = a
  OBVIOUS
<1>2. t \in Seq({a, b}) /\ Len(t) = 1 /\ t[1] = a
  BY <1>1
<1>3. <<a>> \in Seq({a, b}) /\ Len(<<a>>) = 1 /\ <<a>>[1] = a
  OBVIOUS
<1>4. t = <<a>>
  <2> HIDE DEF t
  <2> QED
    BY <1>2, <1>3, SeqEqual
<1> QED
  BY <1>4

(* What the navigation stack can be, and what a pop leaves of it. *)
LEMMA StackShapes ==
  ASSUME TypeOK
  PROVE  /\ Pop => stack' = <<SignIn>>
         /\ Top.screen = "signIn" => stack = <<SignIn>>
         /\ Top.screen = "createAccount" => stack = <<SignIn, CreateAccount>>
         /\ Top.screen = "timeline" =>
              \E u \in Users : stack = <<SignIn, Timeline(u)>>
<1>1. CASE stack = <<SignIn>>
  <2>1. Len(stack) = 1 /\ Top = SignIn
    BY <1>1 DEF Top
  <2>2. Pop => stack' = <<SignIn>>
    BY <1>1, <2>1 DEF Pop
  <2> QED
    BY <1>1, <2>1, <2>2 DEF SignIn, Screen
<1>2. ASSUME NEW top, stack = <<SignIn, top>>
      PROVE  Top = top /\ (Pop => stack' = <<SignIn>>)
  <2>1. Len(stack) = 2 /\ stack[2] = top
    BY <1>2
  <2>2. Pop => stack' = SubSeq(stack, 1, Len(stack) - 1)
    BY <2>1 DEF Pop
  <2> QED
    BY <1>2, <2>1, <2>2, FirstOfTwo DEF Top
<1>3. CASE stack = <<SignIn, CreateAccount>>
  <2>1. Top = CreateAccount /\ (Pop => stack' = <<SignIn>>)
    BY <1>2, <1>3
  <2> QED
    BY <1>3, <2>1 DEF CreateAccount, Screen
<1>4. CASE \E u \in Users : stack = <<SignIn, Timeline(u)>>
  <2>1. PICK u \in Users : stack = <<SignIn, Timeline(u)>>
    BY <1>4
  <2>2. Top = Timeline(u) /\ (Pop => stack' = <<SignIn>>)
    BY <1>2, <2>1
  <2> QED
    BY <2>1, <2>2 DEF Timeline, Screen
<1> QED
  BY <1>1, <1>3, <1>4 DEF TypeOK

(* Sequences of one element, and a push onto one. *)
LEMMA OneElement ==
  ASSUME NEW a, NEW b
  PROVE  /\ Head(<<a>>) = a /\ Tail(<<a>>) = <<>>
         /\ Append(<<>>, a) = <<a>> /\ Append(<<a>>, b) = <<a, b>>
         /\ <<a>> # <<>>
<1>1. <<a>> \in Seq({a, b}) /\ Len(<<a>>) = 1 /\ <<a>>[1] = a
  OBVIOUS
<1>2. Head(<<a>>) = a /\ <<a>> # <<>>
  BY <1>1
<1>3. Tail(<<a>>) = <<>>
  <2>1. Tail(<<a>>) \in Seq({a, b}) /\ Len(Tail(<<a>>)) = 0
    BY <1>1, <1>2, HeadTailProperties
  <2> QED
    BY <2>1, EmptySeq
<1>4. Append(<<>>, a) = <<a>>
  <2>1. <<>> \in Seq({a, b}) /\ Len(<<>>) = 0
    BY EmptySeq
  <2> DEFINE t == Append(<<>>, a)
  <2>2. t \in Seq({a, b}) /\ Len(t) = 1 /\ t[1] = a
    BY <2>1, AppendProperties
  <2> HIDE DEF t
  <2>3. t = <<a>>
    BY <1>1, <2>2, SeqEqual
  <2> QED
    BY <2>3 DEF t
<1>5. Append(<<a>>, b) = <<a, b>>
  <2>1. <<a, b>> \in Seq({a, b}) /\ Len(<<a, b>>) = 2
        /\ <<a, b>>[1] = a /\ <<a, b>>[2] = b
    OBVIOUS
  <2> DEFINE t == Append(<<a>>, b)
  <2>2. t \in Seq({a, b}) /\ Len(t) = 2 /\ t[1] = a /\ t[2] = b
    BY <1>1, AppendProperties
  <2> HIDE DEF t
  <2>3. t = <<a, b>>
    BY <2>1, <2>2, SeqEqual
  <2> QED
    BY <2>3 DEF t
<1> QED
  BY <1>2, <1>3, <1>4, <1>5

(* The three kinds of stack differ. *)
LEMMA StacksDiffer ==
  ASSUME NEW u, NEW v
  PROVE  /\ <<SignIn>> # <<SignIn, CreateAccount>>
         /\ <<SignIn>> # <<SignIn, Timeline(u)>>
         /\ <<SignIn, CreateAccount>> # <<SignIn, Timeline(u)>>
         /\ <<SignIn, Timeline(u)>> = <<SignIn, Timeline(v)>> => u = v
<1>1. CreateAccount # Timeline(u) /\ (Timeline(u) = Timeline(v) => u = v)
  BY DEF CreateAccount, Timeline, Screen
<1> QED
  BY <1>1

(* The open timeline is the current user's. *)
LEMMA OpenTimeline ==
  ASSUME TypeOK, OpenForCurrentUser
  PROVE  TimelineOfCurrentUser
<1>1. CASE stack = <<SignIn>>
  BY <1>1 DEF TimelineOfCurrentUser, SignIn, Screen
<1>2. CASE stack = <<SignIn, CreateAccount>>
  BY <1>2 DEF TimelineOfCurrentUser, SignIn, CreateAccount, Screen
<1>3. ASSUME NEW u \in Users, stack = <<SignIn, Timeline(u)>>
      PROVE  TimelineOfCurrentUser
  <2>1. currentUser = u
    BY <1>3 DEF OpenForCurrentUser
  <2>2. \A i \in DOMAIN stack :
          stack[i].screen = "timeline" => stack[i].user = u
    BY <1>3 DEF SignIn, Timeline, Screen
  <2> QED
    BY <2>1, <2>2 DEF TimelineOfCurrentUser
<1> QED
  BY <1>1, <1>2, <1>3 DEF TypeOK

LEMMA InitIInv == Init => IInv
<1> SUFFICES ASSUME Init PROVE IInv
  OBVIOUS
<1>1. TypeOK
  <2>1. answers \in Seq([type : CallTypes, user : Users, ok : BOOLEAN])
    BY DEF Init
  <2>2. hud \in [Covered -> Nat] /\ waiting \in 0 .. MaxTaps
    BY MaxTapsAssumption DEF Init
  <2> QED
    BY <2>1, <2>2 DEF Init, TypeOK, Names
<1>2. OpenForCurrentUser /\ LoadingIsOpen
  BY StacksDiffer DEF Init, OpenForCurrentUser, LoadingIsOpen
<1>3. Idle
  BY DEF Init, Idle
<1> QED
  BY <1>1, <1>2, <1>3 DEF IInv, OneAtATime

-----------------------------------------------------------------------------
(* A tap reaches a screen only while nothing is pending. *)
LEMMA TapMeansIdle ==
  ASSUME IInv, NEW s \in {"signIn", "createAccount", "timeline"}, Touchable(s)
  PROVE  Idle
<1>1. ASSUME Pending("signIn") PROVE FALSE
  <2>1. Top = SignIn /\ hud["signIn"] = 1
    BY <1>1 DEF Pending, StackOf, Top, ScreenOf, Covered
  <2> QED
    BY <2>1 DEF Touchable, SignIn, Screen, Covered
<1>2. ASSUME Pending("createUser") PROVE FALSE
  <2>1. Top = CreateAccount /\ hud["createAccount"] = 1
    BY <1>2 DEF Pending, StackOf, Top, ScreenOf, Covered
  <2> QED
    BY <2>1 DEF Touchable, CreateAccount, Screen, Covered
<1> QED
  BY <1>1, <1>2 DEF IInv, OneAtATime, Callers

(* The indicator of one screen. *)
HudOn(s) == [r \in Covered |-> IF r = s THEN 1 ELSE 0]
HudOff == [r \in Covered |-> 0]

LEMMA Covering ==
  ASSUME NEW s \in Covered, hud = HudOff, ShowHUD(s)
  PROVE  hud' = HudOn(s)
<1>1. hud' = [HudOff EXCEPT ![s] = @ + 1]
  BY DEF ShowHUD
<1>2. [HudOff EXCEPT ![s] = @ + 1] =
        [r \in Covered |-> IF r = s THEN HudOff[s] + 1 ELSE HudOff[r]]
  BY DEF HudOff
<1>3. \A r \in Covered : HudOff[r] = 0
  BY DEF HudOff
<1> QED
  BY <1>1, <1>2, <1>3 DEF HudOn

LEMMA Uncovering ==
  ASSUME NEW s \in Covered, hud = HudOn(s), HideHUD(s)
  PROVE  hud' = HudOff
<1>1. hud' = [r \in Covered |->
                IF r = s THEN IF hud[s] > 0 THEN hud[s] - 1 ELSE 0 ELSE hud[r]]
  BY DEF HideHUD, HudOn
<1>2. hud[s] = 1 /\ \A r \in Covered : r # s => hud[r] = 0
  BY DEF HudOn
<1> QED
  BY <1>1, <1>2 DEF HudOff

(* Making a call covers the screen. *)
LEMMA CallIInv ==
  ASSUME IInv, NEW u \in Users, LoginPressed(u) \/ CreatePressed(u)
  PROVE  IInv'
<1>1. CASE LoginPressed(u)
  <2>1. Idle /\ stack = <<SignIn>>
    BY <1>1, TapMeansIdle, StackShapes DEF LoginPressed, Touchable, IInv
  <2>2. hud' = [s \in Covered |-> IF s = "signIn" THEN 1 ELSE 0]
    BY <1>1, <2>1, Covering DEF LoginPressed, Idle, Covered, HudOn, HudOff
  <2>3. calls' = {Call("signIn", u)} /\ answers' = <<>> /\ modal' = "none"
        /\ UNCHANGED <<stack, loading, waiting, currentUser, accounts>>
    BY <1>1, <2>1 DEF LoginPressed, Idle, Touchable
  <2>4. Pending("signIn")'
    BY <2>1, <2>2, <2>3 DEF Pending, StackOf, ScreenOf
  <2>5. TypeOK'
    <3>1. calls' \subseteq [type : CallTypes, user : Users]
      BY <2>3 DEF Call, CallTypes
    <3>2. hud' \in [Covered -> Nat]
      BY <2>2
    <3>3. answers' = answers
      BY <1>1 DEF LoginPressed
    <3> QED
      BY <2>3, <3>1, <3>2, <3>3 DEF IInv, TypeOK
  <2> QED
    BY <2>3, <2>4, <2>5
    DEF IInv, OneAtATime, Callers, OpenForCurrentUser, LoadingIsOpen
<1>2. CASE CreatePressed(u)
  <2>1. Idle /\ stack = <<SignIn, CreateAccount>>
    BY <1>2, TapMeansIdle, StackShapes DEF CreatePressed, Touchable, IInv
  <2>2. hud' = [s \in Covered |-> IF s = "createAccount" THEN 1 ELSE 0]
    BY <1>2, <2>1, Covering DEF CreatePressed, Idle, Covered, HudOn, HudOff
  <2>3. calls' = {Call("createUser", u)} /\ answers' = <<>> /\ modal' = "none"
        /\ UNCHANGED <<stack, loading, waiting, currentUser, accounts>>
    BY <1>2, <2>1 DEF CreatePressed, Idle, Touchable
  <2>4. Pending("createUser")'
    BY <2>1, <2>2, <2>3 DEF Pending, StackOf, ScreenOf
  <2>5. TypeOK'
    <3>1. calls' \subseteq [type : CallTypes, user : Users]
      BY <2>3 DEF Call, CallTypes
    <3>2. hud' \in [Covered -> Nat]
      BY <2>2
    <3>3. answers' = answers
      BY <1>2 DEF CreatePressed
    <3> QED
      BY <2>3, <3>1, <3>2, <3>3 DEF IInv, TypeOK
  <2> QED
    BY <2>3, <2>4, <2>5
    DEF IInv, OneAtATime, Callers, OpenForCurrentUser, LoadingIsOpen
<1> QED
  BY <1>1, <1>2

(* The answer at the head of the queue belongs to the one pending call. *)
LEMMA AnswerPending ==
  ASSUME IInv, NEW type \in Callers, Answered(type)
  PROVE  /\ Pending(type) /\ calls = {} /\ Tail(answers) = <<>>
         /\ Head(answers).user \in Users
         /\ Head(answers).ok => currentUser = Head(answers).user
<1>1. ~Idle
  BY DEF Answered, Idle
<1>2. PICK t \in Callers : Pending(t)
  BY <1>1 DEF IInv, OneAtATime
<1>3. PICK u \in Users, ok \in BOOLEAN :
        /\ answers = <<[type |-> t, user |-> u, ok |-> ok]>>
        /\ ok => currentUser = u
  BY <1>2 DEF Pending, Answered
<1>4. /\ Head(answers) = [type |-> t, user |-> u, ok |-> ok]
      /\ Tail(answers) = <<>>
  BY <1>3, OneElement
<1>5. t = type
  BY <1>4 DEF Answered
<1>6. calls = {}
  BY <1>2 DEF Pending, Answered
<1> QED
  BY <1>2, <1>3, <1>4, <1>5, <1>6

(* An answer uncovers the screen and leaves nothing pending. *)
LEMMA AnswerIInv ==
  ASSUME IInv, MainQueue
  PROVE  IInv'
<1> DEFINE u == Head(answers).user
<1>0. \A v \in Users : <<SignIn, CreateAccount>> # <<SignIn, Timeline(v)>>
  BY StacksDiffer
<1>1. CASE LoginSucceeded \/ LoginFailed
  <2>1. /\ stack = <<SignIn>> /\ calls = {} /\ Tail(answers) = <<>>
        /\ hud = [s \in Covered |-> IF s = "signIn" THEN 1 ELSE 0]
        /\ u \in Users /\ (Head(answers).ok => currentUser = u)
    BY <1>1, AnswerPending
    DEF LoginSucceeded, LoginFailed, Callers, Pending, StackOf, ScreenOf
  <2>2. Idle'
    <3>1. hud = HudOn("signIn") /\ HideHUD("signIn") /\ "signIn" \in Covered
      BY <1>1, <2>1 DEF LoginSucceeded, LoginFailed, HudOn, Covered
    <3>2. hud' = HudOff
      BY <3>1, Uncovering
    <3> QED
      BY <1>1, <2>1, <3>2 DEF LoginSucceeded, LoginFailed, Idle, HudOff
  <2>3. hud' \in [Covered -> Nat] /\ answers' \in Seq([type : CallTypes,
                                       user : Users, ok : BOOLEAN])
    BY <2>2 DEF Idle
  <2>4. CASE LoginSucceeded
    <3>1. stack' = <<SignIn, Timeline(u)>>
      BY <2>1, <2>4, OneElement DEF LoginSucceeded, Push
    <3>2. TypeOK'
      BY <2>1, <2>3, <2>4, <3>1 DEF LoginSucceeded, IInv, TypeOK
    <3>3. OpenForCurrentUser' /\ LoadingIsOpen'
      BY <2>1, <2>4, <3>1, StacksDiffer
      DEF LoginSucceeded, OpenForCurrentUser, LoadingIsOpen
    <3> QED
      BY <2>2, <3>2, <3>3 DEF IInv, OneAtATime
  <2>5. CASE LoginFailed
    <3>1. modal' \in {"none", "alert", "composer"}
      BY <2>5 DEF LoginFailed, DisplayAlert, IInv, TypeOK
    <3>2. TypeOK'
      BY <2>3, <2>5, <3>1 DEF LoginFailed, IInv, TypeOK
    <3>3. OpenForCurrentUser' /\ LoadingIsOpen'
      BY <2>5 DEF LoginFailed, IInv, OpenForCurrentUser, LoadingIsOpen
    <3> QED
      BY <2>2, <3>2, <3>3 DEF IInv, OneAtATime
  <2> QED
    BY <1>1, <2>4, <2>5
<1>2. CASE AccountCreated \/ AccountFailed
  <2>1. /\ stack = <<SignIn, CreateAccount>> /\ calls = {}
        /\ Tail(answers) = <<>> /\ ~loading
        /\ hud = [s \in Covered |-> IF s = "createAccount" THEN 1 ELSE 0]
    BY <1>0, <1>2, AnswerPending
    DEF AccountCreated, AccountFailed, Callers, Pending, StackOf, ScreenOf,
        IInv, LoadingIsOpen
  <2>2. Creating
    BY <2>1 DEF Creating
  <2>3. Idle'
    <3>1. /\ hud = HudOn("createAccount") /\ HideHUD("createAccount")
          /\ "createAccount" \in Covered
      BY <1>2, <2>1, <2>2 DEF AccountCreated, AccountFailed, HudOn, Covered
    <3>2. hud' = HudOff
      BY <3>1, Uncovering
    <3> QED
      BY <1>2, <2>1, <3>2 DEF AccountCreated, AccountFailed, Idle, HudOff
  <2>4. hud' \in [Covered -> Nat] /\ answers' \in Seq([type : CallTypes,
                                       user : Users, ok : BOOLEAN])
    BY <2>3 DEF Idle
  <2>5. stack' \in {<<SignIn>>, <<SignIn, CreateAccount>>}
    BY <1>2, <2>1, <2>2, StackShapes DEF AccountCreated, AccountFailed, IInv
  <2>6. modal' \in {"none", "alert", "composer"}
    BY <1>2, <2>2
    DEF AccountCreated, AccountFailed, DisplayAlert, IInv, TypeOK
  <2>7. TypeOK'
    BY <1>2, <2>4, <2>5, <2>6 DEF AccountCreated, AccountFailed, IInv, TypeOK
  <2>8. OpenForCurrentUser' /\ LoadingIsOpen'
    BY <1>2, <2>1, <2>5, StacksDiffer
    DEF AccountCreated, AccountFailed, OpenForCurrentUser, LoadingIsOpen
  <2> QED
    BY <2>3, <2>7, <2>8 DEF IInv, OneAtATime
<1> QED
  BY <1>1, <1>2 DEF MainQueue

(* Auth's queue turns the one call into the one answer.  No timeline is    *)
(* open then, so that the current user may change.                         *)
LEMMA AuthIInv ==
  ASSUME IInv, Auth
  PROVE  IInv'
<1>1. PICK call \in calls : CallSucceeds(call) \/ CallFails(call)
  BY DEF Auth
<1>2. PICK type \in Callers : Pending(type)
  BY <1>1 DEF IInv, OneAtATime, Idle
<1>3. PICK u \in Users : calls = {Call(type, u)}
  BY <1>1, <1>2 DEF Pending
<1>4. /\ answers = <<>> /\ call = Call(type, u)
      /\ call.user = u /\ call.type = type
  BY <1>1, <1>2, <1>3 DEF Pending, Call
<1>5. \A v \in Users : stack # <<SignIn, Timeline(v)>>
  BY <1>2, StacksDiffer DEF Pending, StackOf
<1>6. /\ UNCHANGED screenVars /\ calls' = {}
      /\ \E ok \in BOOLEAN :
           /\ answers' = <<[type |-> type, user |-> u, ok |-> ok]>>
           /\ ok => currentUser' = u
  <2>1. CASE CallSucceeds(call)
    <3>1. answers' = <<[type |-> type, user |-> u, ok |-> TRUE]>>
      BY <1>4, <2>1, OneElement DEF CallSucceeds, Answer
    <3> QED
      BY <1>3, <1>4, <2>1, <3>1 DEF CallSucceeds, Answer
  <2>2. CASE CallFails(call)
    <3>1. answers' = <<[type |-> type, user |-> u, ok |-> FALSE]>>
      BY <1>4, <2>2, OneElement DEF CallFails, Answer
    <3> QED
      BY <1>3, <1>4, <2>2, <3>1 DEF CallFails, Answer
  <2> QED
    BY <1>1, <2>1, <2>2
<1>7. Pending(type)'
  BY <1>2, <1>6 DEF Pending, screenVars
<1>8. TypeOK'
  <2>1. answers' \in Seq([type : CallTypes, user : Users, ok : BOOLEAN])
    <3>1. PICK ok \in BOOLEAN :
            answers' = <<[type |-> type, user |-> u, ok |-> ok]>>
      BY <1>6
    <3>2. type \in CallTypes
      BY DEF Callers, CallTypes
    <3> QED
      BY <3>1, <3>2
  <2>2. accounts' \subseteq Users /\ currentUser' \in Names
    BY <1>1, <1>4 DEF CallSucceeds, CallFails, IInv, TypeOK, Names
  <2> QED
    BY <1>6, <2>1, <2>2 DEF IInv, TypeOK, screenVars
<1> QED
  BY <1>5, <1>6, <1>7, <1>8
  DEF IInv, OneAtATime, OpenForCurrentUser, LoadingIsOpen, screenVars

(* Steps on the navigation stack, while nothing is pending. *)
LEMMA NavigationIInv ==
  ASSUME IInv, CreateAccountPressed \/ Back \/ LogoutPressed
  PROVE  IInv'
<1>1. Idle
  BY TapMeansIdle DEF CreateAccountPressed, Back, LogoutPressed
<1>2. Idle'
  BY <1>1 DEF CreateAccountPressed, Back, LogoutPressed, Idle, authVars
<1>3. /\ stack' \in {<<SignIn>>, <<SignIn, CreateAccount>>}
      /\ ~loading' /\ currentUser' \in Names
  <2>1. CASE CreateAccountPressed
    <3>1. stack = <<SignIn>>
      BY <2>1, StackShapes DEF CreateAccountPressed, Touchable, IInv
    <3> QED
      BY <2>1, <3>1, OneElement, StacksDiffer
      DEF CreateAccountPressed, Push, IInv, LoadingIsOpen, TypeOK, authVars
  <2>2. CASE Back
    <3>1. stack = <<SignIn, CreateAccount>> /\ stack' = <<SignIn>>
      BY <2>2, StackShapes DEF Back, Touchable, IInv
    <3> QED
      BY <2>2, <3>1, StacksDiffer
      DEF Back, IInv, LoadingIsOpen, TypeOK, authVars
  <2>3. CASE LogoutPressed
    BY <2>3, StackShapes DEF LogoutPressed, IInv, Names
  <2> QED
    BY <2>1, <2>2, <2>3
<1>4. TypeOK'
  BY <1>3
  DEF CreateAccountPressed, Back, LogoutPressed, IInv, TypeOK, authVars
<1>5. OpenForCurrentUser' /\ LoadingIsOpen'
  BY <1>3, StacksDiffer DEF OpenForCurrentUser, LoadingIsOpen
<1> QED
  BY <1>2, <1>4, <1>5 DEF IInv, OneAtATime

(* Steps that leave the stack and Auth alone: an alert or the composer     *)
(* comes or goes only while nothing is pending.                            *)
ModalStep ==
  \/ DismissAlert \/ LogoutFailed \/ NewPostPressed \/ PostPressed
  \/ CancelPressed \/ Database

LEMMA ModalIInv ==
  ASSUME IInv, ModalStep
  PROVE  IInv'
<1> USE DEF ModalStep, Database
<1>1. UNCHANGED <<stack, hud, authVars>> /\ (loading' => loading)
  BY DEF DismissAlert, LogoutFailed, NewPostPressed, PostPressed,
         CancelPressed, PostsRetrieved, RetrievalFailed, PostCompleted,
         PostFailed
<1>2. Idle
  <2>1. CASE LogoutFailed \/ NewPostPressed
    BY <2>1, TapMeansIdle DEF LogoutFailed, NewPostPressed
  <2>2. CASE PostsRetrieved \/ RetrievalFailed
    <3>1. loading
      BY <2>2 DEF PostsRetrieved, RetrievalFailed
    <3>2. \A type \in Callers : ~Pending(type)
      BY <3>1, StacksDiffer DEF IInv, LoadingIsOpen, Pending, StackOf
    <3> QED
      BY <3>2 DEF IInv, OneAtATime
  <2>3. CASE modal # "none"
    BY <2>3 DEF IInv, OneAtATime, Pending
  <2> QED
    BY <2>1, <2>2, <2>3
    DEF DismissAlert, PostPressed, CancelPressed, PostCompleted, PostFailed
<1>3. Idle'
  BY <1>1, <1>2 DEF Idle, authVars
<1>4. modal' \in {"none", "alert", "composer"} /\ loading' \in BOOLEAN
  BY DEF DismissAlert, LogoutFailed, NewPostPressed, PostPressed,
         CancelPressed, PostsRetrieved, RetrievalFailed, PostCompleted,
         PostFailed, DisplayAlert, IInv, TypeOK
<1>5. waiting' \in 0 .. MaxTaps
  <2>1. waiting \in 0 .. MaxTaps
    BY DEF IInv, TypeOK
  <2> QED
    BY <2>1, MaxTapsAssumption
    DEF DismissAlert, LogoutFailed, NewPostPressed, PostPressed,
        CancelPressed, PostsRetrieved, RetrievalFailed, PostCompleted,
        PostFailed
<1>6. TypeOK'
  BY <1>1, <1>4, <1>5 DEF IInv, TypeOK, authVars
<1>7. OpenForCurrentUser' /\ LoadingIsOpen'
  BY <1>1 DEF IInv, OpenForCurrentUser, LoadingIsOpen, authVars
<1> QED
  BY <1>3, <1>6, <1>7 DEF IInv, OneAtATime

LEMMA RelaunchIInv ==
  ASSUME IInv, Relaunch
  PROVE  IInv'
<1>1. Idle'
  BY DEF Relaunch, Idle
<1>2. TypeOK'
  <2>1. answers' \in Seq([type : CallTypes, user : Users, ok : BOOLEAN])
    BY DEF Relaunch
  <2>2. hud' \in [Covered -> Nat] /\ waiting' \in 0 .. MaxTaps
    BY MaxTapsAssumption DEF Relaunch
  <2> QED
    BY <2>1, <2>2 DEF Relaunch, IInv, TypeOK
<1>3. OpenForCurrentUser' /\ LoadingIsOpen'
  BY StacksDiffer DEF Relaunch, OpenForCurrentUser, LoadingIsOpen
<1> QED
  BY <1>1, <1>2, <1>3 DEF IInv, OneAtATime

LEMMA StutterIInv ==
  ASSUME IInv, UNCHANGED vars
  PROVE  IInv'
BY DEF IInv, vars, screenVars, authVars, TypeOK, OpenForCurrentUser,
       LoadingIsOpen, OneAtATime, Idle, Pending

LEMMA NextIInv == IInv /\ [Next]_vars => IInv'
BY CallIInv, AnswerIInv, AuthIInv, NavigationIInv, ModalIInv, RelaunchIInv,
   StutterIInv
DEF Next, User, ModalStep

LEMMA IInvInvariant == Spec => []IInv
BY InitIInv, NextIInv, PTL DEF Spec

-----------------------------------------------------------------------------
(* The screens' state keeps its type: in particular there are never two    *)
(* timelines, and a pop never takes the wrong screen.                      *)
THEOREM ScreensTypeCorrect == Spec => []TypeOK
<1>1. IInv => TypeOK
  BY DEF IInv
<1> QED
  BY IInvInvariant, <1>1, PTL

(* The open timeline is for the user Firebase has signed in, whatever is   *)
(* tapped and whenever Auth answers.                                       *)
THEOREM TimelineAlwaysOfCurrentUser == Spec => []TimelineOfCurrentUser
<1>1. IInv => TimelineOfCurrentUser
  BY OpenTimeline DEF IInv
<1> QED
  BY IInvInvariant, <1>1, PTL

(* No failed sign-in or account creation goes unreported. *)
THEOREM FailureAlwaysShown == Spec => FailureIsShown
<1>1. IInv /\ [Next]_vars =>
        [LoginFailed \/ AccountFailed =>
           modal = "none" /\ modal' = "alert"]_vars
  <2> SUFFICES ASSUME IInv, LoginFailed \/ AccountFailed
               PROVE  modal = "none" /\ modal' = "alert"
    OBVIOUS
  <2>1. PICK type \in Callers : Answered(type) /\ Pending(type)
    BY AnswerPending DEF LoginFailed, AccountFailed, Callers
  <2>2. modal = "none"
    BY <2>1 DEF Pending
  <2>3. AccountFailed => stack = <<SignIn, CreateAccount>>
    BY AnswerPending DEF AccountFailed, Callers, Pending, StackOf
  <2>4. AccountFailed => Creating
    BY <2>3 DEF Creating
  <2> QED
    BY <2>2, <2>4 DEF LoginFailed, AccountFailed, DisplayAlert
<1> QED
  BY IInvInvariant, <1>1, PTL DEF Spec, FailureIsShown

-----------------------------------------------------------------------------
(* Every step of the app is one of its screens, or leaves them alone: form *)
(* and composer only hold taps back.                                       *)
THEOREM AppImplementsScreens == AppSpec => Spec
<1>1. AppInit => Init
  BY DEF AppInit
<1>2. [AppNext]_appVars => [Next]_vars
  <2> SUFFICES ASSUME [AppNext]_appVars PROVE [Next]_vars
    OBVIOUS
  <2>1. UNCHANGED appVars => UNCHANGED vars
    BY DEF appVars
  <2>2. Elsewhere => Next
    BY DEF Elsewhere, Next, User
  <2>3. OpenForm => Next
    BY DEF OpenForm, Next, User
  <2>4. ASSUME NEW u \in Users, Create(u) PROVE Next
    BY <2>4 DEF Create, Next, User
  <2>5. Type \/ Tell \/ Write \/ PassOn => UNCHANGED vars
    BY DEF Type, Tell, Write, PassOn
  <2>6. Compose \/ Post => Next
    BY DEF Compose, Post, Next, User
  <2>7. Answers \/ AuthQueue \/ Restart => Next
    BY DEF Answers, AuthQueue, Restart, Next
  <2> QED
    BY <2>1, <2>2, <2>3, <2>4, <2>5, <2>6, <2>7 DEF AppNext
<1> QED
  BY <1>1, <1>2, PTL DEF AppSpec, Spec

(* A listed call or answer counts once. *)
LEMMA CountedOnce ==
  ASSUME NEW type \in Callers, Pending(type), TypeOK
  PROVE  CoveredWhilePending
<1> DEFINE TypeOf(s) == IF s = "signIn" THEN "signIn" ELSE "createUser"
           Calls(s) == {c \in calls : c.type = TypeOf(s)}
           Answers_(s) == {i \in DOMAIN answers : answers[i].type = TypeOf(s)}
<1> SUFFICES ASSUME NEW s \in Covered
             PROVE  hud[s] = Cardinality(Calls(s)) + Cardinality(Answers_(s))
  BY DEF CoveredWhilePending
<1>1. hud[s] = IF TypeOf(s) = type THEN 1 ELSE 0
  BY DEF Pending, Covered, Callers, ScreenOf
<1>2. Cardinality({}) = 0 /\ Cardinality({1}) = 1
  BY FS_EmptySet, FS_Singleton
<1>3. CASE answers = <<>>
  <2>1. PICK u \in Users : calls = {Call(type, u)}
    BY <1>3 DEF Pending
  <2>2. Calls(s) = IF TypeOf(s) = type THEN {Call(type, u)} ELSE {}
    BY <2>1 DEF Call
  <2>3. Answers_(s) = {}
    BY <1>3
  <2>4. Cardinality({Call(type, u)}) = 1
    BY FS_Singleton
  <2>5. CASE TypeOf(s) = type
    <3> HIDE DEF Calls, Answers_, TypeOf
    <3> QED
      BY <1>1, <1>2, <2>2, <2>3, <2>4, <2>5
  <2>6. CASE TypeOf(s) # type
    <3> HIDE DEF Calls, Answers_, TypeOf
    <3> QED
      BY <1>1, <1>2, <2>2, <2>3, <2>6
  <2> QED
    BY <2>5, <2>6
<1>4. CASE answers # <<>>
  <2>1. PICK u \in Users, ok \in BOOLEAN :
          answers = <<[type |-> type, user |-> u, ok |-> ok]>>
    BY <1>4 DEF Pending
  <2>2. Calls(s) = {}
    BY <1>4 DEF Pending
  <2>3. Answers_(s) = IF TypeOf(s) = type THEN {1} ELSE {}
    BY <2>1
  <2>4. CASE TypeOf(s) = type
    <3> HIDE DEF Calls, Answers_, TypeOf
    <3> QED
      BY <1>1, <1>2, <2>2, <2>3, <2>4
  <2>5. CASE TypeOf(s) # type
    <3> HIDE DEF Calls, Answers_, TypeOf
    <3> QED
      BY <1>1, <1>2, <2>2, <2>3, <2>5
  <2> QED
    BY <2>4, <2>5
<1> QED
  BY <1>3, <1>4

(* A screen is covered exactly while an answer to it is outstanding. *)
THEOREM ScreensCovered == Spec => []CoveredWhilePending
<1>1. IInv => CoveredWhilePending
  <2> SUFFICES ASSUME IInv PROVE CoveredWhilePending
    OBVIOUS
  <2>1. CASE Idle
    <3> SUFFICES ASSUME NEW s \in Covered,
                        NEW type
                 PROVE  hud[s] = Cardinality({c \in calls : c.type = type})
                          + Cardinality({i \in DOMAIN answers : answers[i].type = type})
      BY DEF CoveredWhilePending
    <3>1. {c \in calls : c.type = type} = {}
          /\ {i \in DOMAIN answers : answers[i].type = type} = {}
      BY <2>1 DEF Idle
    <3>2. hud[s] = 0
      BY <2>1 DEF Idle
    <3> QED
      BY <3>1, <3>2, FS_EmptySet
  <2>2. ASSUME NEW type \in Callers, Pending(type) PROVE CoveredWhilePending
    BY <2>2, CountedOnce DEF IInv
  <2> QED
    BY <2>1, <2>2 DEF IInv, OneAtATime
<1> QED
  BY IInvInvariant, <1>1, PTL

-----------------------------------------------------------------------------
(* What is proved of Screens, for the app. *)

(* The state of screens and Auth has its type in the app. *)
THEOREM AppTypeCorrect == AppSpec => []TypeOK
  BY AppImplementsScreens, ScreensTypeCorrect, PTL

(* The open timeline is the signed-in user's, whatever is typed and tapped.*)
THEOREM AppTimelineOfCurrentUser == AppSpec => []TimelineOfCurrentUser
  BY AppImplementsScreens, TimelineAlwaysOfCurrentUser, PTL

(* A screen of the app is covered exactly while an answer to it is         *)
(* outstanding, however often it is opened and left.                       *)
THEOREM AppCoveredWhilePending == AppSpec => []CoveredWhilePending
  BY AppImplementsScreens, ScreensCovered, PTL

(* No failed sign-in or account creation goes unreported in the app. *)
THEOREM AppFailureShown == AppSpec => FailureIsShown
  BY AppImplementsScreens, FailureAlwaysShown, PTL

-----------------------------------------------------------------------------
(* The form.  Between two keystrokes everything in the graph agrees with   *)
(* the relays; in the middle of an update, exactly what has been told of   *)
(* the edited field does.                                                  *)

Fields == Form!Fields
Passwords == Form!Passwords
Node(node, f) == [node |-> node, field |-> f]

ComparedExcept(i, f) == \A g \in Passwords \ {f} : compared[i][g] = relay[g]
Compared(i) == \A g \in Passwords : compared[i][g] = relay[g]

Settled ==
  /\ telling = <<>> /\ direct = relay
  /\ Compared("button") /\ Compared("label")

(* The last clause keeps the button dark: the texts the button knows are   *)
(* still those of the comparison it knows.                                 *)
Edited(f) ==
  /\ telling = Form!Observers(f)
  /\ \A g \in Fields \ {f} : direct[g] = relay[g]
  /\ ComparedExcept("button", f) /\ ComparedExcept("label", f)
  /\ f \in Passwords => direct[f] = compared["button"][f]

DirectTold(f) ==
  /\ telling = <<Node("button", f), Node("label", f)>> /\ direct = relay
  /\ ComparedExcept("button", f) /\ ComparedExcept("label", f)

ButtonTold(f) ==
  /\ telling = <<Node("label", f)>> /\ direct = relay
  /\ Compared("button") /\ ComparedExcept("label", f)

FormTypes ==
  /\ relay \in [Fields -> Form!Texts] /\ direct \in [Fields -> Form!Texts]
  /\ match \in BOOLEAN
  /\ compared \in [Form!Instances -> [Passwords -> Form!Texts]]
  /\ enabled \in BOOLEAN /\ hidden \in BOOLEAN

Driven ==
  /\ match = Form!Matches(compared["button"])
  /\ enabled = Form!Combine(direct, match)
  /\ hidden = Form!Matches(compared["label"])

FormInv ==
  /\ FormTypes /\ Driven /\ refused = FALSE
  /\ \/ Settled
     \/ \E f \in Fields : Edited(f)
     \/ \E f \in Passwords : DirectTold(f) \/ ButtonTold(f)

(* A step of the app is a step of the form or leaves it alone. *)
LEMMA AppStepsForm == [AppNext]_appVars => [Form!Next]_formState
<1> SUFFICES ASSUME [AppNext]_appVars PROVE [Form!Next]_formState
  OBVIOUS
<1>1. UNCHANGED appVars => UNCHANGED formState
  BY DEF appVars
<1>2. Elsewhere \/ Compose \/ Write \/ PassOn \/ Post \/ Answers \/ AuthQueue
        => UNCHANGED formState
  BY DEF Elsewhere, Compose, Write, PassOn, Post, Answers, AuthQueue
<1>3. OpenForm \/ Restart => Form!Reopen
  BY DEF OpenForm, Restart
<1>4. ASSUME NEW u \in Users, Create(u) PROVE Form!CreatePressed
  BY <1>4 DEF Create
<1>5. (Type => Form!Typing) /\ (Tell => Form!Telling)
  BY DEF Type, Tell
<1> QED
  BY <1>1, <1>2, <1>3, <1>4, <1>5 DEF AppNext, Form!Next

(* The empty form: two missing passwords agree, and light nothing up. *)
LEMMA FormInit == Form!Init => FormInv
<1> SUFFICES ASSUME Form!Init PROVE FormInv
  OBVIOUS
<1> USE DEF Form!Init, Fields, Passwords, Form!Fields, Form!Passwords
<1>1. FormTypes
  BY DEF FormTypes, Form!Instances, Form!Texts
<1>2. Driven
  <2>1. match = Form!Matches(compared["button"])
    BY DEF Form!Matches, Form!Instances
  <2>2. enabled = Form!Combine(direct, match)
    BY DEF Form!Combine
  <2>3. hidden = Form!Matches(compared["label"])
    BY DEF Form!Matches, Form!Instances
  <2> QED
    BY <2>1, <2>2, <2>3 DEF Driven
<1>3. Settled
  BY DEF Settled, Compared, Form!Instances
<1> QED
  BY <1>1, <1>2, <1>3 DEF FormInv

(* A form opened anew is the empty form. *)
LEMMA ReopenInv == FormInv /\ Form!Reopen => FormInv'
<1> SUFFICES ASSUME FormInv, Form!Reopen PROVE FormInv'
  OBVIOUS
<1> USE DEF Form!Reopen, Fields, Passwords, Form!Fields, Form!Passwords
<1>1. FormTypes'
  BY DEF FormTypes, Form!Instances, Form!Texts
<1>2. Driven'
  <2>1. match' = Form!Matches(compared'["button"])
    BY DEF Form!Matches, Form!Instances
  <2>2. enabled' = Form!Combine(direct', match')
    BY DEF Form!Combine
  <2>3. hidden' = Form!Matches(compared'["label"])
    BY DEF Form!Matches, Form!Instances
  <2> QED
    BY <2>1, <2>2, <2>3 DEF Driven
<1>3. Settled'
  BY DEF Settled, Compared, Form!Instances
<1> QED
  BY <1>1, <1>2, <1>3 DEF FormInv

(* The queues of observers there can be, and what is left of them.         *)
LEMMA Queues ==
  /\ Form!Observers("email") = <<Node("direct", "email")>>
  /\ \A f \in Passwords :
       Form!Observers(f) = <<Node("direct", f), Node("button", f), Node("label", f)>>
<1>1. ASSUME NEW a PROVE <<a>> \o <<>> = <<a>>
  OBVIOUS
<1>2. ASSUME NEW a, NEW b, NEW c PROVE <<a>> \o <<b, c>> = <<a, b, c>>
  <2> DEFINE S == {a, b, c}
             s == <<a>> \o <<b, c>>
             t == <<a, b, c>>
  <2>1. <<a>> \in Seq(S) /\ <<b, c>> \in Seq(S) /\ Len(<<a>>) = 1 /\ Len(<<b, c>>) = 2
    OBVIOUS
  <2>2. s \in Seq(S) /\ Len(s) = 3 /\ s[1] = a /\ s[2] = b /\ s[3] = c
    BY <2>1, ConcatProperties
  <2>3. t \in Seq(S) /\ Len(t) = 3 /\ t[1] = a /\ t[2] = b /\ t[3] = c
    OBVIOUS
  <2> HIDE DEF s, t
  <2>4. s = t
    BY <2>2, <2>3, SeqEqual
  <2> QED
    BY <2>4 DEF s, t
<1>3. Form!Observers("email") = <<Node("direct", "email")>>
  BY <1>1 DEF Form!Observers, Node
<1>4. ASSUME NEW f \in Passwords
      PROVE  Form!Observers(f)
               = <<Node("direct", f), Node("button", f), Node("label", f)>>
  <2>1. f # "email"
    BY DEF Passwords, Form!Passwords
  <2> QED
    BY <1>2, <2>1 DEF Form!Observers, Node
<1> QED
  BY <1>3, <1>4

(* What is left of such a queue once its first observer has been told. *)
LEMMA Shortened ==
  ASSUME NEW a, NEW b, NEW c
  PROVE  /\ <<a>> # <<>> /\ Head(<<a>>) = a /\ Tail(<<a>>) = <<>>
         /\ <<a, b>> # <<>> /\ Head(<<a, b>>) = a /\ Tail(<<a, b>>) = <<b>>
         /\ <<a, b, c>> # <<>> /\ Head(<<a, b, c>>) = a
         /\ Tail(<<a, b, c>>) = <<b, c>>
  OBVIOUS

(* A keystroke changes a text and calls its observers, told or not. *)
LEMMA EditInv ==
  ASSUME FormInv, NEW f \in Fields, NEW t \in Form!Texts, Form!Edit(f, t)
  PROVE  FormInv'
<1> USE DEF Form!Edit, Form!formVars, Form!Fields, Form!Passwords, Fields, Passwords
<1>1. Settled
  BY Queues, Shortened DEF FormInv, Edited, DirectTold, ButtonTold
<1>2. FormTypes' /\ refused' = FALSE
  BY DEF FormInv, FormTypes
<1>3. Driven'
  BY DEF FormInv, Driven
<1>4. Edited(f)'
  BY <1>1, <1>2 DEF Edited, Settled, Compared, ComparedExcept, FormInv, FormTypes,
     Form!Instances
<1> QED
  BY <1>2, <1>3, <1>4 DEF FormInv

(* Whose turn it is tells how far the update is. *)
LEMMA Turn ==
  ASSUME FormInv, NEW node, Form!Told(node)
  PROVE  \E f \in Fields :
           /\ Head(telling) = Node(node, f)
           /\ \/ node = "direct" /\ Edited(f)
              \/ node = "button" /\ f \in Passwords /\ DirectTold(f)
              \/ node = "label" /\ f \in Passwords /\ ButtonTold(f)
<1>1. ~Settled
  BY DEF Settled, Form!Told
<1>2. ASSUME NEW f \in Fields, Edited(f)
      PROVE  Head(telling) = Node("direct", f)
  BY <1>2, Queues, Shortened DEF Edited, Fields, Form!Fields, Passwords, Form!Passwords
<1>3. ASSUME NEW f \in Passwords, DirectTold(f)
      PROVE  Head(telling) = Node("button", f) /\ f \in Fields
  BY <1>3, Shortened DEF DirectTold, Fields, Form!Fields, Passwords, Form!Passwords
<1>4. ASSUME NEW f \in Passwords, ButtonTold(f)
      PROVE  Head(telling) = Node("label", f) /\ f \in Fields
  BY <1>4, Shortened DEF ButtonTold, Fields, Form!Fields, Passwords, Form!Passwords
<1>5. Head(telling).node = node
  BY DEF Form!Told
<1> QED
  BY <1>1, <1>2, <1>3, <1>4, <1>5 DEF FormInv, Node

(* The button hears of a password directly, with the comparison as it was. *)
LEMMA TellDirectInv ==
  ASSUME FormInv, Form!TellDirect
  PROVE  FormInv' /\ (~enabled /\ enabled' => Form!Complete)
<1>1. PICK f \in Fields : Head(telling) = Node("direct", f) /\ Edited(f)
  BY Turn DEF Form!TellDirect
<1>2. direct' = [direct EXCEPT ![f] = relay[f]] /\ relay' = relay
  <2>1. Head(telling).field = f
    BY <1>1 DEF Node
  <2> QED
    BY <2>1 DEF Form!TellDirect
<1>3. direct' = relay
  BY <1>1, <1>2 DEF Edited, FormInv, FormTypes
<1>4. FormTypes' /\ refused' = FALSE
  <2>1. enabled' \in BOOLEAN
    BY DEF Form!TellDirect, Form!Combine
  <2> QED
    BY <1>2, <1>3, <2>1 DEF FormInv, FormTypes, Form!TellDirect
<1>5. Driven'
  BY DEF FormInv, Driven, Form!TellDirect
<1>6. telling' = Tail(telling) /\ compared' = compared
  BY DEF Form!TellDirect, Form!Told
<1>7. ASSUME f \in Passwords PROVE FormInv'
  <2>1. telling = <<Node("direct", f), Node("button", f), Node("label", f)>>
    BY <1>1, <1>7, Queues DEF Edited
  <2>2. DirectTold(f)'
    BY <1>1, <1>2, <1>3, <1>6, <2>1, Shortened DEF Edited, DirectTold, ComparedExcept
  <2> QED
    BY <1>4, <1>5, <1>7, <2>2 DEF FormInv
<1>8. ASSUME f = "email" PROVE FormInv'
  <2>1. f \notin Passwords
    BY <1>8 DEF Passwords, Form!Passwords
  <2>2. telling' = <<>>
    BY <1>1, <1>6, <1>8, Queues, Shortened DEF Edited
  <2>3. Settled'
    BY <1>1, <1>2, <1>3, <1>6, <2>1, <2>2
    DEF Edited, Settled, ComparedExcept, Compared
  <2> QED
    BY <1>4, <1>5, <2>3 DEF FormInv
<1>9. FormInv'
  BY <1>7, <1>8 DEF Fields, Form!Fields, Passwords, Form!Passwords
<1>10. ASSUME ~enabled, enabled' PROVE Form!Complete
  <2>1. match /\ \A g \in Fields : relay[g] # Empty
    BY <1>3, <1>10 DEF Form!TellDirect, Form!Combine, Fields
  <2>2. Form!Matches(compared["button"])
    BY <2>1 DEF FormInv, Driven
  <2>3. \E g \in Fields : direct[g] = Empty
    BY <1>10, <2>1 DEF FormInv, Driven, Form!Combine, Fields
  <2>4. direct[f] = Empty
    BY <1>1, <2>1, <2>3 DEF Edited
  <2>5. CASE f = "email"
    BY <1>1, <2>1, <2>2, <2>5 DEF Edited, ComparedExcept, Passwords, Form!Passwords,
       Form!Matches, Form!Complete, Fields
  <2>6. CASE f \in Passwords
    BY <1>1, <2>1, <2>2, <2>4, <2>6 DEF Edited, ComparedExcept, Passwords,
       Form!Passwords, Form!Matches, Fields, Form!Fields
  <2> QED
    BY <2>5, <2>6 DEF Fields, Form!Fields, Passwords, Form!Passwords
<1> QED
  BY <1>9, <1>10

(* The comparison is made with the texts as they are. *)
LEMMA TellMatchesInv ==
  ASSUME FormInv, Form!TellMatches
  PROVE  FormInv' /\ (~enabled /\ enabled' => Form!Complete)
<1>1. PICK f \in Fields :
        Head(telling) = Node("button", f) /\ f \in Passwords /\ DirectTold(f)
  BY Turn DEF Form!TellMatches
<1>2. compared' = [compared EXCEPT !["button"][f] = relay[f]] /\ relay' = relay
  <2>1. Head(telling).field = f
    BY <1>1 DEF Node
  <2> QED
    BY <2>1 DEF Form!TellMatches
<1>3. FormTypes' /\ refused' = FALSE
  <2>1. match' \in BOOLEAN /\ enabled' \in BOOLEAN
    BY DEF Form!TellMatches, Form!Combine, Form!Matches, FormInv, FormTypes
  <2>2. compared' \in [Form!Instances -> [Passwords -> Form!Texts]]
    BY <1>1, <1>2 DEF FormInv, FormTypes, Form!Instances
  <2> QED
    BY <1>2, <2>1, <2>2 DEF FormInv, FormTypes, Form!TellMatches
<1>4. /\ compared'["label"] = compared["label"]
      /\ \A g \in Passwords : compared'["button"][g] = relay[g]
  BY <1>1, <1>2 DEF DirectTold, ComparedExcept, FormInv, FormTypes, Form!Instances
<1>5. Driven'
  <2>1. match' = Form!Matches(compared'["button"])
    BY DEF Form!TellMatches
  <2>2. enabled' = Form!Combine(direct', match')
    BY DEF Form!TellMatches, FormInv, Driven
  <2>3. hidden' = Form!Matches(compared'["label"])
    BY <1>4 DEF Form!TellMatches, FormInv, Driven
  <2> QED
    BY <2>1, <2>2, <2>3 DEF Driven
<1>6. ButtonTold(f)'
  BY <1>1, <1>2, <1>4, Shortened DEF DirectTold, ButtonTold, Compared, ComparedExcept,
     Form!TellMatches, Form!Told
<1>7. ASSUME ~enabled, enabled' PROVE Form!Complete
  <2>1. Form!Combine(direct, match')
    BY <1>7 DEF Form!TellMatches
  <2>2. match' /\ \A g \in Form!Fields : relay[g] # Empty
    BY <1>1, <2>1 DEF Form!Combine, DirectTold
  <2>3. Form!Matches(relay)
    BY <1>4, <2>2 DEF Form!TellMatches, Form!Matches, Passwords, Form!Passwords
  <2> QED
    BY <2>2, <2>3 DEF Form!Complete
<1> QED
  BY <1>1, <1>3, <1>5, <1>6, <1>7 DEF FormInv

(* The label's own comparison comes last. *)
LEMMA TellLabelInv ==
  ASSUME FormInv, Form!TellLabel
  PROVE  FormInv' /\ enabled' = enabled
<1>1. PICK f \in Fields :
        Head(telling) = Node("label", f) /\ f \in Passwords /\ ButtonTold(f)
  BY Turn DEF Form!TellLabel
<1>2. /\ compared' = [compared EXCEPT !["label"][f] = relay[f]]
      /\ UNCHANGED <<relay, direct, match, enabled, refused>>
  <2>1. Head(telling).field = f
    BY <1>1 DEF Node
  <2> QED
    BY <2>1 DEF Form!TellLabel
<1>3. FormTypes' /\ refused' = FALSE
  <2>1. hidden' \in BOOLEAN
    BY DEF Form!TellLabel, Form!Matches
  <2>2. compared' \in [Form!Instances -> [Passwords -> Form!Texts]]
    BY <1>1, <1>2 DEF FormInv, FormTypes, Form!Instances
  <2> QED
    BY <1>2, <2>1, <2>2 DEF FormInv, FormTypes
<1>4. /\ compared'["button"] = compared["button"]
      /\ \A g \in Passwords : compared'["label"][g] = relay[g]
  BY <1>1, <1>2 DEF ButtonTold, ComparedExcept, FormInv, FormTypes, Form!Instances
<1>5. Driven'
  <2>1. match' = Form!Matches(compared'["button"])
    BY <1>2, <1>4 DEF FormInv, Driven
  <2>2. enabled' = Form!Combine(direct', match')
    BY <1>2 DEF FormInv, Driven
  <2>3. hidden' = Form!Matches(compared'["label"])
    BY DEF Form!TellLabel
  <2> QED
    BY <2>1, <2>2, <2>3 DEF Driven
<1>6. Settled'
  BY <1>1, <1>2, <1>4, Shortened DEF ButtonTold, Settled, Compared, Form!TellLabel,
     Form!Told
<1> QED
  BY <1>2, <1>3, <1>5, <1>6 DEF FormInv

(* When everything has been told, button and label are right. *)
LEMMA SettledAgrees ==
  ASSUME FormInv, telling = <<>>
  PROVE  enabled = Form!Complete /\ hidden = Form!Matches(relay)
<1>1. Settled
  BY Queues, Shortened DEF FormInv, Edited, DirectTold, ButtonTold, Fields, Form!Fields,
     Passwords, Form!Passwords
<1>2. /\ Form!Matches(compared["button"]) <=> Form!Matches(relay)
      /\ Form!Matches(compared["label"]) <=> Form!Matches(relay)
  BY <1>1 DEF Settled, Compared, Form!Matches, Passwords, Form!Passwords
<1>3. hidden = Form!Matches(relay)
  BY <1>2 DEF FormInv, Driven, Form!Matches
<1>4. enabled = Form!Complete
  BY <1>1, <1>2 DEF FormInv, Driven, Form!Complete, Form!Combine, Settled
<1> QED
  BY <1>3, <1>4

(* A tap on Create finds a complete form, and changes nothing in it. *)
LEMMA CreateInv == FormInv /\ Form!CreatePressed => FormInv' /\ Form!Complete
<1> SUFFICES ASSUME FormInv, Form!CreatePressed PROVE FormInv' /\ Form!Complete
  OBVIOUS
<1>1. telling = <<>> /\ enabled /\ UNCHANGED <<relay, Form!formVars, telling>>
  BY DEF Form!CreatePressed
<1>2. Form!Complete
  BY <1>1, SettledAgrees
<1>3. refused' = FALSE
  BY <1>2 DEF Form!CreatePressed, Form!Complete, FormInv
<1>4. FormTypes' /\ Driven'
  BY <1>1 DEF FormInv, FormTypes, Driven, Form!formVars
<1>5. Settled'
  <2>1. Settled
    BY <1>1, Queues, Shortened DEF FormInv, Edited, DirectTold, ButtonTold, Fields,
       Form!Fields, Passwords, Form!Passwords
  <2> QED
    BY <1>1, <2>1 DEF Settled, Compared, Form!formVars
<1> QED
  BY <1>2, <1>3, <1>4, <1>5 DEF FormInv

(* The invariant is kept, and the button lights up for a complete form     *)
(* only.                                                                   *)
LEMMA FormNextInv ==
  FormInv /\ [Form!Next]_formState
    => FormInv' /\ [~enabled /\ enabled' => Form!Complete]_formState
<1> SUFFICES ASSUME FormInv, [Form!Next]_formState
             PROVE  FormInv' /\ (~enabled /\ enabled' => Form!Complete)
  OBVIOUS
<1>1. CASE UNCHANGED formState
  <2>1. FormTypes' /\ Driven' /\ refused' = FALSE /\ enabled' = enabled
    BY <1>1 DEF formState, FormInv, FormTypes, Driven
  <2>2. CASE Settled
    BY <1>1, <2>1, <2>2 DEF FormInv, formState, Settled, Compared
  <2>3. ASSUME NEW f \in Fields, Edited(f) PROVE FormInv'
    <3>1. Edited(f)'
      BY <1>1, <2>3 DEF formState, Edited, ComparedExcept
    <3> QED
      BY <2>1, <3>1 DEF FormInv
  <2>4. ASSUME NEW f \in Passwords, DirectTold(f) \/ ButtonTold(f) PROVE FormInv'
    <3>1. (DirectTold(f) \/ ButtonTold(f))'
      BY <1>1, <2>4 DEF formState, DirectTold, ButtonTold, Compared, ComparedExcept
    <3> QED
      BY <2>1, <3>1 DEF FormInv
  <2> QED
    BY <2>1, <2>2, <2>3, <2>4 DEF FormInv
<1>2. CASE Form!Typing
  <2>1. PICK f \in Fields, t \in Form!Texts : Form!Edit(f, t)
    BY <1>2 DEF Form!Typing, Fields
  <2>2. enabled' = enabled
    BY <2>1 DEF Form!Edit, Form!formVars
  <2> QED
    BY <2>1, <2>2, EditInv
<1>3. CASE Form!Telling
  BY <1>3, TellDirectInv, TellMatchesInv, TellLabelInv DEF Form!Telling
<1>4. CASE Form!CreatePressed
  BY <1>4, CreateInv DEF Form!CreatePressed, Form!formVars
<1>5. CASE Form!Reopen
  BY <1>5, ReopenInv DEF Form!Reopen
<1> QED
  BY <1>1, <1>2, <1>3, <1>4, <1>5 DEF Form!Next

(* The form's invariant holds in the app. *)
LEMMA FormInvariant == AppSpec => []FormInv
<1>1. AppInit => FormInv
  BY FormInit DEF AppInit
<1>2. FormInv /\ [AppNext]_appVars => FormInv'
  BY AppStepsForm, FormNextInv
<1> QED
  BY <1>1, <1>2, PTL DEF AppSpec

(* Button and label of the form say of its texts what they are meant to,   *)
(* whenever the main thread is done with a keystroke.                      *)
THEOREM AppFormAgrees == AppSpec => []FormAgrees
<1>1. FormInv => FormAgrees
  BY SettledAgrees DEF FormAgrees, Form!FormAgrees
<1> QED
  BY FormInvariant, <1>1, PTL

(* createAccount() never refuses a form the enabled button let through. *)
THEOREM AppNeverRefused == AppSpec => []NeverRefused
<1>1. FormInv => NeverRefused
  BY DEF FormInv, NeverRefused, Form!NeverRefused
<1> QED
  BY FormInvariant, <1>1, PTL

(* No stale comparison lights the button up, in whatever order the texts   *)
(* came.                                                                   *)
THEOREM AppNoFlash == AppSpec => NoFlash
<1>1. FormInv /\ [AppNext]_appVars => [~enabled /\ enabled' => Form!Complete]_formState
  BY AppStepsForm, FormNextInv
<1> QED
  BY FormInvariant, <1>1, PTL DEF AppSpec, NoFlash

(* Auth is asked to create accounts by complete forms only. *)
THEOREM AppOnlyCompleteForms == AppSpec => OnlyCompleteForms
<1> DEFINE Asks == \A c \in calls' \ calls : c.type = "createUser" =>
                     Form!Complete /\ c.user = relay["email"]
<1>1. ASSUME FormInv, AppNext PROVE Asks
  <2>1. ASSUME NEW u \in Users, Create(u) PROVE Asks
    <3>1. Form!Complete /\ relay["email"] = u
      BY <1>1, <2>1, CreateInv DEF Create
    <3>2. calls' = calls \cup {Call("createUser", u)}
      BY <2>1 DEF Create, CreatePressed
    <3> QED
      BY <3>1, <3>2 DEF Call
  <2>2. ASSUME NEW u \in Users, LoginPressed(u) PROVE Asks
    BY <2>2 DEF LoginPressed, Call
  <2>3. ASSUME calls' \subseteq calls PROVE Asks
    BY <2>3
  <2>4. Elsewhere => calls' \subseteq calls \/ \E u \in Users : LoginPressed(u)
    BY DEF Elsewhere, Back, DismissAlert, LogoutPressed, LogoutFailed, CancelPressed,
       Database, PostsRetrieved, RetrievalFailed, PostCompleted, PostFailed, authVars
  <2>5. OpenForm \/ Type \/ Tell \/ Compose \/ Write \/ PassOn \/ Post \/ Restart
          => calls' \subseteq calls
    BY DEF OpenForm, CreateAccountPressed, Type, Tell, Compose, NewPostPressed, Write,
       PassOn, Post, PostPressed, Restart, Relaunch, authVars, vars
  <2>6. Answers => calls' \subseteq calls
    BY DEF Answers, MainQueue, LoginSucceeded, LoginFailed, AccountCreated, AccountFailed
  <2>7. AuthQueue => calls' \subseteq calls
    BY DEF AuthQueue, Auth, CallSucceeds, CallFails, Answer
  <2> HIDE DEF Asks
  <2> QED
    BY <1>1, <2>1, <2>2, <2>3, <2>4, <2>5, <2>6, <2>7 DEF AppNext
<1>2. FormInv /\ [AppNext]_appVars => [Asks]_appVars
  BY <1>1
<1> QED
  BY FormInvariant, <1>2, PTL DEF AppSpec, OnlyCompleteForms

(* The ends of a queue, as parts of it. *)
LEMMA EndsOfOne ==
  ASSUME NEW a
  PROVE  <<>> = SubSeq(<<a>>, 2, 1) /\ <<a>> = SubSeq(<<a>>, 1, 1)
<1> DEFINE t == SubSeq(<<a>>, 1, 1)
<1>1. <<a>> \in Seq({a}) /\ Len(<<a>>) = 1 /\ <<a>>[1] = a
  OBVIOUS
<1>2. t \in Seq({a}) /\ Len(t) = 1 /\ t[1] = a
  BY <1>1
<1>3. <<>> = SubSeq(<<a>>, 2, 1)
  OBVIOUS
<1>4. <<a>> = t
  <2> HIDE DEF t
  <2> QED
    BY <1>1, <1>2, SeqEqual
<1> QED
  BY <1>3, <1>4

(* Likewise of a longer one. *)
LEMMA EndsOfThree ==
  ASSUME NEW a, NEW b, NEW c
  PROVE  /\ <<a, b, c>> = SubSeq(<<a, b, c>>, 1, 3)
         /\ <<b, c>> = SubSeq(<<a, b, c>>, 2, 3)
         /\ <<c>> = SubSeq(<<a, b, c>>, 3, 3)
<1> DEFINE S == {a, b, c}
           s == <<a, b, c>>
           t == SubSeq(s, 2, 3)
           u == SubSeq(s, 3, 3)
           v == SubSeq(s, 1, 3)
<1>1. s \in Seq(S) /\ Len(s) = 3 /\ s[1] = a /\ s[2] = b /\ s[3] = c
  OBVIOUS
<1>2. /\ v \in Seq(S) /\ Len(v) = 3 /\ v[1] = a /\ v[2] = b /\ v[3] = c
      /\ t \in Seq(S) /\ Len(t) = 2 /\ t[1] = b /\ t[2] = c
      /\ u \in Seq(S) /\ Len(u) = 1 /\ u[1] = c
  <2> HIDE DEF s
  <2> QED
    BY <1>1
<1>3. /\ <<b, c>> \in Seq(S) /\ Len(<<b, c>>) = 2 /\ <<b, c>>[1] = b /\ <<b, c>>[2] = c
      /\ <<c>> \in Seq(S) /\ Len(<<c>>) = 1 /\ <<c>>[1] = c
  OBVIOUS
<1> HIDE DEF S, s, t, u, v
<1>4. s = v
  BY <1>1, <1>2, SeqEqual
<1>5. <<b, c>> = t
  <2>1. \A i \in 1 .. Len(t) : t[i] = <<b, c>>[i]
    BY <1>2, <1>3
  <2> QED
    BY <1>2, <1>3, <2>1, SeqEqual
<1>6. <<c>> = u
  <2>1. \A i \in 1 .. Len(u) : u[i] = <<c>>[i]
    BY <1>2, <1>3
  <2> QED
    BY <1>2, <1>3, <2>1, SeqEqual
<1> QED
  BY <1>4, <1>5, <1>6 DEF s, t, u, v

(* The form's graph has its type, whatever part of an update is done. *)
THEOREM AppFormTypeCorrect == AppSpec => []FormTypeOK
<1>1. FormInv => FormTypeOK
  <2> SUFFICES ASSUME FormInv
               PROVE  \E f \in Form!Fields : \E n \in 0 .. 3 :
                        telling = SubSeq(Form!Observers(f), n + 1, Len(Form!Observers(f)))
    BY DEF FormInv, FormTypes, FormTypeOK, Form!TypeOK, Fields, Passwords
  <2> DEFINE Is(f, n) == telling = SubSeq(Form!Observers(f), n + 1, Len(Form!Observers(f)))
  <2>1. /\ Len(Form!Observers("email")) = 1
        /\ \A f \in Passwords : Len(Form!Observers(f)) = 3
    BY Queues
  <2>2. Settled => "email" \in Form!Fields /\ Is("email", 1)
    <3>1. <<>> = SubSeq(<<Node("direct", "email")>>, 1 + 1, 1)
      BY EndsOfOne
    <3>2. <<>> = SubSeq(Form!Observers("email"), 1 + 1, Len(Form!Observers("email")))
      BY <2>1, <3>1, Queues
    <3> QED
      BY <3>2 DEF Settled, Form!Fields
  <2>3. ASSUME NEW f \in Fields, Edited(f) PROVE Is(f, 0)
    <3>1. CASE f = "email"
      BY <2>1, <2>3, <3>1, Queues, EndsOfOne DEF Edited
    <3>2. CASE f \in Passwords
      BY <2>1, <2>3, <3>2, Queues, EndsOfThree DEF Edited
    <3> QED
      BY <3>1, <3>2 DEF Fields, Passwords, Form!Fields, Form!Passwords
  <2>4. ASSUME NEW f \in Passwords, DirectTold(f) PROVE Is(f, 1)
    BY <2>1, <2>4, Queues, EndsOfThree DEF DirectTold
  <2>5. ASSUME NEW f \in Passwords, ButtonTold(f) PROVE Is(f, 2)
    BY <2>1, <2>5, Queues, EndsOfThree DEF ButtonTold
  <2> HIDE DEF Is
  <2>6. \E f \in Form!Fields : \E n \in 0 .. 3 : Is(f, n)
    <3>1. Passwords \subseteq Form!Fields /\ Fields = Form!Fields
      BY DEF Fields, Passwords, Form!Fields, Form!Passwords
    <3> QED
      BY <2>2, <2>3, <2>4, <2>5, <3>1 DEF FormInv
  <2> QED
    BY <2>6 DEF Is
<1> QED
  BY FormInvariant, <1>1, PTL

-----------------------------------------------------------------------------
(* The composer.  The button looks at the message, never at the text view. *)

DraftInv ==
  /\ late \in Nat
  /\ postable = (message # Empty)
  /\ late = 0 => message = text

(* The composer's invariant holds in the app. *)
LEMMA DraftInvariant == AppSpec => []DraftInv
<1>1. AppInit => DraftInv
  <2> SUFFICES ASSUME Draft!Init PROVE DraftInv
    BY DEF AppInit
  <2>1. postable = (message # Empty)
    BY DEF Draft!Init
  <2> QED
    BY <2>1 DEF Draft!Init, DraftInv
<1>2. ASSUME DraftInv, [AppNext]_appVars PROVE DraftInv'
  <2>1. CASE UNCHANGED draft
    BY <1>2, <2>1 DEF draft, DraftInv
  <2>2. CASE Draft!Present
    BY <2>2 DEF Draft!Present, DraftInv
  <2>3. CASE Write
    <3>1. PICK t \in Draft!Texts : Draft!Typed(t)
      BY <2>3 DEF Write
    <3> QED
      BY <1>2, <3>1 DEF Draft!Typed, DraftInv
  <2>4. CASE PassOn
    BY <1>2, <2>4 DEF PassOn, Draft!PassOn, DraftInv
  <2>5. Compose \/ Restart => Draft!Present
    BY DEF Compose, Restart
  <2>6. Post => UNCHANGED draft
    BY DEF Post, Draft!Submit, Draft!vars, draft
  <2>7. ASSUME NEW u \in Users, Create(u) PROVE UNCHANGED draft
    BY <2>7 DEF Create
  <2>8. Elsewhere \/ OpenForm \/ Type \/ Tell \/ Answers \/ AuthQueue => UNCHANGED draft
    BY DEF Elsewhere, OpenForm, Type, Tell, Answers, AuthQueue
  <2>9. UNCHANGED appVars => UNCHANGED draft
    BY DEF appVars
  <2> QED
    BY <1>2, <2>1, <2>2, <2>3, <2>4, <2>5, <2>6, <2>7, <2>8, <2>9 DEF AppNext
<1> QED
  BY <1>1, <1>2, PTL DEF AppSpec

(* When the main queue has caught up with the user, Post submits what he   *)
(* sees, for every bound on how far it may be behind.                      *)
THEOREM AppMessageFollowsText == AppSpec => []MessageFollowsText
<1>1. DraftInv => MessageFollowsText
  BY DEF DraftInv, MessageFollowsText, Draft!MessageFollowsText
<1> QED
  BY DraftInvariant, <1>1, PTL

(* No tap on Post submits an empty message, however far the message is     *)
(* behind the text view.                                                   *)
THEOREM AppNoEmptyPost == AppSpec => NoEmptyPost
<1>1. ASSUME DraftInv, TypeOK, AppNext, PostPressed PROVE message # Empty
  <2>1. Post => message # Empty
    BY <1>1 DEF Post, Draft!Submit, DraftInv
  <2>2. waiting \in Nat /\ waiting' = waiting + 1 /\ modal = "composer" /\ UNCHANGED authVars
    BY <1>1 DEF TypeOK, PostPressed
  <2>3. UNCHANGED waiting \/ waiting' = 0 \/ waiting' = waiting - 1 => FALSE
    BY <2>2
  <2>4. Elsewhere => waiting' = waiting \/ waiting' = 0 \/ waiting' = waiting - 1
    BY DEF Elsewhere, LoginPressed, Back, DismissAlert, LogoutPressed, LogoutFailed,
       CancelPressed, Database, PostsRetrieved, RetrievalFailed, PostCompleted,
       PostFailed
  <2>5. OpenForm \/ Type \/ Tell \/ Compose \/ Write \/ PassOn \/ Restart
          => waiting' = waiting \/ waiting' = 0
    BY DEF OpenForm, CreateAccountPressed, Type, Tell, Compose, NewPostPressed, Write,
       PassOn, Restart, Relaunch, vars, screenVars
  <2>6. Answers \/ AuthQueue => waiting' = waiting
    BY DEF Answers, MainQueue, LoginSucceeded, LoginFailed, AccountCreated, AccountFailed,
       AuthQueue, Auth, CallSucceeds, CallFails, screenVars
  <2>7. ASSUME NEW u \in Users, Create(u) PROVE waiting' = waiting
    BY <2>7 DEF Create, CreatePressed
  <2> QED
    BY <1>1, <2>1, <2>3, <2>4, <2>5, <2>6, <2>7 DEF AppNext
<1>2. DraftInv /\ TypeOK /\ [AppNext]_appVars => [PostPressed => message # Empty]_appVars
  BY <1>1
<1> QED
  BY DraftInvariant, AppTypeCorrect, <1>2, PTL DEF AppSpec, NoEmptyPost
=============================================================================
