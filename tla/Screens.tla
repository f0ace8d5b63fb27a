------------------------------ MODULE Screens -------------------------------
(***************************************************************************)
(* The app's screens and the signed-in user: the sign-in screen, the       *)
(* create-account screen and the timeline on a navigation stack, the       *)
(* composer and the error alert presented over it, the loading indicator   *)
(* that covers a screen while it waits, and Firebase Auth, which keeps one *)
(* current user and answers calls in its own time.                         *)
(*                                                                         *)
(* The timeline remembers the user it was opened for (TimelineViewModel's  *)
(* user), Firebase the user who signed in last; createUser signs the new   *)
(* user in as well.  Nothing but the indicator keeps a second call from    *)
(* being made while one is pending.                                        *)
(*                                                                         *)
(* An action is one callback on the main thread or one step of Auth's      *)
(* queue.  Taps reach the topmost screen only, and none while it is        *)
(* covered.  Animated transitions let no tap through either.               *)
(***************************************************************************)
EXTENDS Integers, Sequences, SequencesExt

CONSTANTS Users,
          MaxTaps      \* bound: submissions one composer waits for

ASSUME MaxTapsAssumption == MaxTaps \in Nat

VARIABLES
  stack,       \* the navigation stack's screens, the topmost last
  hud,         \* hud[s]: indicators on screen s
  modal,       \* "none", "alert" or "composer"
  loading,     \* the timeline waits for its posts
  waiting,     \* submissions the composer waits for
  calls,       \* calls Firebase Auth has not answered
  answers,     \* its answers, dispatched to the main queue
  currentUser, \* Auth's current user, kept on disk, or "nobody"
  accounts     \* the accounts there are

screenVars == <<stack, hud, modal, loading, waiting>>
authVars == <<calls, answers, currentUser, accounts>>
vars == <<screenVars, authVars>>

-----------------------------------------------------------------------------
Screen(name, user) == [screen |-> name, user |-> user]

SignIn == Screen("signIn", "nobody")
CreateAccount == Screen("createAccount", "nobody")
Timeline(u) == Screen("timeline", u)

Top == stack[Len(stack)]
Covered == {"signIn", "createAccount"}

(* A tap reaches screen s: nothing is on top of it, no indicator covers it. *)
Touchable(s) ==
  /\ Top.screen = s /\ modal = "none"
  /\ s \in Covered => hud[s] = 0

Push(screen) == stack' = Append(stack, screen)

(* popViewController leaves the root alone. *)
Pop ==
  stack' = IF Len(stack) > 1 THEN SubSeq(stack, 1, Len(stack) - 1) ELSE stack

(* Wrong: the screen stays open to taps. *)
ShowNoHUD(s) == UNCHANGED hud

ShowHUD(s) == hud' = [hud EXCEPT ![s] = @ + 1]

(* MBProgressHUD.hide does nothing when there is none. *)
HideHUD(s) == hud' = [hud EXCEPT ![s] = IF @ > 0 THEN @ - 1 ELSE 0]

(* An alert over something that is presented already never appears. *)
DisplayAlert == modal' = IF modal = "none" THEN "alert" ELSE modal

Call(type, u) == [type |-> type, user |-> u]

-----------------------------------------------------------------------------
Init ==
  /\ stack = <<SignIn>> /\ hud = [s \in Covered |-> 0]
  /\ modal = "none" /\ loading = FALSE /\ waiting = 0
  /\ calls = {} /\ answers = <<>>
  /\ currentUser \in Users \cup {"nobody"} /\ accounts \in SUBSET Users

-----------------------------------------------------------------------------
(* The sign-in screen *)

LoginPressed(u) ==
  /\ Touchable("signIn")
  /\ ShowHUD("signIn")
  /\ calls' = calls \cup {Call("signIn", u)}
  /\ UNCHANGED <<stack, modal, loading, waiting, answers, currentUser,
                 accounts>>

CreateAccountPressed ==
  /\ Touchable("signIn")
  /\ Push(CreateAccount)
  /\ UNCHANGED <<hud, modal, loading, waiting, authVars>>

Answered(type) == answers # <<>> /\ Head(answers).type = type

(* The timeline gets a view model for the user of the answer, and starts   *)
(* to load in viewDidLoad.                                                 *)
LoginSucceeded ==
  /\ Answered("signIn") /\ Head(answers).ok
  /\ HideHUD("signIn")
  /\ Push(Timeline(Head(answers).user)) /\ loading' = TRUE
  /\ answers' = Tail(answers)
  /\ UNCHANGED <<modal, waiting, calls, currentUser, accounts>>

(* Wrong: the indicator is hidden on success only. *)
LoginFailedCovered ==
  /\ Answered("signIn") /\ ~Head(answers).ok
  /\ DisplayAlert
  /\ answers' = Tail(answers)
  /\ UNCHANGED <<hud, stack, loading, waiting, calls, currentUser, accounts>>

LoginFailed ==
  /\ Answered("signIn") /\ ~Head(answers).ok
  /\ HideHUD("signIn") /\ DisplayAlert
  /\ answers' = Tail(answers)
  /\ UNCHANGED <<stack, loading, waiting, calls, currentUser, accounts>>

-----------------------------------------------------------------------------
(* The create-account screen *)

CreatePressed(u) ==
  /\ Touchable("createAccount")
  /\ ShowHUD("createAccount")
  /\ calls' = calls \cup {Call("createUser", u)}
  /\ UNCHANGED <<stack, modal, loading, waiting, answers, currentUser,
                 accounts>>

Back ==
  /\ Touchable("createAccount")
  /\ Pop
  /\ UNCHANGED <<hud, modal, loading, waiting, authVars>>

(* If the screen is gone, self is nil and nothing happens. *)
Creating == \E i \in DOMAIN stack : stack[i] = CreateAccount

AccountCreated ==
  /\ Answered("createUser") /\ Head(answers).ok
  /\ IF Creating THEN HideHUD("createAccount") /\ Pop
                 ELSE UNCHANGED <<hud, stack>>
  /\ answers' = Tail(answers)
  /\ UNCHANGED <<modal, loading, waiting, calls, currentUser, accounts>>

AccountFailed ==
  /\ Answered("createUser") /\ ~Head(answers).ok
  /\ IF Creating THEN HideHUD("createAccount") /\ DisplayAlert
                 ELSE UNCHANGED <<hud, modal>>
  /\ answers' = Tail(answers)
  /\ UNCHANGED <<stack, loading, waiting, calls, currentUser, accounts>>

DismissAlert ==
  /\ modal = "alert" /\ modal' = "none"
  /\ UNCHANGED <<stack, hud, loading, waiting, authVars>>

-----------------------------------------------------------------------------
(* The timeline and the composer *)

(* The posts arrive, or an alert; under the composer the alert is lost.    *)
PostsRetrieved ==
  /\ loading /\ loading' = FALSE
  /\ UNCHANGED <<stack, hud, modal, waiting, authVars>>

RetrievalFailed ==
  /\ loading /\ loading' = FALSE
  /\ DisplayAlert
  /\ UNCHANGED <<stack, hud, waiting, authVars>>

(* signOut waits for Auth's queue and works at once; it fails if the user  *)
(* cannot be taken off the disk.                                           *)
LogoutPressed ==
  /\ Touchable("timeline")
  /\ currentUser' = "nobody"
  /\ Pop /\ loading' = FALSE
  /\ UNCHANGED <<hud, modal, waiting, calls, answers, accounts>>

LogoutFailed ==
  /\ Touchable("timeline") /\ currentUser # "nobody"
  /\ DisplayAlert
  /\ UNCHANGED <<stack, hud, loading, waiting, authVars>>

NewPostPressed ==
  /\ Touchable("timeline")
  /\ modal' = "composer" /\ waiting' = 0
  /\ UNCHANGED <<stack, hud, loading, authVars>>

(* Nothing covers the composer: Post may be tapped again. *)
PostPressed ==
  /\ modal = "composer" /\ waiting < MaxTaps
  /\ waiting' = waiting + 1
  /\ UNCHANGED <<stack, hud, modal, loading, authVars>>

(* The first submission answered takes the composer away; the others stay  *)
(* on their way, with nobody to hear of them.                              *)
PostCompleted ==
  /\ modal = "composer" /\ waiting > 0
  /\ modal' = "none" /\ waiting' = 0
  /\ UNCHANGED <<stack, hud, loading, authVars>>

(* A refused post is only printed to the console. *)
PostFailed ==
  /\ modal = "composer" /\ waiting > 0
  /\ waiting' = waiting - 1
  /\ UNCHANGED <<stack, hud, modal, loading, authVars>>

CancelPressed ==
  /\ modal = "composer"
  /\ modal' = "none" /\ waiting' = 0
  /\ UNCHANGED <<stack, hud, loading, authVars>>

-----------------------------------------------------------------------------
(* Firebase Auth *)

Answer(call, ok) ==
  /\ calls' = calls \ {call}
  /\ answers' = Append(answers,
                 [type |-> call.type, user |-> call.user, ok |-> ok])

(* The current user is set on Auth's queue, before the answer reaches the  *)
(* main queue.                                                             *)
CallSucceeds(call) ==
  /\ (call.type = "signIn") <=> (call.user \in accounts)
  /\ accounts' = accounts \cup {call.user}
  /\ currentUser' = call.user
  /\ Answer(call, TRUE)
  /\ UNCHANGED screenVars

(* A wrong password, a name that is taken, no network, a full disk; the    *)
(* account may have been made nevertheless.                                *)
CallFails(call) ==
  /\ accounts' \in IF call.type = "createUser"
                   THEN {accounts, accounts \cup {call.user}} ELSE {accounts}
  /\ Answer(call, FALSE)
  /\ UNCHANGED <<screenVars, currentUser>>

(* The process ends and the app is started again, on the sign-in screen;   *)
(* the current user is read from the disk.                                 *)
Relaunch ==
  /\ stack' = <<SignIn>> /\ hud' = [s \in Covered |-> 0]
  /\ modal' = "none" /\ loading' = FALSE /\ waiting' = 0
  /\ calls' = {} /\ answers' = <<>>
  /\ UNCHANGED <<currentUser, accounts>>

-----------------------------------------------------------------------------
User ==
  \/ \E u \in Users : LoginPressed(u) \/ CreatePressed(u)
  \/ CreateAccountPressed \/ Back \/ DismissAlert
  \/ LogoutPressed \/ LogoutFailed
  \/ NewPostPressed \/ PostPressed \/ CancelPressed

MainQueue == LoginSucceeded \/ LoginFailed \/ AccountCreated \/ AccountFailed

Database == PostsRetrieved \/ RetrievalFailed \/ PostCompleted \/ PostFailed

Auth == \E call \in calls : CallSucceeds(call) \/ CallFails(call)

Next == User \/ MainQueue \/ Database \/ Auth \/ Relaunch

Spec == Init /\ [][Next]_vars

(* Auth's requests are answered or time out, and the main queue runs.      *)
(* The database promises nothing: offline, it never answers.               *)
FairSpec == Spec /\ WF_vars(Auth) /\ WF_vars(MainQueue)
-----------------------------------------------------------------------------
Names == Users \cup {"nobody"}
CallTypes == {"signIn", "createUser"}

(* The state of screens and Auth has its type (SignInViewController.swift, *)
(* CreateAccountViewController.swift): the stack never holds more than two *)
(* screens, and the root is the sign-in screen.                            *)
TypeOK ==
  /\ \/ stack = <<SignIn>> \/ stack = <<SignIn, CreateAccount>>
     \/ \E u \in Users : stack = <<SignIn, Timeline(u)>>
  /\ hud \in [Covered -> Nat]
  /\ modal \in {"none", "alert", "composer"}
  /\ loading \in BOOLEAN /\ waiting \in 0 .. MaxTaps
  /\ calls \subseteq [type : CallTypes, user : Users]
  /\ answers \in Seq([type : CallTypes, user : Users, ok : BOOLEAN])
  /\ currentUser \in Names /\ accounts \subseteq Users

(* The open timeline, its Delete buttons and its composer are for the user *)
(* Firebase has signed in: no late answer to another call changes him      *)
(* under the screen (SignInViewController.swift:40-55,                     *)
(* CreateAccountViewController.swift:41-50).                               *)
TimelineOfCurrentUser ==
  \A i \in DOMAIN stack :
    stack[i].screen = "timeline" => stack[i].user = currentUser

(* A screen is covered exactly while an answer to it is outstanding: never *)
(* open to a second call, never covered for good                           *)
(* (UIViewController+Utils.swift:13-23).                                   *)
CoveredWhilePending ==
  \A s \in Covered :
    LET type == IF s = "signIn" THEN "signIn" ELSE "createUser"
    IN  hud[s] = Cardinality({c \in calls : c.type = type})
                 + Cardinality({i \in DOMAIN answers : answers[i].type = type})

(* Whoever waits for an answer is at the top of the stack with nothing     *)
(* presented over it, so that an error is always shown to the user: an     *)
(* alert over a presented screen would be lost                             *)
(* (SignInViewController.swift:51-54,                                      *)
(* CreateAccountViewController.swift:46-49).                               *)
FailureIsShown ==
  [][(LoginFailed \/ AccountFailed) => modal = "none" /\ modal' = "alert"]_vars

(* A covered screen is uncovered in the end, if Auth answers every call or *)
(* lets it time out (UIViewController+Utils.swift:21-23).                  *)
UncoveredInTheEnd == \A s \in Covered : []<>(hud[s] = 0)
=============================================================================
