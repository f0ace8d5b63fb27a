--------------------------------- MODULE App ---------------------------------
(***************************************************************************)
(* The screens (Screens.tla) together with the form of the create-account  *)
(* screen (Forms.tla): the Create button is the form's, the name asked for *)
(* is the text of its e-mail field, and every push of the screen starts a  *)
(* form of its own.  The composer presented over the timeline is that of   *)
(* Composer.tla: Post submits its message, whenever it is tapped.          *)
(*                                                                         *)
(* The keyboard stays up when the indicator covers the screen: the form    *)
(* changes while an answer is outstanding, under the tap that comes after  *)
(* the answer.  A keystroke's observers are told in one turn of the main   *)
(* thread, so nothing else of that thread runs in between; Auth's queue    *)
(* does, and the process may die.                                          *)
(***************************************************************************)
EXTENDS Screens

CONSTANTS Empty,       \* the empty text
          MaxLate      \* bound: edits the composer has not passed on

ASSUME LateAssumption == MaxLate \in Nat

VARIABLES relay, direct, match, compared, enabled, hidden, telling, refused,
          text, message, postable, late

Form == INSTANCE Forms WITH Words <- Users
Draft == INSTANCE Composer WITH Words <- Users

formState ==
  <<relay, direct, match, compared, enabled, hidden, telling, refused>>
draft == <<text, message, postable, late>>

appVars == <<vars, formState, draft>>

-----------------------------------------------------------------------------
AppInit == Init /\ Form!Init /\ Draft!Init

(* Taps and callbacks that touch neither form nor draft. *)
Elsewhere ==
  /\ telling = <<>>
  /\ \/ \E u \in Users : LoginPressed(u)
     \/ Back \/ DismissAlert \/ LogoutPressed \/ LogoutFailed
     \/ CancelPressed \/ Database
  /\ UNCHANGED <<formState, draft>>

OpenForm == telling = <<>> /\ CreateAccountPressed /\ Form!Reopen /\ UNCHANGED draft

Create(u) ==
  /\ relay["email"] = u /\ Form!CreatePressed /\ CreatePressed(u)
  /\ UNCHANGED draft

Type == Creating /\ modal = "none" /\ Form!Typing /\ UNCHANGED <<vars, draft>>

Tell == Form!Telling /\ UNCHANGED <<vars, draft>>

Compose == NewPostPressed /\ Draft!Present /\ UNCHANGED formState

Write ==
  /\ modal = "composer" /\ \E t \in Draft!Texts : Draft!Typed(t)
  /\ UNCHANGED <<vars, formState>>

PassOn ==
  /\ modal = "composer" /\ Draft!PassOn
  /\ UNCHANGED <<vars, formState>>

Post == Draft!Submit /\ PostPressed /\ UNCHANGED formState

Answers == telling = <<>> /\ MainQueue /\ UNCHANGED <<formState, draft>>

AuthQueue == Auth /\ UNCHANGED <<formState, draft>>

Restart == Relaunch /\ Form!Reopen /\ Draft!Present

AppNext ==
  \/ Elsewhere \/ OpenForm \/ Type \/ Tell \/ Compose \/ Write \/ PassOn \/ Post
  \/ Answers \/ AuthQueue \/ Restart
  \/ \E u \in Users : Create(u)

(* The main thread ends its turn and serves its queue however fast the     *)
(* user types; Auth's requests are answered or time out.                   *)
AppSpec ==
  /\ AppInit /\ [][AppNext]_appVars
  /\ WF_appVars(AuthQueue) /\ WF_appVars(Tell) /\ SF_appVars(Answers)
-----------------------------------------------------------------------------
(* The form keeps its promises in the app, where it is opened again and    *)
(* again and typed into while an answer is outstanding                     *)
(* (CreateAccountViewController.swift:35-60).                              *)
FormTypeOK == Form!TypeOK

(* Button and label say of the texts as they are now what the view model   *)
(* means them to say (CreateAccountViewModel.swift:21-37).                 *)
FormAgrees == Form!FormAgrees

(* The view model's own check never has to refuse what the enabled button  *)
(* let through (CreateAccountViewModel.swift:55-59).                       *)
NeverRefused == Form!NeverRefused

(* The stale comparison in the middle of an update never lights the button *)
(* up (CreateAccountViewModel.swift:22-29).                                *)
NoFlash == [][~enabled /\ enabled' => Form!Complete]_formState

(* Auth is asked to create an account only by a form that is complete, and *)
(* for the name that stands in it then                                     *)
(* (CreateAccountViewController.swift:41-50).                              *)
OnlyCompleteForms ==
  [][\A c \in calls' \ calls : c.type = "createUser" =>
        Form!Complete /\ c.user = relay["email"]]_appVars

(* When the main queue has caught up with the user, what Post would submit *)
(* is what he sees (NewPostViewController.swift:55-62).                    *)
MessageFollowsText == Draft!MessageFollowsText

(* No empty post is ever submitted, however far the message is behind the  *)
(* text view, and through every composer presented after another           *)
(* (NewPostViewModel.swift:19-24, 35-41).                                  *)
NoEmptyPost == [][PostPressed => message # Empty]_appVars
=============================================================================
