------------------------------ MODULE Composer -------------------------------
(***************************************************************************)
(* The composer's text on its way to a post.  The text view reports an     *)
(* edit before it is quite done, so RxCocoa passes it on in a later turn   *)
(* of the main thread, and reads the text then: the view model's message,  *)
(* and with it the Post button, may be behind what the user sees when he   *)
(* taps.                                                                   *)
(***************************************************************************)
EXTENDS Integers

CONSTANTS Words, Empty,
          MaxLate      \* bound: edits not passed on yet

VARIABLES
  text,      \* what the text view shows
  message,   \* postMessage
  postable,  \* the Post button is enabled
  late       \* edits not passed on yet

vars == <<text, message, postable, late>>

Texts == Words \cup {Empty}

-----------------------------------------------------------------------------
Init == text = Empty /\ message = Empty /\ postable = FALSE /\ late = 0

(* Wrong: the button looks at the text view. *)
TypedAtOnce(t) ==
  /\ late < MaxLate /\ late' = late + 1
  /\ text' = t /\ postable' = (t # Empty)
  /\ UNCHANGED message

(* An edit, or autocorrection. *)
Typed(t) ==
  /\ late < MaxLate /\ late' = late + 1
  /\ text' = t
  /\ UNCHANGED <<message, postable>>

(* Wrong: a text that was erased is not passed on. *)
PassOnWords ==
  /\ late > 0 /\ late' = late - 1
  /\ message' = IF text = Empty THEN message ELSE text
  /\ postable' = (message' # Empty)
  /\ UNCHANGED text

(* A report reaches postMessage, and the button hears of it at once. *)
PassOn ==
  /\ late > 0 /\ late' = late - 1
  /\ message' = text /\ postable' = (text # Empty)
  /\ UNCHANGED text

(* addPost() takes the message as it is. *)
Submit == postable /\ UNCHANGED vars

(* Presented again, with a view model of its own; reports for the old one  *)
(* go nowhere.                                                             *)
Present ==
  text' = Empty /\ message' = Empty /\ postable' = FALSE /\ late' = 0

Next == (\E t \in Texts : Typed(t)) \/ PassOn \/ Submit \/ Present

Spec == Init /\ [][Next]_vars
-----------------------------------------------------------------------------
(* When the main queue has caught up with the user, what a tap on Post     *)
(* would submit is what he sees, and the button is enabled if that is      *)
(* anything (NewPostViewController.swift:55-62).                           *)
MessageFollowsText ==
  late = 0 => message = text /\ postable = (text # Empty)
=============================================================================
