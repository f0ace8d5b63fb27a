-------------------------------- MODULE Forms --------------------------------
(***************************************************************************)
(* The create-account form: three text relays and the RxSwift graph that   *)
(* drives the button and the mismatch label.                               *)
(*                                                                         *)
(*   email ------------------------------> +---------------+               *)
(*   password ---> +---------+ ----------> | combineLatest | ---> button   *)
(*            \--> | matches | --match---> |               |               *)
(*   confirm  ---> +---------+ ----------> +---------------+               *)
(*                                                                         *)
(* The graph is not evaluated at once: a relay tells its observers of a    *)
(* new text one after the other, in the order they subscribed, and after   *)
(* the first of them the button's combination holds the new password next  *)
(* to the comparison of the old one.  The label has a second instance of   *)
(* "matches" of its own.  A step is one observer being told.               *)
(***************************************************************************)
EXTENDS Integers, Sequences

CONSTANTS Words,       \* what may be typed
          Empty        \* the empty text

Texts == Words \cup {Empty}

VARIABLES
  relay,      \* relay[f]: the text of field f
  direct,     \* direct[f]: the last text of f the button's combination got
  match,      \* the last comparison it got
  compared,   \* compared[i][f]: the texts "matches" holds, for i its
              \*   instances under the button and under the label
  enabled,    \* the button is enabled
  hidden,     \* the mismatch label is hidden
  telling,    \* observers still to be told of the last edit
  refused     \* createAccount() has answered an enabled button with an error

formVars == <<direct, match, compared, enabled, hidden>>
vars == <<relay, formVars, telling, refused>>

-----------------------------------------------------------------------------
Fields == {"email", "password", "confirm"}
Passwords == {"password", "confirm"}
Instances == {"button", "label"}

(* Wrong: the label hears of the password only. *)
ObserversHalfLabelled(f) ==
  <<[node |-> "direct", field |-> f]>>
  \o (IF f = "email" THEN <<>> ELSE <<[node |-> "button", field |-> f]>>)
  \o (IF f = "password" THEN <<[node |-> "label", field |-> f]>> ELSE <<>>)

(* The order of subscription: the button's combination first, source by    *)
(* source, "matches" being its last one; then the label.                   *)
Observers(f) ==
  <<[node |-> "direct", field |-> f]>>
  \o IF f = "email" THEN <<>>
     ELSE <<[node |-> "button", field |-> f], [node |-> "label", field |-> f]>>

Matches(texts) == texts["password"] = texts["confirm"]

(* Wrong: the comparison is left out. *)
CombineUnmatched(texts, matching) == \A f \in Fields : texts[f] # Empty

(* isCreateAccountButtonEnabled *)
Combine(texts, matching) == matching /\ \A f \in Fields : texts[f] # Empty

(* What the user is told by the form: three texts, two of them equal. *)
Complete == Matches(relay) /\ \A f \in Fields : relay[f] # Empty

-----------------------------------------------------------------------------
Init ==
  /\ relay = [f \in Fields |-> Empty] /\ direct = relay
  /\ match = TRUE
  /\ compared = [i \in Instances |-> [f \in Passwords |-> Empty]]
  /\ enabled = FALSE /\ hidden = TRUE
  /\ telling = <<>> /\ refused = FALSE

(* A keystroke: the text goes into the relay.  The next one waits until    *)
(* all observers have been told: all this is one turn of the main thread.  *)
Edit(f, text) ==
  /\ telling = <<>>
  /\ relay' = [relay EXCEPT ![f] = text]
  /\ telling' = Observers(f)
  /\ UNCHANGED <<formVars, refused>>

Told(node) ==
  /\ telling # <<>> /\ Head(telling).node = node
  /\ telling' = Tail(telling)

(* combineLatest hears of a text itself. *)
TellDirect ==
  /\ Told("direct")
  /\ LET f == Head(telling).field IN direct' = [direct EXCEPT ![f] = relay[f]]
  /\ enabled' = Combine(direct', match)
  /\ UNCHANGED <<relay, match, compared, hidden, refused>>

(* Wrong: the combination hears of texts only. *)
TellMatchesSilently ==
  /\ Told("button")
  /\ LET f == Head(telling).field
     IN  compared' = [compared EXCEPT !["button"][f] = relay[f]]
  /\ match' = Matches(compared'["button"])
  /\ UNCHANGED <<relay, direct, enabled, hidden, refused>>

(* distinctUntilChanged: the combination hears of a new comparison only if *)
(* it differs from the last.                                               *)
TellMatches ==
  /\ Told("button")
  /\ LET f == Head(telling).field
     IN  compared' = [compared EXCEPT !["button"][f] = relay[f]]
  /\ match' = Matches(compared'["button"])
  /\ enabled' = IF match' # match THEN Combine(direct, match') ELSE enabled
  /\ UNCHANGED <<relay, direct, hidden, refused>>

TellLabel ==
  /\ Told("label")
  /\ LET f == Head(telling).field
     IN  compared' = [compared EXCEPT !["label"][f] = relay[f]]
  /\ hidden' = Matches(compared'["label"])
  /\ UNCHANGED <<relay, direct, match, enabled, refused>>

(* A tap on the enabled button; createAccount() looks at the relays again  *)
(* and refuses passwords that differ.                                      *)
CreatePressed ==
  /\ telling = <<>> /\ enabled
  /\ refused' = (refused \/ ~Matches(relay))
  /\ UNCHANGED <<relay, formVars, telling>>

Typing == \E f \in Fields, text \in Texts : Edit(f, text)

Telling == TellDirect \/ TellMatches \/ TellLabel

(* The screen is opened again, with a view model of its own. *)
Reopen ==
  /\ relay' = [f \in Fields |-> Empty] /\ direct' = relay'
  /\ match' = TRUE
  /\ compared' = [i \in Instances |-> [f \in Passwords |-> Empty]]
  /\ enabled' = FALSE /\ hidden' = TRUE
  /\ telling' = <<>>
  /\ UNCHANGED refused

Next == Typing \/ Telling \/ CreatePressed \/ Reopen

Spec == Init /\ [][Next]_vars
-----------------------------------------------------------------------------
(* The graph's state has its type (CreateAccountViewModel.swift:18-37). *)
TypeOK ==
  /\ relay \in [Fields -> Texts] /\ direct \in [Fields -> Texts]
  /\ match \in BOOLEAN
  /\ compared \in [Instances -> [Passwords -> Texts]]
  /\ enabled \in BOOLEAN /\ hidden \in BOOLEAN /\ refused \in BOOLEAN
  /\ \E f \in Fields : \E n \in 0 .. 3 :
       telling = SubSeq(Observers(f), n + 1, Len(Observers(f)))

(* When every observer has been told, button and label say of the texts as *)
(* they are now what the view model means them to say, whatever order and  *)
(* duplicates the graph went through (CreateAccountViewModel.swift:21-37). *)
FormAgrees ==
  telling = <<>> => enabled = Complete /\ hidden = Matches(relay)

(* The stale comparison in the middle of an update never lights the button *)
(* up: it comes on only for a form that is complete                        *)
(* (CreateAccountViewModel.swift:22-29).                                   *)
NoFlash == [][~enabled /\ enabled' => Complete]_vars

(* The view model's own check of the passwords never has to refuse a form  *)
(* the enabled button let through (CreateAccountViewModel.swift:55-59).    *)
NeverRefused == ~refused
=============================================================================
