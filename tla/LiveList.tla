------------------------------ MODULE LiveList ------------------------------
(***************************************************************************)
(* What all timeline screens together promise, with no server, queue or    *)
(* connection in sight.  A screen shows only posts that were posted, each  *)
(* twice at the most; and once it is up, a row leaves it only because      *)
(* somebody who saw the post asked to remove it.                           *)
(*                                                                         *)
(* It does not promise that a screen shows every post: the program does    *)
(* not keep that (see TimelineUpToDate in PostsSync.tla).                  *)
(***************************************************************************)
EXTENDS Integers

CONSTANTS Clients, Posts

VARIABLES posted,    \* posts that were ever posted
          removed,   \* posts somebody asked to remove
          phase,     \* phase[c]: "closed", "loading", "live" or "failed"
          rows       \* rows[c][p]: how many rows of c show post p

vars == <<posted, removed, phase, rows>>

NoRows == [p \in Posts |-> 0]
OneRowEach(S) == [p \in Posts |-> IF p \in S THEN 1 ELSE 0]

Init ==
  /\ posted = {} /\ removed = {}
  /\ phase = [c \in Clients |-> "closed"]
  /\ rows = [c \in Clients |-> NoRows]

Post(p) ==
  /\ p \notin posted /\ posted' = posted \cup {p}
  /\ UNCHANGED <<removed, phase, rows>>

Remove(p) ==
  /\ \E c \in Clients : rows[c][p] > 0
  /\ removed' = removed \cup {p}
  /\ UNCHANGED <<posted, phase, rows>>

Open(c) ==
  /\ phase[c] = "closed" /\ phase' = [phase EXCEPT ![c] = "loading"]
  /\ UNCHANGED <<posted, removed, rows>>

Load(c, S) ==
  /\ phase[c] = "loading" /\ phase' = [phase EXCEPT ![c] = "live"]
  /\ S \subseteq posted /\ rows' = [rows EXCEPT ![c] = OneRowEach(S)]
  /\ UNCHANGED <<posted, removed>>

Fail(c) ==
  /\ phase[c] = "loading" /\ phase' = [phase EXCEPT ![c] = "failed"]
  /\ UNCHANGED <<posted, removed, rows>>

Insert(c, p) ==
  /\ phase[c] = "live" /\ p \in posted /\ rows[c][p] < 2
  /\ rows' = [rows EXCEPT ![c][p] = @ + 1]
  /\ UNCHANGED <<posted, removed, phase>>

Drop(c, p) ==
  /\ phase[c] = "live" /\ p \in removed /\ rows[c][p] > 0
  /\ rows' = [rows EXCEPT ![c][p] = @ - 1]
  /\ UNCHANGED <<posted, removed, phase>>

Close(c) ==
  /\ phase[c] # "closed" /\ phase' = [phase EXCEPT ![c] = "closed"]
  /\ rows' = [rows EXCEPT ![c] = NoRows]
  /\ UNCHANGED <<posted, removed>>

Next ==
  \/ \E p \in Posts : Post(p) \/ Remove(p)
  \/ \E c \in Clients :
       \/ Open(c) \/ Fail(c) \/ Close(c)
       \/ \E S \in SUBSET posted : Load(c, S)
       \/ \E p \in Posts : Insert(c, p) \/ Drop(c, p)

Spec == Init /\ [][Next]_vars
=============================================================================
