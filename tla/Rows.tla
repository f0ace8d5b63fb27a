-------------------------------- MODULE Rows --------------------------------
(***************************************************************************)
(* What the timeline screen promises about its rows, without their order:  *)
(* how many rows show each post.  A load gives every post of the snapshot  *)
(* one row, an "added" event one more row to its post, a "removed" event   *)
(* takes away one row of its post and of no other, and nothing else        *)
(* changes a row while the screen is up.                                   *)
(*                                                                         *)
(* Timeline.tla (the view model's array and the table's index paths)       *)
(* implements this specification; PostsSync.tla uses the same counting.    *)
(***************************************************************************)
EXTENDS Integers

CONSTANT Posts         \* the posts that can ever be on the board

VARIABLES phase,       \* "closed", "loading", "live" or "failed"
          rows         \* rows[p]: how many rows show post p

vars == <<phase, rows>>

NoRows == [p \in Posts |-> 0]

OneRowEach(S) == [p \in Posts |-> IF p \in S THEN 1 ELSE 0]

Init == phase = "closed" /\ rows = NoRows

Open == phase = "closed" /\ phase' = "loading" /\ rows' = NoRows

Load(S) == phase = "loading" /\ phase' = "live" /\ rows' = OneRowEach(S)

Fail == phase = "loading" /\ phase' = "failed" /\ UNCHANGED rows

Insert(p) ==
  phase = "live" /\ rows' = [rows EXCEPT ![p] = @ + 1] /\ UNCHANGED phase

Drop(p) ==
  /\ phase = "live" /\ rows[p] > 0
  /\ rows' = [rows EXCEPT ![p] = @ - 1]
  /\ UNCHANGED phase

Close == phase # "closed" /\ phase' = "closed" /\ rows' = NoRows

Next ==
  \/ Open \/ Fail \/ Close
  \/ \E S \in SUBSET Posts : Load(S)
  \/ \E p \in Posts : Insert(p) \/ Drop(p)

Spec == Init /\ [][Next]_vars
=============================================================================
