----------------------------- MODULE MCTimeline -----------------------------
(* Two of three posts belong to Ana and two carry the same timestamp. *)
EXTENDS Timeline

CONSTANTS p1, p2, p3, ana, bob

MCPosts == {p1, p2, p3}
MCUsers == {ana, bob}
MCAuthor == [p \in MCPosts |-> IF p = p3 THEN bob ELSE ana]
MCTimestamp == [p \in MCPosts |-> IF p = p1 THEN 1 ELSE 2]
=============================================================================
