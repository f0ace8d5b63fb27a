---------------------------- MODULE MCPostsSync -----------------------------
(* Two clients; the first one makes all the posts.  Whether the second is  *)
(* another user or the same user's second device is up to the .cfg.        *)
EXTENDS PostsSync

CONSTANTS c1, c2, p1, p2

OneClient == {c1}
MCClients == {c1, c2}
OnePost == {p1}
TwoPosts == {p1, p2}
ByFirst == [p \in Posts |-> c1]
TwoUsers == [c \in Clients |-> c]
SameUser == [c \in Clients |-> "ana"]
OneScreen == [c \in Clients |-> 1]
TwoScreens == [c \in Clients |-> 2]
TwoThenOne == [c \in Clients |-> IF c = c1 THEN 2 ELSE 1]
NoTaps == [c \in Clients |-> 0]
OneTapEach == [c \in Clients |-> 1]
TapBySecond == [c \in Clients |-> IF c = c2 THEN 1 ELSE 0]
=============================================================================
