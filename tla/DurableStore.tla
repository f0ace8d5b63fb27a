----------------------------- MODULE DurableStore -----------------------------
(***************************************************************************)
(* What leveldb promises of the writes it has acknowledged, whatever files *)
(* it keeps them in: nobody takes one away but a crash of the machine, and *)
(* that spares the synced ones.  A write that was asked for and not yet    *)
(* acknowledged may turn up after a restart, or not.                       *)
(***************************************************************************)
EXTENDS Integers

CONSTANTS Writes, SyncWrites    \* all writes, and those asked to be synced

VARIABLES
  asked,     \* the writes asked for
  kept,      \* the writes a reader finds, or would find after a restart
  forced,    \* the synced writes acknowledged
  outages    \* crashes of the machine

vars == <<asked, kept, forced, outages>>

Init == asked = {} /\ kept = {} /\ forced = {} /\ outages = 0

Ask(w) ==
  /\ w \notin asked /\ asked' = asked \cup {w}
  /\ UNCHANGED <<kept, forced, outages>>

Acknowledge(W) ==
  /\ kept' = kept \cup W /\ forced' = forced \cup (W \cap SyncWrites)
  /\ UNCHANGED <<asked, outages>>

Restart ==
  /\ kept' \in SUBSET asked /\ kept \subseteq kept'
  /\ UNCHANGED <<asked, forced, outages>>

Outage ==
  /\ kept' \in SUBSET asked /\ forced \subseteq kept'
  /\ outages' = outages + 1
  /\ UNCHANGED <<asked, forced>>

Next ==
  \/ \E w \in Writes : Ask(w)
  \/ \E W \in SUBSET asked : Acknowledge(W)
  \/ Restart \/ Outage

Spec == Init /\ [][Next]_vars
=============================================================================
