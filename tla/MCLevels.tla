------------------------------ MODULE MCLevels -------------------------------
(* Two keys; deletions of the first one only, or of both.  Three keys leave *)
(* a gap between the first and the last.                                    *)
EXTENDS Scan

TwoKeys == {1, 2}
ThreeKeys == {1, 2, 3}
FirstOnly == {1}
=============================================================================
