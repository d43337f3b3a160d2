------------------------- MODULE MCProgressThrottle -------------------------
(* ProgressThrottle for TLC: a pair whose reads fall into many steps of    *)
(* ten percent and whose file may be emptied, cut short or grow while it   *)
(* is read, and one whose file is read in one go.                          *)
EXTENDS ProgressThrottle

CONSTANTS photo, note

Both == {photo, note}
SizesOf == [k \in Keys |-> IF k = photo THEN {0, 5, 12} ELSE {1}]
=============================================================================
