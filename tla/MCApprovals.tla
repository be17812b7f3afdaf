----------------------------- MODULE MCApprovals -----------------------------
(* Two episodes: one with enough alternatives to reach the limit, one with   *)
(* none left after the first.                                                *)
EXTENDS Approvals

Others == [o \in Origins |-> IF o = 1 THEN {11, 12, 13} ELSE {21}]
=============================================================================
