------------------------------- MODULE MCAlign -------------------------------
(* Align on every list of up to MaxAnchors anchors at a few starts and       *)
(* offsets: both lie on, below and above the edges of separation and spread. *)
EXTENDS Align

CONSTANTS QueryStarts, Offsets, Weights, MaxAnchors

Points == {[q |-> q, r |-> q + o, support |-> w] :
              q \in QueryStarts, o \in Offsets, w \in Weights}
Ordered(s) == \A i \in 1..(Len(s) - 1) : s[i].q <= s[i + 1].q
Lists == UNION {{s \in [1..n -> Points] : Ordered(s)} : n \in 0..MaxAnchors}
=============================================================================
