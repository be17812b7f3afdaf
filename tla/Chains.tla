------------------------------- MODULE Chains -------------------------------
(* What counts as evidence for a reference: anchors, pairs of a query cue    *)
(* and a reference cue that share words (lib.rs Anchor), and the chains of   *)
(* anchors that support one another independently.  This is a definition;    *)
(* how the program finds the best chain is Align's concern.                  *)
EXTENDS Integers, Sequences

CONSTANTS Separation,  \* MIN_SEPARATION_MS
          Spread       \* MAX_OFFSET_SPREAD_MS

ASSUME ChainsAssumption == Separation \in Nat \ {0} /\ Spread \in Nat

Anchors == [q : Nat, r : Nat, support : Nat \ {0}]

Offset(a) == a.r - a.q

(* Sequences of positions of s, in order and separated in both transcripts,  *)
(* with offsets no further apart than the spread.  A chain cannot be longer  *)
(* than s.                                                                   *)
Separated(a, b) == b.q - a.q >= Separation /\ b.r - a.r >= Separation
IsChain(s, c) ==
    /\ \A k \in 1..(Len(c) - 1) : Separated(s[c[k]], s[c[k + 1]])
    /\ \A k, l \in 1..Len(c) : Offset(s[c[k]]) - Offset(s[c[l]]) <= Spread
ChainsIn(s) ==
    {c \in UNION {[1..n -> 1..Len(s)] : n \in 1..Len(s)} : IsChain(s, c)}
=============================================================================
