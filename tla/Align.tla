-------------------------------- MODULE Align --------------------------------
(* lib.rs align: the best chain of anchors, found window by window.  Every   *)
(* observed offset opens a window of offsets; within it, one anchor after    *)
(* another is put at the end of the best chain it can prolong.               *)
EXTENDS Chains

CONSTANT Inputs  \* sequences of anchors, as match_query_with_limits lists them

(* The pairs are listed by query cue, and cues start in order.               *)
ASSUME InputsAssumption ==
    /\ Inputs \subseteq Seq(Anchors)
    /\ \A s \in Inputs : \A i, j \in 1..Len(s) : i < j => s[i].q <= s[j].q

VARIABLES anchors,   \* the argument
          aligning,        \* "next": before a window, "scan": within one
          lowers,    \* offsets the windows of which are still to be opened
          lower,     \* the start of the window
          ranks,     \* per anchor scanned: length and support of its chain
          trails,    \* per anchor scanned: the chain `previous` leads back on
          best, bestRank

alignVars == <<anchors, aligning, lowers, lower, ranks, trails, best, bestRank>>

Ranks == Nat \X Nat
NoRank == <<0, 0>>

AlignTypeOK ==
    /\ anchors \in Seq(Anchors)
    /\ aligning \in {"next", "scan"}
    /\ lowers \subseteq {Offset(anchors[i]) : i \in 1..Len(anchors)}
    /\ lower \in Int
    /\ ranks \in Seq(Ranks) /\ trails \in Seq(Seq(Nat))
    /\ best \in Seq(Nat) /\ bestRank \in Ranks

MutOpenings == {anchors[i].r : i \in 1..Len(anchors)}
Openings == {Offset(anchors[i]) : i \in 1..Len(anchors)}

AlignInit ==
    /\ anchors \in Inputs
    /\ aligning = "next"
    /\ lowers = Openings
    /\ lower = 0
    /\ ranks = <<>> /\ trails = <<>>
    /\ best = <<>> /\ bestRank = NoRank

(* Tuples compare from the left.                                             *)
Better(a, b) == a[1] > b[1] \/ (a[1] = b[1] /\ a[2] > b[2])

NextWindow ==
    /\ aligning = "next"
    /\ \E low \in lowers :
          /\ \A other \in lowers : low <= other
          /\ lower' = low
          /\ lowers' = lowers \ {low}
    /\ ranks' = <<>> /\ trails' = <<>>
    /\ aligning' = "scan"
    /\ UNCHANGED <<anchors, best, bestRank>>

MutWithin(a) == Offset(a) >= lower /\ Offset(a) < lower + Spread
Within(a) == Offset(a) >= lower /\ Offset(a) <= lower + Spread

(* Anchors scanned in this window after which i may come.                    *)
MutFollows(i, j) == anchors[i].q >= anchors[j].q + Separation
Follows(i, j) == /\ anchors[i].q >= anchors[j].q + Separation
                 /\ anchors[i].r >= anchors[j].r + Separation
Predecessors(i) == {j \in 1..(i - 1) : Within(anchors[j]) /\ Follows(i, j)}

Proposed(j, i) == <<ranks[j][1] + 1, ranks[j][2] + anchors[i].support>>

(* The first of those that propose the highest rank.                         *)
MutChosen(j, i) ==
    /\ j \in Predecessors(i)
    /\ \A k \in Predecessors(i) : k <= j
Chosen(j, i) ==
    /\ j \in Predecessors(i)
    /\ \A k \in Predecessors(i) : /\ ~Better(Proposed(k, i), Proposed(j, i))
                                  /\ k < j => Better(Proposed(j, i), Proposed(k, i))

Record(trail, rank) ==
    /\ trails' = Append(trails, trail)
    /\ ranks' = Append(ranks, rank)
    /\ IF Better(rank, bestRank)
       THEN best' = trail /\ bestRank' = rank
       ELSE UNCHANGED <<best, bestRank>>
    /\ UNCHANGED <<anchors, aligning, lowers, lower>>

(* An anchor outside the window has no chain.                                *)
Scan ==
    /\ aligning = "scan"
    /\ Len(ranks) < Len(anchors)
    /\ LET i == Len(ranks) + 1 IN
          \/ ~Within(anchors[i]) /\ Record(<<>>, NoRank)
          \/ /\ Within(anchors[i]) /\ Predecessors(i) = {}
             /\ Record(<<i>>, <<1, anchors[i].support>>)
          \/ /\ Within(anchors[i])
             /\ \E j \in Predecessors(i) :
                   Chosen(j, i) /\ Record(Append(trails[j], i), Proposed(j, i))

WindowEnds ==
    /\ aligning = "scan"
    /\ Len(ranks) = Len(anchors)
    /\ aligning' = "next"
    /\ UNCHANGED <<anchors, lowers, lower, ranks, trails, best, bestRank>>

Aligned == aligning = "next" /\ lowers = {}
AlignReturned == Aligned /\ UNCHANGED alignVars

AlignNext == NextWindow \/ Scan \/ WindowEnds \/ AlignReturned

AlignSpec == AlignInit /\ [][AlignNext]_alignVars
-----------------------------------------------------------------------------
(* What align returns is a chain that stays within the spread, in order and  *)
(* separated in both transcripts, and its length is the rank it was given.   *)
BestIsChain ==
    best # <<>> => best \in ChainsIn(anchors) /\ bestRank[1] = Len(best)

(* No chain is longer than the one returned: an observed offset opens every  *)
(* window that matters, and a chain that ends in an anchor is prolonged from *)
(* one as long as any.  The length is the score of the reference.            *)
NoLongerChain ==
    Aligned => \A c \in ChainsIn(anchors) : Len(c) <= Len(best)

(* The score of a reference is the length of its longest chain.              *)
BestIsLongest == BestIsChain /\ NoLongerChain

(* Of the longest chains, one with the most shingles is returned.            *)
Support(c) == LET sum[k \in 0..Len(c)] ==
                      IF k = 0 THEN 0 ELSE sum[k - 1] + anchors[c[k]].support
              IN sum[Len(c)]
RankOf(c) == <<Len(c), Support(c)>>
BestSupported ==
    Aligned => /\ bestRank = RankOf(best)
            /\ \A c \in ChainsIn(anchors) : ~Better(RankOf(c), bestRank)
=============================================================================
