---------------------------- MODULE MCSharedCache ----------------------------
(* Instances of SharedCache for TLC: one file per season; and a season of a  *)
(* pair of files beside one of a single file.                                *)
EXTENDS SharedCache, TLC

FilePerSeason == (1 :> "s1") @@ (2 :> "s2")
PairAndSingle == (1 :> "s1") @@ (2 :> "s1") @@ (3 :> "s2")

Two == {{1}, {2}}
Pair == {{1, 2}, {3}}

Alike == Permutations(Process)
=============================================================================
