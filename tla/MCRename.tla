------------------------------ MODULE MCRename ------------------------------
(* Rename on folders of up to three scanned files a, b, c: A and D are a's   *)
(* and d's names in another case, ta.. are temporary names.                  *)
EXTENDS Rename

Spellings == {"a", "b", "c", "A", "d", "D", "ta", "tb", "tc"}
TwoSpellings == {"a", "b", "A", "ta1", "tb1"}

Folded == [n \in Names |-> IF n = "A" THEN "a" ELSE IF n = "D" THEN "d" ELSE n]
(* The file system takes only some of the names for one that the program     *)
(* does.                                                                     *)
PartlyFolded == [n \in Names |-> IF n = "A" THEN "a" ELSE n]
Exact == [n \in Names |-> n]
(* The file system takes A and b for the same name and the program does not  *)
(* know: an alias.                                                           *)
Aliased == [n \in Names |-> IF n = "A" THEN "b" ELSE n]

ThreePaths == <<"a", "b", "c">>
ThreeTemps == <<{"ta"}, {"tb"}, {"tc"}>>
ThreeMedia == <<"fa", "fb", "fc">>
TwoPaths == <<"a", "b">>
TwoTemps == <<{"ta1"}, {"tb1"}>>
TwoMedia == <<"fa", "fb">>

(* Every combination of outcomes ...                                         *)
AllScans == [Entries -> Outcomes]
(* ... or those the destinations of which depend on one another.             *)
Asks(n) == [kind |-> "identified", target |-> n]
Unmatched == [kind |-> "unknown", target |-> NoName]
Entangled == {<<Asks("b"), Asks("a")>>,      \* a swap
              <<Asks("b"), Asks("A")>>,      \* a cycle through another case
              <<Asks("A"), Asks("a")>>,      \* case-only and a clash with it
              <<Asks("A"), Unmatched>>,      \* case-only
              <<Asks("b"), Unmatched>>,      \* a blocked destination
              <<Asks("b"), Asks("b")>>}      \* one destination for two
Nobody == {}
AtPrompt == {"prompt"}
Always == Phases \ {"done"}
=============================================================================
