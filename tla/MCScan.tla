-------------------------------- MODULE MCScan --------------------------------
(* What the scan of a file does, from its bytes to its verdict, each part on *)
(* its own: the readers of Matroska, MP4 and PGS, the decisions of the scan  *)
(* while the file is being replaced, the chain of anchors and the match.     *)
(* The part that a behaviour is about is chosen at the start; others rest.   *)
EXTENDS MCAlign, MCMatching, MCMedia

VARIABLE topic
scanPartsVars ==
    <<topic, alignVars, matchingVars, readingVars, pgsVars, matroskaVars, mp4Vars>>

AlignRests == anchors = <<>> /\ AlignInit
MatchingRests == case = NothingGiven /\ MatchingInit
MatroskaRests == file = NoTracks /\ MatroskaInit
Mp4Rests == index = NoBoxes /\ Mp4Init

Init ==
    \/ /\ topic = "align"
       /\ MatchingRests /\ ReadingInit /\ PgsInit /\ MatroskaRests /\ Mp4Rests /\ AlignInit
    \/ /\ topic = "match"
       /\ AlignRests /\ ReadingInit /\ PgsInit /\ MatroskaRests /\ Mp4Rests /\ MatchingInit
    \/ /\ topic \in {"scan", "pgs"}
       /\ AlignRests /\ MatchingRests /\ ReadingInit /\ PgsInit /\ MatroskaRests /\ Mp4Rests
    \/ /\ topic = "matroska"
       /\ AlignRests /\ MatchingRests /\ ReadingInit /\ PgsInit /\ Mp4Rests /\ MatroskaInit
    \/ /\ topic = "mp4"
       /\ AlignRests /\ MatchingRests /\ ReadingInit /\ PgsInit /\ MatroskaRests /\ Mp4Init

Next ==
    \/ /\ topic = "align" /\ AlignNext
       /\ UNCHANGED <<topic, matchingVars, readingVars, pgsVars, matroskaVars, mp4Vars>>
    \/ /\ topic = "match" /\ MatchingNext
       /\ UNCHANGED <<topic, alignVars, readingVars, pgsVars, matroskaVars, mp4Vars>>
    \/ /\ topic = "scan" /\ ReadingNext
       /\ UNCHANGED <<topic, alignVars, matchingVars, pgsVars, matroskaVars, mp4Vars>>
    \/ /\ topic = "pgs" /\ PgsNext
       /\ UNCHANGED <<topic, alignVars, matchingVars, readingVars, matroskaVars, mp4Vars>>
    \/ /\ topic = "matroska" /\ MatroskaNext
       /\ UNCHANGED <<topic, alignVars, matchingVars, readingVars, pgsVars, mp4Vars>>
    \/ /\ topic = "mp4" /\ Mp4Next
       /\ UNCHANGED <<topic, alignVars, matchingVars, readingVars, pgsVars, matroskaVars>>

Spec == Init /\ [][Next]_scanPartsVars

(* Every variable of the parts keeps its type.                               *)
ScanTyped == /\ AlignTypeOK /\ MatchingTypeOK /\ ReadingTypeOK
             /\ PgsTypeOK /\ MatroskaTypeOK /\ Mp4TypeOK
=============================================================================
