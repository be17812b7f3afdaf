------------------------------- MODULE MCLookup -------------------------------
(* The parts of looking references up, each on its own: the requests of an   *)
(* invocation, a list that changes while it is paged through, two processes  *)
(* that resolve requests of two seasons of one show, and a downloaded file   *)
(* that becomes a transcript.  The part that a behaviour is about is chosen  *)
(* at the start; the others rest.                                            *)
EXTENDS Transport, Catalogue, Selections, Transcripts, TLC

VARIABLE part
lookupVars == <<part, transportVars, catalogueVars, selectionsVars, transcriptVars>>

(* Subtitle 2 is not eligible, 5 is labelled for another episode.            *)
MCVariant == [s \in Subtitles |-> IF s = 3 THEN 2 ELSE 1]
MCKind == [s \in Subtitles |-> CASE s = 2 -> "skipped" [] s = 5 -> "conflict"
                                 [] OTHER -> "eligible"]
MCWorth == [s \in Subtitles |-> IF s = 4 THEN 2 ELSE 1]

(* Variant 121 is episode 2 of season 1.                                     *)
MCSeason == [v \in Variants |-> v \div 100]
MCNumber == [v \in Variants |-> (v % 100) \div 10]
MCOf == [r \in Requests |-> IF r = "next season" THEN 2 ELSE 1]
MCEpisodes == [r \in Requests |-> IF r \in {"episode 1", "IMDb, episode 1"} THEN {1} ELSE {}]

(* Files of up to three records that are numbered, apart, timed and worded   *)
(* in one way or another.                                                    *)
Rule(a, b) == Line("time", a, b)
Piece(apart, number, timing, kinds) ==
    (IF apart THEN <<Line("blank", 0, 0)>> ELSE <<>>)
    \o (IF number = <<>> THEN <<>> ELSE <<Line("label", number[1], number[2])>>)
    \o <<timing>>
    \o [i \in DOMAIN kinds |-> Line(kinds[i], IF kinds[i] = "label" THEN 2 ELSE 0, 0)]
Firsts ==
    {Piece(FALSE, n, t, k) :
        n \in {<<>>, <<1, 0>>, <<2, 0>>}, t \in {Rule(1, 2), Rule(0, 0)},
        k \in {<<>>, <<"text">>, <<"text", "blank", "mark">>, <<"text", "digits">>,
               <<"text", "blank", "label">>}}
Seconds ==
    {Piece(s, n, t, k) :
        s \in BOOLEAN, n \in {<<>>, <<1, 0>>, <<1, 5>>, <<2, 0>>, <<3, 0>>},
        t \in {Rule(0, 1), Rule(1, 3), Line("loose", 1, 2), Rule(1, 1)},
        k \in {<<>>, <<"text">>, <<"arrow", "blank", "text">>, <<"text", "label">>, <<"hole">>}}
Thirds ==
    {Piece(s, n, t, k) :
        s \in BOOLEAN, n \in {<<>>, <<2, 0>>, <<3, 0>>}, t \in {Rule(0, 2), Rule(2, 1)},
        k \in {<<"text">>, <<"clock">>}}
ThreePieces == <<Firsts \union {<<>>}, Seconds \union {<<>>}, Thirds \union {<<>>}>>
NoPieces == <<{<<>>}, {<<>>}, {<<>>}>>

TransportRests == TransportInit /\ held = [f \in Files |-> "usable"]
CatalogueRests == CatalogueInit /\ query = "rank" /\ listing = <<>>
SelectionsRest == SelectionsInit /\ listed = {} /\ best = [v \in Variants |-> Unavailable]
                  /\ title = CHOOSE t \in Titles : TRUE

TranscriptsRest ==
    /\ lines = <<>>
    /\ work = "frame" /\ cause = "" /\ at = 1 /\ previous = <<>>
    /\ records = <<>> /\ retained = <<>> /\ policies = {} /\ transcript = <<>>

(* At first every variant is listed; 112 has no file yet.                    *)
SelectionsStart ==
    SelectionsInit /\ listed = Variants /\ title = (CHOOSE t \in Titles : TRUE)
    /\ best = [v \in Variants |-> IF v = 112 THEN Unavailable ELSE 1]

Init ==
    \/ /\ part = "transport"
       /\ CatalogueRests /\ SelectionsRest /\ TranscriptsRest /\ TransportInit
    \/ /\ part = "catalogue"
       /\ TransportRests /\ SelectionsRest /\ TranscriptsRest /\ CatalogueInit
    \/ /\ part = "selections"
       /\ TransportRests /\ CatalogueRests /\ TranscriptsRest /\ SelectionsStart
    \/ /\ part = "transcripts"
       /\ TransportRests /\ CatalogueRests /\ SelectionsRest /\ TranscriptsInit
Next ==
    \/ /\ part = "transport" /\ TransportNext
       /\ UNCHANGED <<part, catalogueVars, selectionsVars, transcriptVars>>
    \/ /\ part = "catalogue" /\ CatalogueNext
       /\ UNCHANGED <<part, transportVars, selectionsVars, transcriptVars>>
    \/ /\ part = "selections" /\ SelectionsNext
       /\ UNCHANGED <<part, transportVars, catalogueVars, transcriptVars>>
    \/ /\ part = "transcripts" /\ TranscriptsNext
       /\ UNCHANGED <<part, transportVars, catalogueVars, selectionsVars>>
Spec == Init /\ [][Next]_lookupVars

(* Every variable of the parts keeps its type.                               *)
LookupTyped ==
    TransportTypeOK /\ CatalogueTypeOK /\ SelectionsTypeOK /\ TranscriptsTypeOK

Interchangeable == Permutations(Processes)
=============================================================================
