------------------------------ MODULE MCMatching ------------------------------
(* Matching on small transcripts: every way two cues of the query and of two *)
(* references may share, repeat or lack three shingles; longer transcripts   *)
(* of which each reference has so many cues from one end, some of them in    *)
(* both; and lists of references that are refused.                           *)
EXTENDS Matching

CONSTANTS Sayings,   \* what a cue of the short transcripts may say
          Later      \* when the second cue of the query may start

Short == {<<[start |-> 0, says |-> a], [start |-> 2, says |-> b]>> : a, b \in Sayings}
ShortQuery == {<<[start |-> 0, says |-> a], [start |-> t, says |-> b]>> :
                  a, b \in Sayings, t \in Later}
Named(id, text) == [id |-> id, cues |-> text]
Mixed == {[references |-> <<Named(2, a), Named(1, b)>>, query |-> q] :
             a, b \in Short, q \in ShortQuery}

Cues == 1..6
Words(k) == <<2 * k, 2 * k + 1>>
Script(mine) == [k \in Cues |-> [start |-> 2 * k, says |-> IF k \in mine THEN Words(k) ELSE <<>>]]
Split == {[references |-> <<Named(3, Script({})), Named(2, Script(1..m)), Named(1, Script(n..6))>>,
           query |-> Script(Cues)] : m \in 0..6, n \in 1..7}

Refused == {[references |-> r, query |-> Script({})] :
               r \in {<<>>, [n \in 1..4 |-> Named(n, Script({n}))],
                      <<Named(1, Script({1})), Named(1, Script({2}))>>,
                <<Named(1, Script(Cues)), Named(2, <<[start |-> 0, says |-> Words(9)]>>)>>}}

Says == {<<1, 2>>, <<3, 4>>, <<2, 3>>, <<1, 2, 1>>}
AThird == <<3, 1>>

AllCases == Mixed \union Split \union Refused
NothingGiven == [references |-> <<>>, query |-> Script({})]
=============================================================================
