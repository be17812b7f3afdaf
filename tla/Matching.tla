------------------------------- MODULE Matching -------------------------------
(* lib.rs Index::build and match_query_with_limits: which reference a query  *)
(* transcript is identified as.  A shingle, three words in a row, is a       *)
(* number; a cue is its start and the shingles it says, one after another.   *)
(* The score of a reference is the length of the chain Align returns.        *)
EXTENDS Chains, FiniteSets

CONSTANTS Cases,          \* [references, query]: what is given
          MaxReferences,
          MaxShingles,    \* MAX_INDEX_SHINGLES
          PerReference, TotalPairs,    \* PairLimits
          MinShingles,    \* 2: cues that share fewer are no anchor
          MinSupport,     \* MIN_SUPPORT
          Share           \* <<5, 4>>: a runner-up with 4/5 of the best score

(* References have ids in an order, and both sides have transcripts.         *)
Texts == Seq([start : Nat, says : Seq(Nat)])

ASSUME MatchingAssumption ==
    /\ Cases \subseteq [references : Seq([id : Nat \ {0}, cues : Texts]),
                      query : Texts]
    /\ MaxReferences \in Nat /\ MaxShingles \in Nat
    /\ PerReference \in Nat \ {0} /\ TotalPairs \in Nat \ {0}
    /\ MinShingles \in Nat \ {0} /\ MinSupport \in Nat \ {0}
    /\ Share \in (Nat \ {0}) \X (Nat \ {0})

VARIABLES case,      \* the arguments
          matching,
          todo,      \* what the current loop has yet to visit
          known,     \* `all` of build: shingle -> owners, and its one place
          postings,  \* shingle -> where it is said, if it tells one apart
          pairs,     \* reference, query cue, reference cue -> shared shingles
          candidates,
          verdict

matchingVars == <<case, matching, todo, known, postings, pairs, candidates, verdict>>

References == case.references
Ids == {References[n].id : n \in DOMAIN References}
Text(id) == (CHOOSE r \in {References[n] : n \in DOMAIN References} : r.id = id).cues
Query == case.query

(* Where transcript t says shingle s.                                        *)
Mentions(t, s) == {m \in UNION {{k} \X (DOMAIN t[k].says) : k \in DOMAIN t} :
                      t[m[1]].says[m[2]] = s}
ShinglesOf(t) == UNION {{t[k].says[p] : p \in DOMAIN t[k].says} : k \in DOMAIN t}

(* shingles: the cue of a shingle said once, within one cue even.            *)
None == 0
CueOf(t, s) == LET m == Mentions(t, s)
               IN IF Cardinality(m) = 1 THEN (CHOOSE x \in m : TRUE)[1] ELSE None

(* Maps are walked in the order of their keys.                               *)
Before(a, b) == a[1] < b[1] \/ (a[1] = b[1] /\ a[2] < b[2])
IsFirst(a, set) == \A b \in set \ {a} : Before(a, b)

With(f, x, value) == [y \in DOMAIN f \union {x} |-> IF y = x THEN value ELSE f[y]]

Nobody == 0
Plainly(what) == [is |-> what, id |-> Nobody]
Identified(id) == [is |-> "identified", id |-> id]
Errors == {"NoReferences", "reference count", "DuplicateReferenceId",
           "index shingles", "query candidate cue pairs"}
Verdicts == {"identified", "ambiguous", "unknown"}

MatchingTypeOK ==
    /\ matching \in {"given", "index", "pairs", "assess", "done"}
    /\ \A s \in DOMAIN known : known[s].owners \in 1..Cardinality(Ids)
    /\ DOMAIN postings \subseteq DOMAIN known
    /\ \A s \in DOMAIN postings :
          postings[s].id \in Ids /\ postings[s].cue \in DOMAIN Text(postings[s].id)
    /\ \A key \in DOMAIN pairs : key[1] \in Ids /\ pairs[key] \in Nat \ {0}
    /\ Cardinality(DOMAIN pairs) <= TotalPairs
    /\ \A c \in candidates : c.id \in Ids /\ c.score \in 1..Len(Query)
    /\ verdict.is \in {"none"} \union Errors \union Verdicts
    /\ (verdict.is = "none") = (matching # "done")
    /\ IF verdict.is = "identified" THEN verdict.id \in Ids ELSE verdict.id = Nobody

MatchingInit ==
    /\ case \in Cases
    /\ matching = "given"
    /\ todo = {} /\ candidates = {}
    /\ known = <<>> /\ postings = <<>> /\ pairs = <<>>
    /\ verdict = Plainly("none")

Return(result) ==
    /\ matching' = "done" /\ verdict' = result
    /\ UNCHANGED <<case, todo, known, postings, pairs, candidates>>

(* Index::build: the references are sorted by their ids.                     *)
Given ==
    /\ matching = "given"
    /\ \/ References = <<>> /\ Return(Plainly("NoReferences"))
       \/ Len(References) > MaxReferences /\ Return(Plainly("reference count"))
       \/ /\ Len(References) \in 1..MaxReferences
          /\ Cardinality(Ids) < Len(References)
          /\ Return(Plainly("DuplicateReferenceId"))
       \/ /\ Len(References) \in 1..MaxReferences
          /\ Cardinality(Ids) = Len(References)
          /\ matching' = "index"
          /\ todo' = UNION {{id} \X ShinglesOf(Text(id)) : id \in Ids}
          /\ UNCHANGED <<case, known, postings, pairs, candidates, verdict>>

MutSeenAgain(s) == known[s]
SeenAgain(s) == [owners |-> known[s].owners + 1, at |-> None, id |-> known[s].id]
Seen(id, s) == [owners |-> 1, at |-> CueOf(Text(id), s), id |-> id]

IndexFull(s) == s \notin DOMAIN known /\ Cardinality(DOMAIN known) = MaxShingles

CountShingle ==
    /\ matching = "index"
    /\ \E entry \in todo :
          /\ IsFirst(entry, todo)
          /\ LET id == entry[1]
                 s == entry[2]
             IN  \/ IndexFull(s) /\ Return(Plainly("index shingles"))
                 \/ /\ ~IndexFull(s)
                    /\ known' = With(known, s, IF s \in DOMAIN known THEN SeenAgain(s)
                                               ELSE Seen(id, s))
                    /\ todo' = todo \ {entry}
                    /\ UNCHANGED <<case, matching, postings, pairs, candidates, verdict>>

(* Shared and repeated shingles are suppressed.                              *)
Distinctive == {s \in DOMAIN known : known[s].owners = 1 /\ known[s].at # None}
Suppress ==
    /\ matching = "index" /\ todo = {}
    /\ postings' = [s \in Distinctive |-> [id |-> known[s].id, cue |-> known[s].at]]
    /\ matching' = "pairs"
    /\ todo' = {<<s, None>> : s \in ShinglesOf(Query)}
    /\ UNCHANGED <<case, known, pairs, candidates, verdict>>

(* match_query_with_limits: what the query shares with each reference.       *)
Of(id) == {key \in DOMAIN pairs : key[1] = id}
MutFullLate(id) ==
    Cardinality(Of(id)) = PerReference \/ Cardinality(DOMAIN pairs) > TotalPairs
MutFull(id) == Cardinality(DOMAIN pairs) = TotalPairs
Full(id) == Cardinality(Of(id)) = PerReference \/ Cardinality(DOMAIN pairs) = TotalPairs

Pair(s, key) ==
    \/ key \notin DOMAIN pairs /\ Full(key[1]) /\ Return(Plainly("query candidate cue pairs"))
    \/ /\ key \in DOMAIN pairs \/ ~Full(key[1])
       /\ pairs' = With(pairs, key, IF key \in DOMAIN pairs THEN pairs[key] + 1 ELSE 1)
       /\ todo' = todo \ {<<s, None>>}
       /\ UNCHANGED <<case, matching, known, postings, candidates, verdict>>

CountPair ==
    /\ matching = "pairs"
    /\ \E entry \in todo :
          /\ IsFirst(entry, todo)
          /\ LET s == entry[1]
                 k == CueOf(Query, s)
             IN  \/ /\ k = None \/ s \notin DOMAIN postings
                    /\ todo' = todo \ {entry}
                    /\ UNCHANGED <<case, matching, known, postings, pairs, candidates, verdict>>
                 \/ /\ k # None /\ s \in DOMAIN postings
                    /\ Pair(s, <<postings[s].id, k, postings[s].cue>>)

PairsCounted ==
    /\ matching = "pairs" /\ todo = {}
    /\ matching' = "assess"
    /\ todo' = {<<id, None>> : id \in Ids}
    /\ UNCHANGED <<case, known, postings, pairs, candidates, verdict>>

(* Shingles in one pair of cues are one anchor, not several votes.           *)
Anchoring(id) == {key \in Of(id) : pairs[key] >= MinShingles}
Earlier(a, b) == Before(<<a[2], a[3]>>, <<b[2], b[3]>>)
AnchorsOf(id) ==
    [n \in 1..Cardinality(Anchoring(id)) |->
        LET key == CHOOSE a \in Anchoring(id) :
                       Cardinality({b \in Anchoring(id) : Earlier(b, a)}) = n - 1
        IN  [q |-> Query[key[2]].start, r |-> Text(id)[key[3]].start,
             support |-> pairs[key]]]

(* The length of align's chain.                                              *)
ScoreOf(anchors) ==
    CHOOSE n \in 0..Len(anchors) :
        /\ n > 0 => \E c \in ChainsIn(anchors) : Len(c) = n
        /\ \A c \in ChainsIn(anchors) : Len(c) <= n

Candidate(id) == [id |-> id, score |-> ScoreOf(AnchorsOf(id))]

Assess ==
    /\ matching = "assess"
    /\ \E entry \in todo :
          /\ IsFirst(entry, todo)
          /\ LET id == entry[1]
             IN  candidates' = IF AnchorsOf(id) = <<>> THEN candidates
                               ELSE candidates \union {Candidate(id)}
          /\ todo' = todo \ {entry}
    /\ UNCHANGED <<case, matching, known, postings, pairs, verdict>>

(* Candidates are sorted by score, then by id.                               *)
Leads(c, set) == c \in set /\ \A d \in set \ {c} : Before(<<-c.score, c.id>>, <<-d.score, d.id>>)
MutCompetes(runner, top) ==
    runner.score >= MinSupport /\ runner.score + 1 >= top.score
Competes(runner, top) ==
    /\ runner.score >= MinSupport
    /\ \/ runner.score + 1 >= top.score
       \/ runner.score * Share[1] >= top.score * Share[2]
Contested(top) == \E runner \in candidates :
    Leads(runner, candidates \ {top}) /\ Competes(runner, top)

Verdict ==
    /\ matching = "assess" /\ todo = {}
    /\ \/ candidates = {} /\ Return(Plainly("unknown"))
       \/ \E top \in candidates :
             /\ Leads(top, candidates)
             /\ \/ top.score < MinSupport /\ Return(Plainly("unknown"))
                \/ top.score >= MinSupport /\ Contested(top) /\ Return(Plainly("ambiguous"))
                \/ top.score >= MinSupport /\ ~Contested(top) /\ Return(Identified(top.id))

MatchingReturned == matching = "done" /\ UNCHANGED matchingVars

MatchingNext == \/ Given \/ CountShingle \/ Suppress \/ CountPair \/ PairsCounted
        \/ Assess \/ Verdict \/ MatchingReturned

MatchingSpec == MatchingInit /\ [][MatchingNext]_matchingVars
-----------------------------------------------------------------------------
(* What the verdict should be, from the transcripts alone.                   *)

(* A shingle tells a reference apart if nothing else says it, nor it twice.  *)
TellsApart(s, id) ==
    /\ Cardinality(Mentions(Text(id), s)) = 1
    /\ \A other \in Ids \ {id} : Mentions(Text(other), s) = {}

Common(id, k, l) ==
    {s \in ShinglesOf(Query) :
        /\ TellsApart(s, id)
        /\ \E p \in DOMAIN Query[k].says : Mentions(Query, s) = {<<k, p>>}
        /\ \E p \in DOMAIN Text(id)[l].says : <<l, p>> \in Mentions(Text(id), s)}
CuePairs(id) == {pair \in (DOMAIN Query) \X (DOMAIN Text(id)) :
                    Common(id, pair[1], pair[2]) # {}}

(* Evidence is independent if its cues are in the same order, apart and at   *)
(* about the same distance in both transcripts.                              *)
Independent(id, set) ==
    \A a, b \in set :
        LET qa == Query[a[1]].start       qb == Query[b[1]].start
            ra == Text(id)[a[2]].start    rb == Text(id)[b[2]].start
        IN  a # b => /\ \/ qb - qa >= Separation /\ rb - ra >= Separation
                        \/ qa - qb >= Separation /\ ra - rb >= Separation
                     /\ (ra - qa) - (rb - qb) <= Spread
Evidence(id) ==
    LET strong == {pair \in CuePairs(id) :
                      Cardinality(Common(id, pair[1], pair[2])) >= MinShingles}
        sizes == {Cardinality(set) : set \in {e \in SUBSET strong : Independent(id, e)}}
    IN  CHOOSE n \in sizes : \A m \in sizes : m <= n

(* It must be identified as the reference with enough evidence, to which no  *)
(* other with enough comes near.                                             *)
Clear(id) ==
    /\ Evidence(id) >= MinSupport
    /\ \A other \in Ids \ {id} :
          Evidence(other) >= MinSupport =>
              /\ Evidence(other) + 1 < Evidence(id)
              /\ Evidence(other) * Share[1] < Evidence(id) * Share[2]

(* A verdict is what the transcripts say, whatever the order of references.  *)
VerdictIsDeserved ==
    verdict.is \in Verdicts =>
        verdict = IF \E id \in Ids : Clear(id)
                  THEN Identified(CHOOSE id \in Ids : Clear(id))
                  ELSE IF \E id \in Ids : Evidence(id) >= MinSupport THEN Plainly("ambiguous")
                  ELSE Plainly("unknown")

(* A limit refuses only what exceeds it, and refuses all that does: nothing  *)
(* is cut short in silence.                                                  *)
Pairings == UNION {{id} \X CuePairs(id) : id \in Ids}
Exceeds == \/ Cardinality(Pairings) > TotalPairs
           \/ \E id \in Ids : Cardinality(CuePairs(id)) > PerReference
LimitsAreExact ==
    /\ verdict.is = "index shingles" =>
          Cardinality(UNION {ShinglesOf(Text(id)) : id \in Ids}) > MaxShingles
    /\ verdict.is = "query candidate cue pairs" => Exceeds
    /\ verdict.is \in Verdicts =>
          ~Exceeds /\ Cardinality(UNION {ShinglesOf(Text(id)) : id \in Ids}) <= MaxShingles

(* A query gets the verdict it deserves, or a refusal that it deserves.      *)
VerdictIsExact == VerdictIsDeserved /\ LimitsAreExact

(* References that say the same cannot be told apart: a query is identified  *)
(* as neither.                                                               *)
TwinsCannotIdentify ==
    verdict.is = "identified" =>
        \A twin \in Ids \ {verdict.id} :
            ~(ShinglesOf(Text(verdict.id)) \subseteq ShinglesOf(Text(twin)))
=============================================================================
