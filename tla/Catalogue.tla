------------------------------ MODULE Catalogue ------------------------------
(* Reading one list of the provider, page by page, while it may change       *)
(* (opensubtitles/catalog.rs, show_selection.rs): the subtitles of an        *)
(* episode, of which the best of every variant is selected, or the shows a   *)
(* request may mean, of which one is taken or offered.  Titles, labels and   *)
(* release names are abstracted to what they make of an entry.               *)
EXTENDS Integers, Sequences, FiniteSets

CONSTANTS Subtitles,   \* subtitles the provider may list for the episode
          Variant,     \* the episode identity of each
          Kind,        \* "eligible"; "skipped"; "conflict", labelled for something else
          Worth,       \* trusted, not SDH, downloads: the more the better
          Shows,       \* shows the provider may list for the request
          Meant,       \* those with exactly the name, or the IMDb ID, asked for
          PageSize,
          MaxPages, MaxResults,  \* MAX_PAGES, MAX_RESULTS
          MaxOffered,  \* choices displayed
          MaxAltered   \* bound: kinds of change while a list is read

ASSUME CatalogueAssumption ==
    /\ Subtitles \subseteq Nat /\ Shows \subseteq Nat /\ Meant \subseteq Shows
    /\ Kind \in [Subtitles -> {"eligible", "skipped", "conflict"}]
    /\ Worth \in [Subtitles -> Nat]
    /\ PageSize \in Nat \ {0} /\ MaxPages \in Nat \ {0} /\ MaxResults \in Nat
    /\ MaxOffered \in Nat /\ MaxAltered \in Nat

VARIABLES query, envelope,      \* what is asked, and how the provider pages
          listing,              \* the provider's list
          page, pages, total,   \* pages, total_count
          received, truncated,
          verdict, chosen,
          first, altered        \* history: the list at the first page, what changed since

catalogueVars == <<query, envelope, listing, page, pages, total, received, truncated, verdict,
                   chosen, first, altered>>

None == -1                      \* an absent count
Items == IF query = "rank" THEN Subtitles ELSE Shows
Members(s) == {s[i] : i \in 1..Len(s)}
Distinct(s) == Cardinality(Members(s)) = Len(s)
Listings(S) == {s \in UNION {[1..n -> S] : n \in 0..Cardinality(S)} : Distinct(s)}

CatalogueTypeOK ==
    /\ query \in {"rank", "name", "imdb"}
    /\ envelope \in {"full", "no total", "no pages", "bare"}
    /\ Members(listing) \subseteq Items /\ Distinct(listing)
    /\ page \in 1..MaxPages /\ pages \in Nat \union {None} /\ total \in Nat \union {None}
    /\ Members(received) \subseteq Items /\ Len(received) <= MaxResults
    /\ truncated \in BOOLEAN
    /\ verdict \in {"open", "listed", "ranked", "automatic", "offered", "picked", "refused"}
    /\ chosen \subseteq Items
    /\ first \subseteq Items /\ altered \subseteq {"added", "removed", "moved"}

CatalogueInit ==
    /\ query \in {"rank", "name", "imdb"}
    /\ envelope \in IF query = "rank" THEN {"full"} ELSE {"full", "no total", "no pages", "bare"}
    /\ listing \in Listings(IF query = "rank" THEN Subtitles
                            ELSE IF query = "imdb" THEN Meant ELSE Shows)
    /\ page = 1 /\ pages = None /\ total = None
    /\ received = <<>> /\ truncated = FALSE
    /\ verdict = "open" /\ chosen = {}
    /\ first = {} /\ altered = {}
-----------------------------------------------------------------------------
(* The provider                                                              *)

Advertised == (Len(listing) + PageSize - 1) \div PageSize
Slice == LET from == (page - 1) * PageSize
             to == IF page * PageSize < Len(listing) THEN page * PageSize ELSE Len(listing)
         IN SubSeq(listing, from + 1, to)
Response ==
    [page  |-> IF envelope = "bare" THEN None ELSE page,
     pages |-> IF envelope \in {"bare", "no pages"} THEN None ELSE Advertised,
     total |-> IF envelope \in {"bare", "no total"} THEN None ELSE Len(listing),
     data  |-> IF envelope = "bare" THEN listing ELSE Slice]

Without(i) == SubSeq(listing, 1, i - 1) \o SubSeq(listing, i + 1, Len(listing))
Inserted(s, i, x) == SubSeq(s, 1, i - 1) \o <<x>> \o SubSeq(s, i, Len(s))
Alter ==
    /\ verdict = "open" /\ page > 1 /\ Cardinality(altered) < MaxAltered
    /\ \/ \E x \in Items \ Members(listing), i \in 1..(Len(listing) + 1) :
             /\ query = "imdb" => x \in Meant
             /\ listing' = Inserted(listing, i, x) /\ altered' = altered \union {"added"}
       \/ \E i \in 1..Len(listing) :
             listing' = Without(i) /\ altered' = altered \union {"removed"}
       \/ \E i, j \in 1..Len(listing) :
             /\ listing' = Inserted(Without(i), j, listing[i])
             /\ altered' = altered \union {"moved"}
    /\ UNCHANGED <<query, envelope, page, pages, total, received, truncated, verdict, chosen,
                   first>>
-----------------------------------------------------------------------------
(* The client                                                                *)

Refuse == verdict' = "refused" /\ UNCHANGED <<page, pages, total, received, truncated, chosen>>
(* What its title, and its flags and labels, make of an entry.               *)
Mislabelled(s) == Kind[s] = "conflict"
Eligible(s) == Kind[s] = "eligible"

Reads == /\ verdict = "open"
         /\ first' = IF page = 1 THEN Members(listing) ELSE first
         /\ UNCHANGED <<query, envelope, listing, altered>>

(* ranked: every page of the same whole.                                     *)
MutShifted(r) == FALSE
Shifted(r) == page > 1 /\ (r.pages # pages \/ r.total # total)
Unrankable(r) ==
    \/ r.pages > MaxPages \/ r.total > MaxResults
    \/ Shifted(r)
    \/ r.pages = 0 /\ (r.total # 0 \/ r.data # <<>>)
    \/ Len(received) + Len(r.data) > MaxResults
    \/ ~Distinct(received \o r.data)
    \/ \E s \in Members(r.data) : Mislabelled(s)

(* The order of the ranking, and its first entry for every variant.          *)
Better(s, t) == Worth[s] > Worth[t] \/ (Worth[s] = Worth[t] /\ s < t)
Best(S) == {s \in S : /\ Eligible(s)
                      /\ \A t \in S : Eligible(t) /\ Variant[t] = Variant[s] /\ t # s
                             => Better(s, t)}

Rank ==
    /\ query = "rank" /\ Reads
    /\ LET r == Response
           all == received \o r.data
       IN \/ Refuse                                       \* the request fails
          \/ Unrankable(r) /\ Refuse
          \/ /\ ~Unrankable(r) /\ page >= r.pages
             /\ IF Len(all) = r.total
                THEN /\ verdict' = "ranked" /\ chosen' = Best(Members(all))
                     /\ received' = all /\ UNCHANGED <<page, pages, total, truncated>>
                ELSE Refuse
          \/ /\ ~Unrankable(r) /\ page < r.pages
             /\ IF r.data = <<>> \/ page = MaxPages THEN Refuse
                ELSE /\ page' = page + 1 /\ pages' = r.pages /\ total' = r.total
                     /\ received' = all /\ UNCHANGED <<truncated, verdict, chosen>>

(* search_shows: pages need not be counted, but must not contradict.         *)
Absurd(r) ==
    \/ r.page # None /\ r.page # page
    \/ r.pages # None /\ r.pages > 1 /\ r.page = None
    \/ Shifted(r)
    \/ r.pages = 0 /\ (r.data # <<>> \/ r.total \notin {None, 0})
    \/ r.pages # None /\ 0 < r.pages /\ r.pages < page
    \/ Len(r.data) > MaxResults
Available == MaxResults - Len(received)
MutTaken(r) == r.data
Taken(r) == SubSeq(r.data, 1, IF Len(r.data) < Available THEN Len(r.data) ELSE Available)
More(r) == r.pages # None /\ r.pages > page
Cut(r) == \/ Len(r.data) > Available
          \/ More(r) /\ (page = MaxPages \/ Len(received \o Taken(r)) = MaxResults)
Search ==
    /\ query # "rank" /\ Reads
    /\ LET r == Response
           all == received \o Taken(r)
           refused == \/ Absurd(r) \/ ~Distinct(all)
                      \/ query = "imdb" /\ ~(Members(all) \subseteq Meant)
                      \/ r.total # None /\ r.total < Len(all)
       IN \/ Refuse
          \/ refused /\ Refuse
          \/ /\ ~refused /\ (Cut(r) \/ ~More(r))
             /\ verdict' = "listed" /\ received' = all
             /\ truncated' = \/ Cut(r) \/ (r.total # None /\ r.total > Len(all))
                             \/ r.page # None /\ r.pages = None
             /\ UNCHANGED <<page, pages, total, chosen>>
          \/ /\ ~refused /\ ~Cut(r) /\ More(r)
             /\ IF r.data = <<>> THEN Refuse
                ELSE /\ page' = page + 1 /\ pages' = r.pages /\ total' = r.total
                     /\ received' = all /\ UNCHANGED <<truncated, verdict, chosen>>

(* resolve_show_with_selection and choose: the only one meant is taken       *)
(* without asking, unless others may exist beyond what was read.             *)
Exact == Members(received) \intersect Meant
MutSole == Cardinality(Exact) = 1
Sole == ~truncated /\ Cardinality(Exact) = 1
Resolve ==
    /\ verdict = "listed"
    /\ \/ Sole /\ verdict' = "automatic" /\ chosen' = Exact
       \/ /\ ~Sole
          /\ verdict' \in IF query = "imdb" THEN {"refused"} ELSE {"offered", "refused"}
          /\ UNCHANGED chosen
    /\ UNCHANGED <<query, envelope, listing, page, pages, total, received, truncated, first,
                   altered>>

(* The displayed choices: exact names first, then the provider's order.      *)
Place(s) == CHOOSE i \in 1..Len(received) : received[i] = s
Ahead(s, t) == \/ s \in Meant /\ t \notin Meant
               \/ (s \in Meant <=> t \in Meant) /\ Place(s) < Place(t)
Displayed == {s \in Members(received) :
                  Cardinality({t \in Members(received) : Ahead(t, s)}) < MaxOffered}
Pick ==
    /\ verdict = "offered"
    /\ \/ verdict' = "refused" /\ UNCHANGED chosen        \* dry run, cancelled, invalid
       \/ \E s \in Displayed : verdict' = "picked" /\ chosen' = {s}
    /\ UNCHANGED <<query, envelope, listing, page, pages, total, received, truncated, first,
                   altered>>

CatalogueNext == Alter \/ Rank \/ Search \/ Resolve \/ Pick
CatalogueSpec == CatalogueInit /\ [][CatalogueNext]_catalogueVars
-----------------------------------------------------------------------------
(* A list that only grew, only shrank or was only reordered between two      *)
(* pages: a replacement of one entry by another is beyond what counts tell.  *)
Comparable == ~({"added", "removed"} \subseteq altered)

(* "Full bounded pagination must agree" (docs/FOLDER.md): what is selected   *)
(* is the best of every variant among all that was listed, each entry seen   *)
(* exactly once, although the list changed while it was read.                *)
RankingWhole ==
    verdict = "ranked" /\ Comparable =>
        /\ Members(received) = first /\ Distinct(received)
        /\ chosen = Best(first)

(* A show is taken without asking only if it is the only one meant among all *)
(* the provider lists: neither truncation nor, where totals are given, a     *)
(* change of the list makes a false unique match.                            *)
UniqueShow ==
    verdict = "automatic" /\ Comparable /\ (envelope # "no total" \/ altered = {}) =>
        chosen = first \intersect Meant

(* Neither a ranking nor a choice of show rests on half a list.              *)
ListsAreWhole == RankingWhole /\ UniqueShow
=============================================================================
