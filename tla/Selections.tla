------------------------------ MODULE Selections ------------------------------
(* Finding or freezing the selection of a request (resolve_manifest, the     *)
(* season's half of catalog.rs, selected, alias_with_choice, freeze and the  *)
(* series' display): several processes ask for ranges of a show by different *)
(* names, the provider's catalogue changes, and a process may die anywhere.  *)
EXTENDS Naturals, FiniteSets

CONSTANTS Processes, Nobody,
          Variants,      \* episode identities of the show
          Season, Number,\* their season and episode number
          Versions,      \* files the ranking may put first
          Requests,      \* scopes: the same range by another name is another one
          Of,            \* the season of a request
          Episodes,      \* its episode numbers; {} stands for the whole season
          Titles,        \* original titles the provider may give the series
          MaxChanges     \* bound: changes of the provider's catalogue

ASSUME SelectionsAssumption ==
    /\ Nobody \notin Processes /\ Requests # {}
    /\ Season \in [Variants -> Nat] /\ Number \in [Variants -> Nat]
    /\ Versions \subseteq Nat \ {0}
    /\ Of \in [Requests -> Nat] /\ Episodes \in [Requests -> SUBSET Nat]
    /\ MaxChanges \in Nat

Seasons == {Of[r] : r \in Requests}
Unavailable == 0
(* A frozen manifest gives each variant it knows a file, or none.            *)
Absent == [v \in {} |-> Unavailable]
Manifests == UNION {[vs -> Versions \union {Unavailable}] : vs \in SUBSET Variants}

VARIABLES listed, best, title,  \* the provider: details, rankings, original title
          changes,
          frozen,               \* request-*.json; Absent where there is none
          half,                 \* requests with a .partial
          display,              \* series-*.json
          owner,                \* season locks
          pc, request, known, plan, got,  \* the processes
          seasons               \* history: the season lists the provider has given

providerVars == <<listed, best, title, changes>>
diskVars == <<frozen, half, display>>
localVars == <<request, known, plan, got>>
selectionsVars == <<providerVars, diskVars, owner, pc, localVars, seasons>>

Selected(m) == {v \in DOMAIN m : m[v] # Unavailable}
Covered(m) == {Number[v] : v \in Selected(m)}
InRange(r, v) == Season[v] = Of[r] /\ (Episodes[r] = {} \/ Number[v] \in Episodes[r])
ListOf(s) == {v \in listed : Season[v] = s}

SelectionsTypeOK ==
    /\ listed \subseteq Variants /\ best \in [Variants -> Versions \union {Unavailable}]
    /\ title \in Titles /\ changes \in 0..MaxChanges
    /\ frozen \in [Requests -> Manifests] /\ half \subseteq Requests
    /\ display \in Titles \union {"absent", "torn"}
    /\ owner \in [Seasons -> Processes \union {Nobody}]
    /\ pc \in [Processes -> {"off", "resolve", "alias", "detail", "episodes", "freeze", "record",
                             "conflict", "display", "fetch", "store", "ready"}]
    /\ request \in [Processes -> Requests]
    /\ known \in [Processes -> SUBSET Variants]
    /\ plan \in [Processes -> Manifests]
    /\ got \in [Processes -> Titles]

SelectionsInit ==
    /\ listed \in SUBSET Variants
    /\ best \in [Variants -> Versions \union {Unavailable}]
    /\ title \in Titles /\ changes = 0
    /\ frozen = [r \in Requests |-> Absent] /\ half = {} /\ display = "absent"
    /\ owner = [s \in Seasons |-> Nobody]
    /\ pc = [p \in Processes |-> "off"]
    /\ request \in [Processes -> {CHOOSE r \in Requests : TRUE}]
    /\ known = [p \in Processes |-> {}] /\ plan = [p \in Processes |-> Absent]
    /\ got \in [Processes -> {title}]
    /\ seasons = {}
-----------------------------------------------------------------------------
Goto(p, step) == pc' = [pc EXCEPT ![p] = step]
Mine(p) == owner[Of[request[p]]] = p
Release(p) == owner' = [s \in Seasons |-> IF owner[s] = p THEN Nobody ELSE owner[s]]
Fresh(p) == /\ known' = [known EXCEPT ![p] = {}] /\ plan' = [plan EXCEPT ![p] = Absent]
            /\ got' = [got EXCEPT ![p] = CHOOSE t \in Titles : TRUE]
            /\ request' = [request EXCEPT ![p] = CHOOSE r \in Requests : TRUE]
(* An error, or the end of the invocation.                                   *)
Leave(p) == Goto(p, "off") /\ Release(p) /\ Fresh(p)
Fails(p) == Leave(p) /\ UNCHANGED <<providerVars, diskVars, seasons>>

(* Cache::manifest: a frozen request is used if nobody else has the season.  *)
Begin(p) ==
    /\ pc[p] = "off"
    /\ \E r \in Requests :
          /\ request' = [request EXCEPT ![p] = r]
          /\ \/ frozen[r] = Absent /\ Goto(p, "resolve") /\ UNCHANGED owner
             \/ /\ frozen[r] # Absent /\ owner[Of[r]] = Nobody
                /\ owner' = [owner EXCEPT ![Of[r]] = p]
                /\ Goto(p, "display")
    /\ UNCHANGED <<providerVars, diskVars, known, plan, got, seasons>>

(* The show is found or chosen, which takes its time; then its season is     *)
(* locked.                                                                   *)
Lock(p) ==
    /\ pc[p] = "resolve"
    /\ \/ /\ owner[Of[request[p]]] = Nobody
          /\ owner' = [owner EXCEPT ![Of[request[p]]] = p]
          /\ Goto(p, "alias") /\ UNCHANGED localVars
       \/ Leave(p)                    \* owned by another run, or no show
    /\ UNCHANGED <<providerVars, diskVars, seasons>>

(* alias_with_choice: what the frozen manifests say of this request.         *)
MutEvidence(q, r) == Of[q] = Of[r] /\ frozen[q] # Absent
Evidence(q, r) == /\ Of[q] = Of[r] /\ frozen[q] # Absent
                  /\ Episodes[r] = {} => Episodes[q] = {}
Restricted(m, r) == [v \in {w \in DOMAIN m : InRange(r, w)} |-> m[v]]
Valid(m, r) == Selected(m) # {} /\ (Episodes[r] # {} => Covered(m) = Episodes[r])
Aliases(r) == {m \in {Restricted(frozen[q], r) : q \in {s \in Requests : Evidence(s, r)}} :
                   Valid(m, r)}
Alias(p) ==
    /\ pc[p] = "alias"
    /\ LET found == Aliases(request[p]) IN
          \/ /\ Cardinality(found) = 1
             /\ plan' = [plan EXCEPT ![p] = CHOOSE m \in found : TRUE]
             /\ Goto(p, "freeze") /\ UNCHANGED <<owner, request, known, got>>
          \/ found = {} /\ Goto(p, "detail") /\ UNCHANGED <<owner, localVars>>
          \/ Cardinality(found) > 1 /\ Goto(p, "conflict") /\ UNCHANGED <<owner, localVars>>
    /\ UNCHANGED <<providerVars, diskVars, seasons>>
Refused(p) == pc[p] = "conflict" /\ Fails(p)

(* resolve_season: the variants the provider lists for the range ...         *)
Detail(p) ==
    /\ pc[p] = "detail"
    /\ LET r == request[p]
           there == {v \in listed : InRange(r, v)}
       IN \/ /\ there # {}
             /\ Episodes[r] # {} => {Number[v] : v \in there} = Episodes[r]
             /\ known' = [known EXCEPT ![p] = there]
             /\ seasons' = seasons \union {ListOf(Of[r])}
             /\ Goto(p, "episodes")
             /\ UNCHANGED <<providerVars, diskVars, owner, request, plan, got>>
          \/ Fails(p)                 \* none, not all of them, or no answer

(* ... and episode by episode the files frozen before, or those ranked       *)
(* first; an episode needs at least one.                                     *)
Cached(v) == {frozen[q][v] : q \in {r \in Requests : v \in Selected(frozen[r])}}
MutChoice(v) == IF best[v] # Unavailable THEN best[v]
                ELSE IF Cached(v) = {} THEN Unavailable ELSE CHOOSE f \in Cached(v) : TRUE
Choice(v) == IF Cached(v) = {} THEN best[v] ELSE CHOOSE f \in Cached(v) : TRUE
Episode(p) ==
    /\ pc[p] = "episodes"
    /\ LET open == known[p] \ DOMAIN plan[p] IN
          \/ /\ open = {} /\ Goto(p, "freeze")
             /\ UNCHANGED <<providerVars, diskVars, owner, localVars, seasons>>
          \/ \E w \in open :
                LET next == {v \in open : Number[v] = Number[w]}
                    chosen == [v \in next |-> Choice(v)]
                IN /\ \A v \in open : Number[w] <= Number[v]
                   /\ \/ /\ \A v \in next : Cardinality(Cached(v)) <= 1
                         /\ Selected(chosen) # {}
                         /\ plan' = [plan EXCEPT ![p] =
                                [v \in DOMAIN plan[p] \union next |->
                                    IF v \in next THEN chosen[v] ELSE plan[p][v]]]
                         /\ UNCHANGED <<providerVars, diskVars, owner, pc, request, known, got,
                                        seasons>>
                      \/ Fails(p)     \* no file, a conflict, or no answer

(* freeze: a .partial that becomes the manifest.  What may be pruned for its *)
(* room is shown in SharedCache; here any other manifest may be.             *)
Freeze(p) ==
    /\ pc[p] = "freeze"
    /\ \/ /\ frozen[request[p]] = Absent /\ request[p] \notin half
          /\ half' = half \union {request[p]}
          /\ Goto(p, "record")
          /\ UNCHANGED <<providerVars, frozen, display, owner, localVars, seasons>>
       \/ Fails(p)                    \* a collision, or no room
Record(p) ==
    /\ pc[p] = "record"
    /\ \/ /\ frozen' = [frozen EXCEPT ![request[p]] = plan[p]]
          /\ half' = half \ {request[p]}
          /\ Goto(p, "display")
          /\ UNCHANGED <<providerVars, display, owner, localVars, seasons>>
       \/ Fails(p)                    \* the .partial stays

(* series::ensure, under the season's lock but shared by the show's seasons. *)
Display(p) ==
    /\ pc[p] = "display"
    /\ \/ display \in Titles /\ Goto(p, "ready") /\ UNCHANGED <<owner, localVars>>
       \/ display = "absent" /\ Goto(p, "fetch") /\ UNCHANGED <<owner, localVars>>
       \/ display = "torn" /\ Leave(p)
    /\ UNCHANGED <<providerVars, diskVars, seasons>>
FetchDisplay(p) ==
    /\ pc[p] = "fetch"
    /\ \/ /\ got' = [got EXCEPT ![p] = title] /\ Goto(p, "store")
          /\ UNCHANGED <<providerVars, diskVars, owner, request, known, plan, seasons>>
       \/ Fails(p)
MutStorable(p) == TRUE
Storable(p) == display = "absent"
StoreDisplay(p) ==
    /\ pc[p] = "store"
    /\ \/ Storable(p) /\ display' = got[p] /\ Goto(p, "ready")
          /\ UNCHANGED <<owner, localVars>>
       \/ Storable(p) /\ display' = "torn" /\ Leave(p)
       \/ display = got[p] /\ Goto(p, "ready") /\ UNCHANGED <<display, owner, localVars>>
       \/ display \notin {"absent", got[p]} /\ Leave(p) /\ UNCHANGED display
    /\ UNCHANGED <<providerVars, frozen, half, seasons>>

(* The acquisition, and then the end of the invocation.                      *)
Close(p) == pc[p] = "ready" /\ Fails(p)
Die(p) == pc[p] # "off" /\ Fails(p)

Prune == /\ \E r \in Requests :
               /\ frozen[r] # Absent
               /\ \A p \in Processes : Mine(p) => request[p] # r
               /\ frozen' = [frozen EXCEPT ![r] = Absent]
         /\ UNCHANGED <<providerVars, half, display, owner, pc, localVars, seasons>>

Change ==
    /\ changes < MaxChanges /\ changes' = changes + 1
    /\ \/ \E v \in listed : listed' = listed \ {v} /\ UNCHANGED <<best, title>>
       \/ \E v \in Variants : listed' = listed \union {v} /\ UNCHANGED <<best, title>>
       \/ \E v \in Variants, f \in Versions \union {Unavailable} :
             best' = [best EXCEPT ![v] = f] /\ UNCHANGED <<listed, title>>
       \/ title' \in Titles /\ UNCHANGED <<listed, best>>
    /\ UNCHANGED <<diskVars, owner, pc, localVars, seasons>>

Step(p) == \/ Begin(p) \/ Lock(p) \/ Alias(p) \/ Refused(p) \/ Detail(p) \/ Episode(p)
           \/ Freeze(p) \/ Record(p) \/ Display(p) \/ FetchDisplay(p) \/ StoreDisplay(p)
           \/ Close(p) \/ Die(p)
SelectionsNext == (\E p \in Processes : Step(p)) \/ Prune \/ Change
SelectionsSpec == SelectionsInit /\ [][SelectionsNext]_selectionsVars
-----------------------------------------------------------------------------
(* "Cached choices are reused by provider identity" (docs/FOLDER.md): all    *)
(* frozen requests select the same file for the same episode, by whatever    *)
(* name, range or change of the catalogue they came to be.                   *)
SelectionsAgree ==
    \A q, r \in Requests : \A v \in Selected(frozen[q]) \intersect Selected(frozen[r]) :
        frozen[q][v] = frozen[r][v]

(* "A range-only manifest is not proof of complete-season membership": a     *)
(* whole season is frozen only as the provider has once listed it.           *)
WholeIsWhole ==
    \A r \in Requests :
        frozen[r] # Absent /\ Episodes[r] = {} => DOMAIN frozen[r] \in seasons

(* What is frozen is one consistent choice of what the provider listed.      *)
SelectionsHold == SelectionsAgree /\ WholeIsWhole

(* A frozen selection is at most pruned, and the series' display name never  *)
(* replaced, whoever froze or fetched another one meanwhile.                 *)
NothingRewritten ==
    [][/\ \A r \in Requests : frozen[r] # Absent => frozen'[r] \in {frozen[r], Absent}
       /\ display # "absent" => display' = display]_selectionsVars

(* "Ranges can reuse a cached superset" (docs/FOLDER.md).                    *)
Superset(q, r) == /\ frozen[q] # Absent /\ Of[q] = Of[r] /\ Episodes[r] # {}
                  /\ Episodes[r] \subseteq Covered(frozen[q])
SupersetReused ==
    \A p \in Processes : pc[p] = "conflict" => ~\E q \in Requests : Superset(q, request[p])
=============================================================================
