---------------------------- MODULE SharedCache ----------------------------
(* Several processes acquire references of several seasons into one cache    *)
(* of limited room (cache.rs space_for and its callers, opensubtitles.rs     *)
(* references_inner and acquire).  Every transaction locks, surveys the      *)
(* owners of the other seasons, trims what it may, and writes; between the   *)
(* transactions of one process any other process may run, and a process may  *)
(* die at any step.  What a file holds and whether it is intact is the       *)
(* concern of Acquisition; here a marker, a receipt, a provenance and a      *)
(* manifest weigh one unit each and a body 1..LargestBody.                   *)
EXTENDS SeasonLocks, FiniteSets, Functions

CONSTANTS File,         \* subtitle files
          SeasonOf,     \* the season of a file
          Scope,        \* what manifests select: sets of files of one season
          Cap,          \* Cache::cap
          LargestBody,  \* MAX_SRT_BYTES
          MaxDeaths,    \* bound: deaths of processes
          MaxFailures   \* bound: failing writes

ASSUME CacheAssumption ==
    /\ IsFiniteSet(File) /\ IsFiniteSet(Season)
    /\ SeasonOf \in [File -> Season]
    /\ \A c \in Scope : /\ c \in SUBSET File /\ c # {}
                        /\ \A f, g \in c : SeasonOf[f] = SeasonOf[g]
    /\ Cap \in Nat /\ LargestBody \in Nat \ {0}
    /\ MaxDeaths \in Nat /\ MaxFailures \in Nat

VARIABLES marked,    \* files with a charge marker
          staged,    \* the weight of a file's .partial directory, 0 if none
          spoilt,    \* files whose .partial does not recover
          kept,      \* the body in a file's published entry, 0 if none
          older,     \* pairs of published files, the first fetched first
          frozen,    \* the scopes with a manifest
          elder,     \* pairs of frozen scopes, the first frozen first
          run,       \* the invocation of every process
          deaths, failures

diskVars == <<marked, staged, spoilt, kept, older, frozen, elder>>
vars == <<lockVars, diskVars, run, deaths, failures>>

Ops == {"off", "open", "claim", "freeze", "recover", "prepare", "reserve",
        "post", "stage", "finish", "references", "drop"}
Steps == {"idle", "wait", "survey", "write"}

Invocation == [op: Ops, step: Steps,
               scope: Scope \union {{}},  \* what it was asked for
               left: SUBSET File,         \* recover_missing has to look at
               todo: SUBSET File,         \* to be downloaded
               failed: SUBSET File,       \* could not be provided
               body: 0..LargestBody,      \* the response at hand
               sound: BOOLEAN,            \* whether it parses
               seen: SUBSET Season,       \* surveyed by this transaction
               active: SUBSET Season]     \* found owned by it

Off == [op |-> "off", step |-> "idle", scope |-> {}, left |-> {}, todo |-> {},
        failed |-> {}, body |-> 0, sound |-> TRUE, seen |-> {}, active |-> {}]

(* Type correctness.                                                         *)
TypeOK ==
    /\ LocksTypeOK
    /\ marked \in SUBSET File
    /\ staged \in [File -> 0..LargestBody + 1]
    /\ spoilt \in SUBSET File
    /\ kept \in [File -> 0..LargestBody]
    /\ older \in SUBSET (File \X File)
    /\ frozen \in SUBSET Scope
    /\ elder \in SUBSET (Scope \X Scope)
    /\ run \in [Process -> Invocation]
    /\ deaths \in Nat /\ failures \in Nat

Init ==
    /\ LocksInit
    /\ marked = {} /\ spoilt = {}
    /\ staged = [f \in File |-> 0]
    /\ kept = [f \in File |-> 0]
    /\ older = {} /\ frozen = {} /\ elder = {}
    /\ run = [p \in Process |-> Off]
    /\ deaths = 0 /\ failures = 0

-----------------------------------------------------------------------------
(* The weight of the cache                                                   *)
MarkerOf(f) == IF f \in marked THEN 1 ELSE 0
EntryOf(f) == IF kept[f] > 0 THEN kept[f] + 1 + MarkerOf(f) ELSE 0
Weight(f) == staged[f] + IF kept[f] > 0 THEN EntryOf(f) ELSE MarkerOf(f)
Total == Cardinality(frozen) + SumFunction([f \in File |-> Weight(f)])

(* What one missing file may come to weigh: marker, receipt, body and        *)
(* provenance, as prepare reckons.                                           *)
MutWorst == LargestBody + 2
Worst == LargestBody + 3

Owned(s) == \E p \in Process : s \in own[p]
SeasonOfScope(c) == SeasonOf[CHOOSE f \in c : TRUE]
Home(p) == SeasonOfScope(run[p].scope)
Missing(p) == {f \in run[p].scope : kept[f] = 0}

(* The file at work: recover_missing and the download loop go in an order,   *)
(* whichever it is.                                                          *)
At(p) == CHOOSE f \in IF run[p].op = "recover" THEN run[p].left ELSE run[p].todo : TRUE

(* additional, as the caller of space_for reckons it.                        *)
Additional(p) ==
    CASE run[p].op = "prepare" -> Worst * Cardinality(Missing(p))
      [] run[p].op = "reserve" -> 1 - MarkerOf(At(p))
      [] run[p].op = "stage" -> 1 + run[p].body
      [] run[p].op \in {"freeze", "recover", "finish"} -> 1
      [] OTHER -> 0

(* prepare asks for what its old budget lacks; the writers may draw on it.   *)
Credit(p) ==
    IF run[p].op \in {"open", "claim"} THEN 0
    ELSE IF budget[Home(p)] < Additional(p) THEN budget[Home(p)] ELSE Additional(p)

MutOutstanding(p) == SumFunction([s \in own[p] |-> budget[s]])
Outstanding(p) == SumFunction([s \in run[p].active |-> budget[s]])

Target(p) == Total + Outstanding(p) + Additional(p) - Credit(p)

(* Seasons the survey found in the hands of others.                          *)
MutForeign(p) == {}
Foreign(p) == run[p].active \ own[p]

(* Cache::pins: pin runs when the recovery starts, freeze pins by itself.    *)
MutPinned(p) == {}
Pinned(p) == IF run[p].op \in {"open", "claim"} THEN {} ELSE run[p].scope

-----------------------------------------------------------------------------
(* space_for                                                                 *)

Weighing(S) == SumFunction([f \in S |-> EntryOf(f)])

(* Entries, but neither pinned ones nor those of a season another process    *)
(* owns; of these, by fetch time, as many as it takes.                       *)
Evictable(p) ==
    {f \in File : kept[f] > 0 /\ f \notin Pinned(p) /\ SeasonOf[f] \notin Foreign(p)}
Victims(p) ==
    {f \in Evictable(p) :
        Target(p) - Weighing({g \in Evictable(p) : <<g, f>> \in older}) > Cap}

(* If that is not enough, by insertion, manifests of whose selection nothing *)
(* is left.                                                                  *)
MutBare(f) == kept[f] = 0
Bare(f) == kept[f] = 0 /\ staged[f] = 0 /\ f \notin marked
Prunable(p) ==
    {c \in frozen : /\ c # Pinned(p)
                    /\ SeasonOfScope(c) \notin Foreign(p)
                    /\ \A f \in c : Bare(f)}
Pruned(p) ==
    {c \in Prunable(p) :
        Target(p) - Weighing(Victims(p))
                  - Cardinality({d \in Prunable(p) : <<d, c>> \in elder}) > Cap}

MutFits(p) == TRUE
Fits(p) == Target(p) - Weighing(Victims(p)) - Cardinality(Pruned(p)) <= Cap
Readable(p) == \A s \in run[p].active : budget[s] # Torn

-----------------------------------------------------------------------------
(* The course of an invocation                                               *)
Set(p, r) == run' = [run EXCEPT ![p] = [r EXCEPT !.seen = {}, !.active = {}]]
Goto(r, o) == [r EXCEPT !.op = o, !.step = IF o \in {"post", "drop"} THEN "idle" ELSE "wait",
                        !.left = IF o = "recover" THEN @ ELSE {}]

(* recover_missing has looked at everything.                                 *)
Decide(r) == IF r.left # {} THEN Goto(r, "recover")
             ELSE IF r.todo # {} THEN Goto(r, "prepare")
             ELSE Goto(r, IF r.failed = {} THEN "references" ELSE "drop")

(* The download loop is through with a file.                                 *)
Proceed(r) == IF r.todo # {} THEN Goto(r, "reserve")
              ELSE Goto(r, IF r.failed = {} THEN "references" ELSE "drop")

(* The operation fails: one file of several, or the invocation.              *)
GiveUp(p) ==
    LET r == run[p]
        f == At(p)
    IN  CASE r.op \in {"open", "claim"} -> Off
          [] r.op = "recover" ->
               Decide([r EXCEPT !.failed = @ \union {f}, !.left = @ \ {f}])
          [] r.op \in {"reserve", "post", "stage", "finish"} ->
               Proceed([r EXCEPT !.failed = @ \union {f}, !.todo = @ \ {f},
                                 !.body = 0, !.sound = TRUE])
          [] OTHER -> Goto(r, "drop")

Begin(p, c) ==
    /\ run[p] = Off
    /\ Set(p, [Goto(Off, "open") EXCEPT !.scope = c])
    /\ UNCHANGED <<lockVars, diskVars, deaths, failures>>

(* Whether the operation asks space_for for room.                            *)
Asks(p) == \/ run[p].op \in {"open", "freeze", "prepare", "reserve", "stage"}
           \/ run[p].op = "recover" /\ staged[At(p)] > 0 /\ At(p) \notin spoilt

Lock(p) ==
    /\ run[p].step = "wait"
    /\ Coordinate(p)
    /\ run' = [run EXCEPT ![p].step = IF Asks(p) THEN "survey" ELSE "write"]
    /\ UNCHANGED <<lock, own, budget, diskVars, deaths, failures>>

(* 30 seconds without the coordination lock.                                 *)
MutBusy(p) == FALSE
Busy(p) == holder \notin {NoOne, p}
TimeOut(p) ==
    /\ run[p].step = "wait"
    /\ Busy(p)
    /\ Set(p, GiveUp(p))
    /\ UNCHANGED <<lockVars, diskVars, deaths, failures>>

(* One season of active's survey.                                            *)
Survey(p, s) ==
    /\ run[p].step = "survey" /\ s \notin run[p].seen
    /\ \A t \in Season : ~Probing(p, t)
    /\ IF Claimable(s)
       THEN Probe(p, s) /\ UNCHANGED run
       ELSE /\ run' = [run EXCEPT ![p].seen = @ \union {s}, ![p].active = @ \union {s}]
            /\ UNCHANGED lock
    /\ UNCHANGED <<holder, own, budget, diskVars, deaths, failures>>

LetGo(p, s) ==
    /\ run[p].step = "survey"
    /\ Unprobe(p, s)
    /\ run' = [run EXCEPT ![p].seen = @ \union {s}]
    /\ UNCHANGED <<holder, own, budget, diskVars, deaths, failures>>

Surveyed(p) == run[p].step = "survey" /\ run[p].seen = Season

(* Room there is, or is made.                                                *)
Trim(p) ==
    /\ Surveyed(p) /\ Readable(p) /\ Fits(p)
    /\ kept' = [f \in File |-> IF f \in Victims(p) THEN 0 ELSE kept[f]]
    /\ marked' = marked \ Victims(p)
    /\ older' = {e \in older : e[1] \notin Victims(p) /\ e[2] \notin Victims(p)}
    /\ frozen' = frozen \ Pruned(p)
    /\ elder' = {e \in elder : e[1] \notin Pruned(p) /\ e[2] \notin Pruned(p)}
    /\ run' = [run EXCEPT ![p].step = "write"]
    /\ UNCHANGED <<lockVars, staged, spoilt, deaths, failures>>

(* There is no room, or no saying what the others may still write.           *)
Refuse(p) ==
    /\ Surveyed(p)
    /\ ~(Readable(p) /\ Fits(p))
    /\ Set(p, GiveUp(p))
    /\ Release(p)
    /\ UNCHANGED <<lock, own, budget, diskVars, deaths, failures>>

-----------------------------------------------------------------------------
(* The writes of a transaction                                               *)
Writing(p, o) == run[p].op = o /\ run[p].step = "write" /\ holder = p

Opened(p) ==
    /\ Writing(p, "open")
    /\ Release(p)
    /\ Set(p, Goto(run[p], "claim"))
    /\ UNCHANGED <<lock, own, budget, diskVars, deaths, failures>>

Claim(p) ==
    /\ Writing(p, "claim") /\ Release(p)
    /\ IF Claimable(Home(p))
       THEN /\ TakeSeason(p, Home(p))
            /\ Set(p, IF run[p].scope \in frozen
                      THEN Goto([run[p] EXCEPT !.left = run[p].scope], "recover")
                      ELSE Goto(run[p], "freeze"))
       ELSE Set(p, Off) /\ UNCHANGED <<lock, own, budget>>
    /\ UNCHANGED <<diskVars, deaths, failures>>

Freeze(p) ==
    /\ Writing(p, "freeze") /\ Release(p)
    /\ frozen' = frozen \union {run[p].scope}
    /\ elder' = elder \union (frozen \X {run[p].scope})
    /\ Consume(Home(p), Additional(p))
    /\ Set(p, Goto([run[p] EXCEPT !.left = run[p].scope], "recover"))
    /\ UNCHANGED <<lock, own, marked, staged, spoilt, kept, older, deaths, failures>>

Publish(p, f, body) ==
    /\ kept' = [kept EXCEPT ![f] = body]
    /\ staged' = [staged EXCEPT ![f] = 0]
    /\ older' = older \union ({g \in File : kept[g] > 0} \X {f})
    /\ Consume(Home(p), Additional(p))

Recover(p) ==
    /\ Writing(p, "recover") /\ Release(p)
    /\ LET f == At(p)
           r == [run[p] EXCEPT !.left = @ \ {f}]
       IN  \/ /\ kept[f] > 0
              /\ Set(p, Decide(r))
              /\ UNCHANGED <<budget, staged, kept, older>>
           \/ /\ kept[f] = 0 /\ staged[f] = 0
              /\ Set(p, Decide([r EXCEPT !.todo = @ \union {f}]))
              /\ UNCHANGED <<budget, staged, kept, older>>
           \/ /\ kept[f] = 0 /\ staged[f] > 0 /\ f \in spoilt
              /\ Set(p, GiveUp(p))
              /\ UNCHANGED <<budget, staged, kept, older>>
           \/ /\ kept[f] = 0 /\ staged[f] > 0 /\ f \notin spoilt
              /\ Publish(p, f, staged[f] - 1)
              /\ Set(p, Decide(r))
    /\ UNCHANGED <<lock, own, marked, spoilt, frozen, elder, deaths, failures>>

Prepare(p) ==
    /\ Writing(p, "prepare") /\ Release(p)
    /\ budget' = [budget EXCEPT ![Home(p)] = Additional(p)]
    /\ Set(p, Goto(run[p], "reserve"))
    /\ UNCHANGED <<lock, own, diskVars, deaths, failures>>

Reserve(p) ==
    /\ Writing(p, "reserve") /\ Release(p)
    /\ marked' = marked \union {At(p)}
    /\ Consume(Home(p), Additional(p))
    /\ Set(p, Goto(run[p], "post"))
    /\ UNCHANGED <<lock, own, staged, spoilt, kept, older, frozen, elder, deaths, failures>>

(* The POST and the content GET, without any transaction: a response, a file *)
(* that failed, or the end of the invocation.                                *)
Download(p) ==
    /\ run[p].op = "post"
    /\ \/ \E n \in 1..LargestBody, sound \in BOOLEAN :
            Set(p, Goto([run[p] EXCEPT !.body = n, !.sound = sound], "stage"))
       \/ Set(p, GiveUp(p))
       \/ Set(p, Goto(run[p], "drop"))
    /\ UNCHANGED <<lockVars, diskVars, deaths, failures>>

(* stage; finish_staging follows in the same transaction.                    *)
Stage(p) ==
    /\ Writing(p, "stage")
    /\ staged' = [staged EXCEPT ![At(p)] = 1 + run[p].body]
    /\ Consume(Home(p), Additional(p))
    /\ IF run[p].sound
       THEN /\ Set(p, [run[p] EXCEPT !.op = "finish", !.step = "survey"])
            /\ UNCHANGED <<holder, spoilt>>
       ELSE /\ Release(p) /\ Set(p, GiveUp(p))
            /\ spoilt' = spoilt \union {At(p)}
    /\ UNCHANGED <<lock, own, marked, kept, older, frozen, elder, deaths, failures>>

Finish(p) ==
    /\ Writing(p, "finish") /\ Release(p)
    /\ Publish(p, At(p), run[p].body)
    /\ Set(p, Proceed([run[p] EXCEPT !.todo = @ \ {At(p)}, !.body = 0]))
    /\ UNCHANGED <<lock, own, marked, spoilt, frozen, elder, deaths, failures>>

References(p) ==
    /\ Writing(p, "references") /\ Release(p)
    /\ Set(p, Goto(run[p], "drop"))
    /\ UNCHANGED <<lock, own, budget, diskVars, deaths, failures>>

(* The cache is dropped, without a transaction.                              *)
Drop(p) ==
    /\ run[p].op = "drop"
    /\ ReleaseSeasons(p)
    /\ Set(p, Off)
    /\ UNCHANGED <<holder, budget, diskVars, deaths, failures>>

-----------------------------------------------------------------------------
(* Faults                                                                    *)
Die(p) ==
    /\ run[p] # Off
    /\ deaths < MaxDeaths /\ deaths' = deaths + 1
    /\ holder' = IF holder = p THEN NoOne ELSE holder
    /\ ReleaseSeasons(p)
    /\ Set(p, Off)
    /\ UNCHANGED <<budget, diskVars, failures>>

Failure == failures < MaxFailures /\ failures' = failures + 1

(* The receipt is written, the body is not, and nothing is consumed.         *)
StageFails(p) ==
    /\ Writing(p, "stage") /\ Release(p)
    /\ Failure
    /\ staged' = [staged EXCEPT ![At(p)] = 1]
    /\ spoilt' = spoilt \union {At(p)}
    /\ Set(p, GiveUp(p))
    /\ UNCHANGED <<lock, own, budget, marked, kept, older, frozen, elder, deaths>>

(* The marker is written, the budget file truncated and not written.         *)
ConsumeFails(p) ==
    /\ Writing(p, "reserve") /\ Release(p)
    /\ Failure
    /\ marked' = marked \union {At(p)}
    /\ budget' = [budget EXCEPT ![Home(p)] = Torn]
    /\ Set(p, GiveUp(p))
    /\ UNCHANGED <<lock, own, staged, spoilt, kept, older, frozen, elder, deaths>>

-----------------------------------------------------------------------------
Working(p) ==
    \/ Lock(p) \/ TimeOut(p)
    \/ \E s \in Season : Survey(p, s) \/ LetGo(p, s)
    \/ Trim(p) \/ Refuse(p)
    \/ Opened(p) \/ Claim(p) \/ Freeze(p) \/ Recover(p) \/ Prepare(p)
    \/ Reserve(p) \/ Download(p) \/ Stage(p) \/ Finish(p) \/ References(p)
    \/ Drop(p)

Next == \E p \in Process :
    \/ \E c \in Scope : Begin(p, c)
    \/ Working(p)
    \/ Die(p) \/ StageFails(p) \/ ConsumeFails(p)

Spec == Init /\ [][Next]_vars

(* Every process that runs is scheduled; nobody has to start one, die or     *)
(* fail.                                                                     *)
FairSpec == Spec /\ \A p \in Process : WF_vars(Working(p))

-----------------------------------------------------------------------------
(* Properties                                                                *)

(* The cache never outgrows its cap, whatever fails (FOLDER.md: the cap is   *)
(* 250 MiB).                                                                 *)
CapKept == Total <= Cap

(* While no write has failed, what is there and what the living owners were  *)
(* promised fit together (FOLDER.md: two seasons cannot both spend the same  *)
(* cache capacity).                                                          *)
PromisesFit ==
    failures = 0 =>
        Total + SumFunction([s \in {t \in Season : Owned(t)} |-> budget[s]]) <= Cap

(* Once a download is paid for, room for it does not run out.                *)
RoomForPaid(p) ==
    Surveyed(p) /\ Readable(p) /\ run[p].op \in {"stage", "finish"} => Fits(p)
PaidFits == failures = 0 => \A p \in Process : RoomForPaid(p)

(* The cap holds the promises while they stand and the responses when they   *)
(* come.                                                                     *)
RoomIsThere == PromisesFit /\ PaidFits

(* "If protected state or pinned work cannot fit, stop before charge"        *)
(* (FOLDER.md), failing writes or not.                                       *)
PaidAlwaysFits == \A p \in Process : RoomForPaid(p)

(* The processes keep the promise of SeasonLease: nobody evicts from, or     *)
(* prunes in, a season another process owns (FOLDER.md: other processes      *)
(* cannot evict any content/manifests in an actively owned season).          *)
Owner(s) == IF Owned(s) THEN CHOOSE p \in Process : s \in own[p] ELSE NoOne
Lease == INSTANCE SeasonLease WITH
    hand <- holder,
    owner <- [s \in Season |-> Owner(s)],
    stock <- {f \in File : kept[f] > 0},
    shelf <- frozen,
    HomeOf <- [c \in Scope |-> SeasonOfScope(c)]
LeasesHold == Lease!LeaseSpec

(* What an invocation found or fetched stays until it has used it: it does   *)
(* not make room for one file of its working set by evicting another.        *)
WorkingSetKept ==
    \A p \in Process :
        run[p].op \in {"prepare", "reserve", "post", "stage", "finish", "references"} =>
            \A f \in run[p].scope \ (run[p].todo \union run[p].failed) : kept[f] > 0

(* A claim fails only if the season has an owner: another process's survey   *)
(* is never mistaken for one.                                                *)
BusyMeansOwned ==
    \A p \in Process :
        Writing(p, "claim") /\ ~Claimable(Home(p)) => Owned(Home(p))

(* Whatever a season keeps, has staged or has paid for, a manifest selects.  *)
TracesHaveManifest ==
    \A f \in File : kept[f] > 0 \/ staged[f] > 0 \/ f \in marked =>
        \E c \in frozen : f \in c

(* Every invocation comes to an end, however busy the others are.            *)
InvocationsEnd == \A p \in Process : run[p] # Off ~> run[p] = Off
=============================================================================
