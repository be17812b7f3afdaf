---------------------------- MODULE Acquisition ----------------------------
(* One invocation after another fetches the references of a season: open the *)
(* cache, recover what an earlier run left, and download the rest, one POST  *)
(* (which costs quota) and one content GET per file (opensubtitles.rs        *)
(* acquire, cache.rs reserve/stage/recover/finish_staging).  Every change of *)
(* the disk is a step; the process may die, and an operation may fail,       *)
(* between and within any two of them.  Between the transactions of this     *)
(* process and after it, others evict entries it does not protect.           *)
EXTENDS ReferenceDisk, Naturals, FiniteSets

CONSTANTS MaxQuota,    \* bound: largest download counter the server returns
          MaxFaults,   \* bound: deaths, failures, refusals and evictions
          Selections   \* what manifests freeze: sets of files of one season

ASSUME AcquisitionAssumption ==
    /\ Files \subseteq Nat
    /\ MaxQuota \in Nat
    /\ MaxFaults \in Nat
    /\ Selections \subseteq SUBSET Files

ASSUME FrozenFinite == \A S \in Selections : IsFiniteSet(S)

VARIABLES pc,         \* next step of the running invocation
          selected,   \* manifest.selected of the latest invocation
          pass,       \* 1, 2: the calls of recover_missing; 3: the downloads
          todo,       \* files this pass has still to look at
          pending,    \* files recover_missing found to be downloaded
          failures,   \* files this pass could not provide
          at,         \* the file at work, if any
          remaining,  \* {} while not yet known, else {the server's counter}
          attempted,  \* Cache::attempted
          verdict,    \* how the latest invocation ended
          posts,      \* history: download POSTs of this invocation, per file
          charged,    \* history: files POSTed for since last published
          warned,     \* history: prior-charge warnings of this invocation
          faults      \* history: faults so far

runVars == <<pc, selected, pass, todo, pending, failures, at, remaining,
             attempted, verdict>>
history == <<posts, charged, warned, faults>>
vars == <<diskVars, runVars, history>>

Steps == {"off", "open", "scan", "prepare", "quota", "loop", "reserve",
          "unmark", "mark", "post", "fetch", "stage", "receipt", "body",
          "finish", "provenance", "unreceipt", "rename", "references"}

Verdicts == {"none", "ready", "incomplete", "quota", "stopped", "failed",
             "died"}

RunTypeOK ==
    /\ pc \in Steps
    /\ selected \in SUBSET Files
    /\ pass \in 1..3
    /\ todo \in SUBSET Files
    /\ pending \in SUBSET Files
    /\ failures \in SUBSET Files
    /\ at \in SUBSET Files
    /\ remaining \in SUBSET (0..MaxQuota)
    /\ attempted \in SUBSET Files
    /\ verdict \in Verdicts
    /\ posts \in [Files -> Nat]
    /\ charged \in SUBSET Files
    /\ warned \in SUBSET Files
    /\ faults \in Nat

TypeOK == DiskTypeOK /\ RunTypeOK

Init ==
    /\ DiskInit
    /\ pc = "off"
    /\ selected = {}
    /\ pass = 1
    /\ todo = {} /\ pending = {} /\ failures = {} /\ at = {}
    /\ remaining = {}
    /\ attempted = {}
    /\ verdict = "none"
    /\ posts = [f \in Files |-> 0]
    /\ charged = {} /\ warned = {}
    /\ faults = 0

-----------------------------------------------------------------------------
(* Building blocks                                                           *)
Fault == faults < MaxFaults /\ faults' = faults + 1

Goto(step) == pc' = step

(* The invocation ends; what only lives in the process is gone.              *)
End(v) ==
    /\ pc' = "off"
    /\ verdict' = v
    /\ todo' = {} /\ pending' = {} /\ at' = {} /\ remaining' = {}
    /\ attempted' = {}
    /\ UNCHANGED <<selected, pass>>

(* The next file in manifest order.                                          *)
Foremost(S, f) == f \in S /\ \A g \in S : f <= g

MutLacks(n, S) == n + 1 < Cardinality(S)
Lacks(n, S) == n < Cardinality(S)

(* After a POST: go on unless what the server leaves cannot pay for the rest.*)
Proceed ==
    IF \E n \in remaining : Lacks(n, todo \ at)
    THEN End("quota")
    ELSE /\ Goto("loop")
         /\ todo' = todo \ at
         /\ at' = {}
         /\ UNCHANGED <<selected, pass, pending, remaining, attempted, verdict>>

(* recover or the download is through with the file at work.                 *)
Leave == IF pass = 3
         THEN Proceed
         ELSE /\ Goto("scan")
              /\ todo' = todo \ at
              /\ at' = {}
              /\ UNCHANGED <<selected, pass, pending, remaining, attempted, verdict>>

MutGiveUp == /\ failures' = failures \union at
             /\ IF pass = 3 THEN End("incomplete") ELSE Leave
GiveUp == failures' = failures \union at /\ Leave

-----------------------------------------------------------------------------
(* Opening and recovering                                                    *)

(* Nothing this pass looked at failed.                                       *)
MutCovered == TRUE
Covered == failures = {}
Begin(selection) ==
    /\ pc = "off"
    /\ Quiet
    /\ Goto("open")
    /\ selected' = selection
    /\ pass' = 1
    /\ todo' = selection
    /\ failures' = {}
    /\ verdict' = "none"
    /\ posts' = [f \in Files |-> 0]
    /\ warned' = {}
    /\ UNCHANGED <<diskVars, pending, at, remaining, attempted, charged, faults>>

(* Cache::open: space(0) walks the whole cache.                              *)
Open ==
    /\ pc = "open"
    /\ Quiet
    /\ \/ /\ Inventoried
          /\ Goto("scan")
          /\ UNCHANGED <<selected, pass, todo, pending, at, remaining, attempted,
                         verdict, faults>>
       \/ /\ ~Inventoried
          /\ End("failed")
          /\ UNCHANGED faults
       \/ /\ Fault
          /\ End("failed")
    /\ UNCHANGED <<diskVars, failures, posts, charged, warned>>

(* recover(f): published, nothing there, or a staging directory to finish.   *)
Contained(f) == entry[f].there /\ Loads(f, entry[f])
Unloadable(f) == entry[f].there /\ ~Loads(f, entry[f])

Recover ==
    /\ pc = "scan"
    /\ Quiet
    /\ \E f \in todo :
          /\ Foremost(todo, f)
          /\ \/ /\ Contained(f)
                /\ todo' = todo \ {f}
                /\ UNCHANGED <<pc, at, pending, failures>>
             \/ /\ ~entry[f].there /\ ~partial[f].there
                /\ pending' = pending \union {f}
                /\ todo' = todo \ {f}
                /\ UNCHANGED <<pc, at, failures>>
             \/ /\ \/ Unloadable(f)
                   \/ /\ ~entry[f].there /\ partial[f].there
                      /\ ~Inventoried \/ partial[f].body = "none"
                /\ failures' = failures \union {f}
                /\ todo' = todo \ {f}
                /\ UNCHANGED <<pc, at, pending>>
             \/ /\ ~entry[f].there /\ partial[f].there
                /\ Inventoried /\ partial[f].body # "none"
                /\ at' = {f}
                /\ Goto("finish")
                /\ UNCHANGED <<todo, pending, failures>>
    /\ UNCHANGED <<diskVars, selected, pass, remaining, attempted, verdict, history>>

(* The end of a pass over the selection.  After the first, references_inner  *)
(* is done if nothing is missing and else calls acquire, which scans again.  *)
FirstPassDone ==
    /\ pc = "scan" /\ pass = 1 /\ todo = {}
    /\ \/ /\ pending = {} /\ ~Covered
          /\ End("incomplete")
          /\ UNCHANGED <<failures, faults>>
       \/ /\ pending # {} \/ Covered
          /\ \/ /\ \E f \in selected : Unloadable(f)
                /\ End("failed")
                /\ UNCHANGED <<failures, faults>>
             \/ /\ \A f \in selected : Contained(f)
                /\ Goto("references")
                /\ UNCHANGED <<selected, pass, todo, pending, failures, at,
                               remaining, attempted, verdict, faults>>
             \/ /\ \A f \in selected : ~Unloadable(f)
                /\ \E f \in selected : ~Contained(f)
                /\ \/ /\ pass' = 2
                      /\ todo' = selected
                      /\ pending' = {} /\ failures' = {}
                      /\ UNCHANGED <<pc, selected, at, remaining, attempted,
                                     verdict, faults>>
                   \/ /\ Fault                \* no key in the environment
                      /\ End("failed")
                      /\ UNCHANGED failures
    /\ UNCHANGED <<diskVars, posts, charged, warned>>

SecondPassDone ==
    /\ pc = "scan" /\ pass = 2 /\ todo = {}
    /\ \/ /\ pending = {} /\ ~Covered
          /\ End("incomplete")
       \/ /\ pending = {} /\ Covered
          /\ Goto("references")
          /\ UNCHANGED <<selected, pass, todo, pending, at, remaining, attempted,
                         verdict>>
       \/ /\ pending # {}
          /\ Goto("prepare")
          /\ UNCHANGED <<selected, pass, todo, pending, at, remaining, attempted,
                         verdict>>
    /\ UNCHANGED <<diskVars, failures, history>>

-----------------------------------------------------------------------------
(* Downloading                                                               *)

(* prepare: room for everything missing is set aside, or nothing is bought.  *)
Prepare ==
    /\ pc = "prepare"
    /\ Quiet
    /\ \/ /\ Inventoried
          /\ Goto("quota")
          /\ UNCHANGED <<selected, pass, todo, pending, at, remaining, attempted,
                         verdict, faults>>
       \/ /\ ~Inventoried
          /\ End("failed")
          /\ UNCHANGED faults
       \/ /\ Fault
          /\ End("failed")
    /\ UNCHANGED <<diskVars, failures, posts, charged, warned>>

(* The server's counter, known only with an account.                         *)
Quota ==
    /\ pc = "quota"
    /\ \/ \E known \in {{}} \union {{n} : n \in 0..MaxQuota} :
             IF \E n \in known : Lacks(n, pending)
             THEN Fault /\ End("quota")
             ELSE /\ Goto("loop")
                  /\ pass' = 3
                  /\ todo' = pending
                  /\ remaining' = known
                  /\ UNCHANGED <<selected, pending, at, attempted, verdict, faults>>
       \/ Fault /\ End("failed")
    /\ UNCHANGED <<diskVars, failures, posts, charged, warned>>

Loop ==
    /\ pc = "loop"
    /\ \/ /\ todo = {} /\ Covered
          /\ Goto("references")
          /\ UNCHANGED <<selected, pass, todo, pending, at, remaining, attempted,
                         verdict>>
       \/ /\ todo = {} /\ ~Covered
          /\ End("incomplete")
       \/ /\ todo # {} /\ remaining = {0}
          /\ End("quota")
       \/ /\ todo # {} /\ remaining # {0}
          /\ Goto("reserve")
          /\ at' = {f \in todo : Foremost(todo, f)}
          /\ UNCHANGED <<selected, pass, todo, pending, remaining, attempted, verdict>>
    /\ UNCHANGED <<diskVars, failures, history>>

(* The charge is refused for this file: the loop goes on with the next.      *)
Skip ==
    /\ failures' = failures \union at
    /\ Goto("loop")
    /\ todo' = todo \ at
    /\ at' = {}
    /\ UNCHANGED <<selected, pass, pending, remaining, verdict>>

MutReservable(f) ==
    Inventoried /\ ~entry[f].there /\ ~partial[f].there /\ marker[f] = "none"
Reservable(f) ==
    /\ Inventoried
    /\ ~entry[f].there
    /\ ~partial[f].there
    /\ marker[f] # "torn"
    /\ f \notin attempted

(* The owned marker of an earlier run is replaced.                           *)
MutMarking(f) == IF marker[f] = "whole" THEN "unmark" ELSE "post"
Marking(f) == IF marker[f] = "whole" THEN "unmark" ELSE "mark"

Reserve ==
    /\ pc = "reserve"
    /\ Quiet
    /\ \E f \in at :
          \/ /\ Reservable(f)
             /\ attempted' = attempted \union {f}
             /\ Goto(Marking(f))
             /\ warned' = IF marker[f] = "whole" THEN warned \union {f} ELSE warned
             /\ UNCHANGED <<selected, pass, todo, pending, failures, at, remaining,
                            verdict, faults>>
          \/ /\ ~Reservable(f)
             /\ Skip
             /\ UNCHANGED <<attempted, warned, faults>>
          \/ /\ Fault
             /\ Skip
             /\ UNCHANGED <<attempted, warned>>
    /\ UNCHANGED <<diskVars, posts, charged>>

RemoveOldMarker ==
    /\ pc = "unmark"
    /\ \E f \in at :
          \/ /\ marker' = [marker EXCEPT ![f] = "none"]
             /\ Goto("mark")
             /\ UNCHANGED <<selected, pass, todo, pending, failures, at, remaining,
                            attempted, verdict, faults>>
          \/ /\ Fault
             /\ Skip
             /\ UNCHANGED <<marker, attempted>>
    /\ UNCHANGED <<partial, entry, usable, evicting, wounded, posts, charged, warned>>

WriteMarker ==
    /\ pc = "mark"
    /\ \E f \in at :
          \/ /\ marker' = [marker EXCEPT ![f] = "whole"]
             /\ Goto("post")
             /\ UNCHANGED <<selected, pass, todo, pending, failures, at, remaining,
                            attempted, verdict, wounded, faults>>
          \/ /\ Fault
             /\ \E m \in Marks :
                   /\ marker' = [marker EXCEPT ![f] = m]
                   /\ wounded' = IF m = "torn"
                                 THEN [wounded EXCEPT ![f] = @ \union {"staging"}]
                                 ELSE wounded
             /\ Skip
             /\ UNCHANGED attempted
    /\ UNCHANGED <<partial, entry, usable, evicting, posts, charged, warned>>

MutTold(n) == {n - 1}
Told(n) == {n}

(* The download POST: from here on the file may have been paid for.          *)
Post ==
    /\ pc = "post"
    /\ \E f \in at :
          /\ posts' = [posts EXCEPT ![f] = @ + 1]
          /\ charged' = charged \union {f}
    /\ \/ \E n \in 0..MaxQuota :
             /\ Goto("fetch")
             /\ remaining' = Told(n)
             /\ IF Lacks(n, todo \ at) THEN Fault ELSE UNCHANGED faults
             /\ UNCHANGED <<selected, pass, todo, pending, at, attempted, verdict>>
       \/ Fault /\ End("failed")
    /\ UNCHANGED <<diskVars, failures, warned>>

(* The content GET, or a POST reply without a link.                          *)
Fetch ==
    /\ pc = "fetch"
    /\ \/ /\ Goto("stage")
          /\ UNCHANGED <<selected, pass, todo, pending, failures, at, remaining,
                         attempted, verdict, faults>>
       \/ Fault /\ GiveUp
       \/ /\ Fault /\ End("stopped")
          /\ UNCHANGED failures
    /\ UNCHANGED <<diskVars, posts, charged, warned>>

-----------------------------------------------------------------------------
(* Staging and publishing                                                    *)
Damage(f, torn) == wounded' = IF torn
                              THEN [wounded EXCEPT ![f] = @ \union {"staging"}]
                              ELSE wounded

Restage(f, dir) == partial' = [partial EXCEPT ![f] = dir]

Stage ==
    /\ pc = "stage"
    /\ Quiet
    /\ \E f \in at :
          \/ /\ ~entry[f].there /\ ~partial[f].there /\ Inventoried
             /\ Restage(f, EmptyDir)
             /\ Goto("receipt")
             /\ UNCHANGED <<selected, pass, todo, pending, failures, at, remaining,
                            attempted, verdict, faults>>
          \/ /\ entry[f].there \/ partial[f].there \/ ~Inventoried
             /\ GiveUp
             /\ UNCHANGED <<partial, faults>>
          \/ Fault /\ GiveUp /\ UNCHANGED partial
    /\ UNCHANGED <<marker, entry, usable, evicting, wounded, posts, charged, warned>>

WriteReceipt ==
    /\ pc = "receipt"
    /\ \E f \in at :
          \/ /\ Restage(f, [partial[f] EXCEPT !.receipt = "full"])
             /\ Goto("body")
             /\ UNCHANGED <<selected, pass, todo, pending, failures, at, remaining,
                            attempted, verdict, wounded, faults>>
          \/ /\ Fault
             /\ \E r \in {"none", "torn", "full"} :
                   Restage(f, [partial[f] EXCEPT !.receipt = r])
             /\ Damage(f, TRUE)
             /\ GiveUp
    /\ UNCHANGED <<marker, entry, usable, evicting, posts, charged, warned>>

WriteBody ==
    /\ pc = "body"
    /\ \E f \in at :
          \/ /\ Restage(f, [partial[f] EXCEPT !.body = "full"])
             /\ Goto("finish")
             /\ UNCHANGED <<selected, pass, todo, pending, failures, at, remaining,
                            attempted, verdict, wounded, faults>>
          \/ /\ Fault
             /\ \E b \in Bodies :
                   /\ Restage(f, [partial[f] EXCEPT !.body = b])
                   /\ Damage(f, b # "full")
             /\ GiveUp
    /\ UNCHANGED <<marker, entry, usable, evicting, posts, charged, warned>>

(* finish_staging writes the provenance unless an earlier run did.           *)
MutCheckedEarly(f) == "unreceipt"
MutCheckedLate(f) == IF partial[f].prov = "none" THEN "provenance" ELSE "rename"
Checked(f) == IF partial[f].prov = "none" THEN "provenance" ELSE "unreceipt"

(* finish_staging, up to its first write: nothing is changed on a refusal.   *)
Finish ==
    /\ pc = "finish"
    /\ \E f \in at :
          \/ /\ Publishable(f)
             /\ Goto(Checked(f))
             /\ UNCHANGED <<selected, pass, todo, pending, failures, at, remaining,
                            attempted, verdict>>
          \/ ~Publishable(f) /\ GiveUp
    /\ UNCHANGED <<diskVars, history>>

WriteProvenance ==
    /\ pc = "provenance"
    /\ Quiet
    /\ \E f \in at :
          \/ /\ Inventoried
             /\ Restage(f, [partial[f] EXCEPT !.prov = partial[f].body])
             /\ Goto("unreceipt")
             /\ UNCHANGED <<selected, pass, todo, pending, failures, at, remaining,
                            attempted, verdict, wounded, faults>>
          \/ /\ ~Inventoried
             /\ GiveUp
             /\ UNCHANGED <<partial, wounded, faults>>
          \/ /\ Fault
             /\ \E p \in {"none", "torn", partial[f].body} :
                   /\ Restage(f, [partial[f] EXCEPT !.prov = p])
                   /\ Damage(f, p = "torn")
             /\ GiveUp
    /\ UNCHANGED <<marker, entry, usable, evicting, posts, charged, warned>>

RemoveReceipt ==
    /\ pc = "unreceipt"
    /\ \E f \in at :
          \/ /\ Restage(f, [partial[f] EXCEPT !.receipt = "none"])
             /\ Goto("rename")
             /\ UNCHANGED <<selected, pass, todo, pending, failures, at, remaining,
                            attempted, verdict, faults>>
          \/ /\ Fault
             /\ GiveUp
             /\ UNCHANGED partial
    /\ UNCHANGED <<marker, entry, usable, evicting, wounded, posts, charged, warned>>

Publish ==
    /\ pc = "rename"
    /\ \E f \in at :
          \/ /\ entry' = [entry EXCEPT ![f] = partial[f]]
             /\ Restage(f, NoDir)
             /\ charged' = charged \ {f}
             /\ Leave
             /\ UNCHANGED <<failures, faults>>
          \/ /\ Fault
             /\ GiveUp
             /\ UNCHANGED <<entry, partial, charged>>
    /\ UNCHANGED <<marker, usable, evicting, wounded, posts, warned>>

(* Cache::references loads every selected entry again.                       *)
References ==
    /\ pc = "references"
    /\ Quiet
    /\ IF \A f \in selected : Contained(f) THEN End("ready") ELSE End("failed")
    /\ UNCHANGED <<diskVars, failures, history>>

-----------------------------------------------------------------------------
(* Deaths and evictions                                                      *)

(* A death in the middle of a write is a failed write followed by Die.       *)
Die ==
    /\ pc # "off"
    /\ Fault
    /\ End("died")
    /\ IF pc \in {"receipt", "body"}
       THEN \E f \in at : Damage(f, TRUE)
       ELSE UNCHANGED wounded
    /\ UNCHANGED <<marker, partial, entry, usable, evicting, failures, posts,
                   charged, warned>>

(* A running invocation protects its selection by pins and by its season.    *)
Protected(f) == pc # "off" /\ f \in selected

(* Steps before which the coordination lock is free, or space_for is called. *)
EvictionSteps == {"off", "open", "scan", "prepare", "quota", "loop", "reserve",
                  "post", "fetch", "stage", "provenance", "references"}

Evict(f) ==
    /\ pc \in EvictionSteps
    /\ ~Protected(f)
    /\ Fault
    /\ EvictBegin(f)
    /\ UNCHANGED <<runVars, posts, charged, warned>>

EvictOn(f) == EvictStep(f) /\ UNCHANGED <<runVars, history>>

EvictDies(f) ==
    /\ Fault
    /\ EvictStops(f)
    /\ UNCHANGED <<runVars, posts, charged, warned>>

-----------------------------------------------------------------------------
Running ==
    \/ Open \/ Recover \/ FirstPassDone \/ SecondPassDone
    \/ Prepare \/ Quota \/ Loop \/ Reserve \/ RemoveOldMarker \/ WriteMarker
    \/ Post \/ Fetch \/ Stage \/ WriteReceipt \/ WriteBody
    \/ Finish \/ WriteProvenance \/ RemoveReceipt \/ Publish \/ References

Start == \E S \in Selections : Begin(S)

Evicting == \E f \in Files : EvictOn(f)

Next ==
    \/ Start \/ Running \/ Die \/ Evicting
    \/ \E f \in Files : Evict(f) \/ EvictDies(f)

Spec == Init /\ [][Next]_vars

-----------------------------------------------------------------------------
(* Properties                                                                *)

(* A published entry holds the whole response with a provenance that names   *)
(* it, unless an eviction has begun: finish_staging renames last.            *)
PublishedWhole ==
    \A f \in Files :
        entry[f].there =>
            /\ entry[f].receipt = "none"
            /\ entry[f].body # "prefix"
            /\ \/ entry[f].body = "full" /\ entry[f].prov = "full" /\ usable[f]
               \/ f \in evicting
               \/ "eviction" \in wounded[f]

(* What the cache holds of each file, and the downloads paid for, go through *)
(* the life ReferenceArchive promises, whatever fails and whenever the       *)
(* process dies: no second download of what is held, no response given up.   *)
Responded(d) == d.body = "full" /\ "full" \in {d.receipt, d.prov}

Holding(f) ==
    CASE entry[f].there /\ entry[f].body = "none" -> "remnant"
      [] entry[f].there /\ entry[f].body # "none" -> "reference"
      [] ~entry[f].there /\ ~partial[f].there -> "nothing"
      [] ~entry[f].there /\ partial[f].there ->
            IF Responded(partial[f]) THEN "response" ELSE "fragment"

Archive == INSTANCE ReferenceArchive
               WITH held <- [f \in Files |-> Holding(f)], paid <- posts

LivesAsPromised == Archive!Spec

(* reserve: the POST is sent with the marker on disk, never without.         *)
ChargeNeedsMarker ==
    [][\A f \in Files : posts'[f] > posts[f] => marker[f] = "whole"]_vars

(* acquire: a POST is sent only if the counter, once known, pays for every   *)
(* file still to be fetched.                                                 *)
QuotaHonoured ==
    [][\A f \in Files : posts'[f] > posts[f] =>
          \A n \in remaining : n >= Cardinality(todo)]_vars

(* No POST is sent uncovered, by its marker or by the quota.                 *)
PostsAreCovered == ChargeNeedsMarker /\ QuotaHonoured

(* acquire returns Ok only with every selected file published: the failures  *)
(* of one file are not forgotten while the others are fetched.               *)
ReadyIsComplete ==
    pc = "references" => \A f \in selected : Contained(f)

(* A run that ends for incomplete coverage has published or tried in vain    *)
(* every selected file: a bad file does not keep the others from being       *)
(* fetched.                                                                  *)
NoneLeftUntried ==
    [][verdict # "incomplete" /\ verdict' = "incomplete" =>
          \A f \in selected : Contained(f) \/ f \in failures]_vars

(* What an invocation claims about its coverage is so, whichever way it ends.*)
CoverageIsTrue == []ReadyIsComplete /\ NoneLeftUntried

(* Only a write or a staging cut short, an interrupted eviction or a         *)
(* response without captions needs an owner's review: deaths at every other  *)
(* point, those within finish_staging included, are recovered from.          *)
ReviewHasCause ==
    \A f \in Files :
        NeedsReview(f) => \/ f \in evicting
                          \/ wounded[f] # {}
                          \/ ~usable[f] /\ Holding(f) = "response"
                          \/ pc \in {"receipt", "body"} /\ f \in at

(* However a download is cut short, the rest of the cache stays readable:    *)
(* only an interrupted eviction makes walk() refuse the whole cache.         *)
DownloadsPoisonNothing ==
    \A f \in Files :
        ~Intact(f) => f \in evicting \/ "eviction" \in wounded[f]

(* Interruptions do no harm but where a write or an eviction was cut short.  *)
InterruptionsHeal == ReviewHasCause /\ DownloadsPoisonNothing

(* FOLDER.md: an attempt-only marker is replaced "with a warning that the    *)
(* prior POST may already have cost quota".                                  *)
EveryRepostWarned ==
    [][\A f \in Files :
          posts'[f] > posts[f] /\ f \in charged => f \in warned]_vars

-----------------------------------------------------------------------------
(* The invocation itself keeps going, an eviction too, and the user starts   *)
(* the program again whenever it has ended.                                  *)
FairSpec == Spec /\ WF_vars(Running) /\ WF_vars(Evicting) /\ WF_vars(Start)

(* With finitely many faults, repeating the command gets every reference,    *)
(* unless some file needs an owner's review.                                 *)
Converges ==
    <>(verdict = "ready") \/ <>[](\E f \in Files : NeedsReview(f))
=============================================================================
