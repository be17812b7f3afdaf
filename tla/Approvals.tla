------------------------------ MODULE Approvals ------------------------------
(* The consented replacement of references that turned out to be empty       *)
(* (opensubtitles/fallback.rs, cache/fallback.rs): each run replays the      *)
(* approvals it finds, acquires what is missing, and may then propose one    *)
(* alternative, which the user's yes turns into an approval file and at most *)
(* one POST.  The run may die or be refused anything at any step; other      *)
(* processes evict while no run owns the season; the owner of the cache may  *)
(* change what is retained between runs and while the prompt is open.        *)
EXTENDS Naturals, Sequences, FiniteSets

CONSTANTS Origins,       \* files the frozen manifest selects, one per episode
          Alternatives,  \* per origin: the other files of its episode
          MaxFallbacks,  \* MAX_FALLBACKS
          MaxFaults,     \* bound: deaths and refusals
          MaxEdits       \* bound: changes by the owner of the cache

Candidates == UNION {Alternatives[o] : o \in Origins}
Files == Origins \union Candidates

ASSUME ApprovalsAssumption ==
    /\ Files \subseteq Nat \ {0}
    /\ Alternatives \in [Origins -> SUBSET Files]
    /\ Candidates \cap Origins = {}
    /\ \A o, p \in Origins : o # p => Alternatives[o] \cap Alternatives[p] = {}
    /\ MaxFallbacks \in Nat /\ MaxFaults \in Nat /\ MaxEdits \in Nat

VARIABLES store,      \* what the cache holds of a file
          marker,     \* its charge marker
          chain,      \* per origin: the approval files, one per step
          half,       \* origins with the .partial of an approval
          pc, mode,   \* the running invocation, and what its caller allows
          effective,  \* effective_manifest
          todo, failures,
          offer,      \* what is proposed
          consented,  \* history: files the user said yes to in this run
          posted,     \* history: files POSTed for in this run
          edited,     \* history: files the owner changed
          faults, edits

diskVars == <<store, marker, chain, half>>
runVars == <<pc, mode, effective, todo, failures, offer>>
history == <<consented, posted, edited, faults, edits>>
vars == <<diskVars, runVars, history>>

(* Two bodies without captions that differ, as their digests do.             *)
Empties == {"empty", "other empty"}
Stores == {"absent", "torn", "whole", "malformed", "published"} \union Empties
Marks == {"none", "torn", "whole"}
Steps == {"off", "effective", "acquire", "again", "survey", "offer", "prompt", "approve",
          "record", "recover", "reserve", "post", "receive", "last"}
Approvals == [from : Files, candidate : Files, proof : Empties]
NoOffer == [origin |-> 0, from |-> 0, proposed |-> 0, proof |-> "none"]

TypeOK ==
    /\ store \in [Files -> Stores] /\ marker \in [Files -> Marks]
    /\ chain \in [Origins -> Seq(Approvals)]
    /\ half \subseteq Origins
    /\ pc \in Steps /\ mode \in {"none", "dry", "ask"}
    /\ effective \in [Origins -> Files]
    /\ todo \subseteq Origins /\ failures \subseteq Origins
    /\ \/ offer = NoOffer
       \/ offer \in [origin : Origins, from : Files, proposed : Candidates, proof : Empties]
    /\ consented \subseteq Candidates /\ posted \subseteq Files
    /\ edited \subseteq Files /\ faults \in Nat /\ edits \in Nat

Init ==
    /\ store = [f \in Files |-> "absent"] /\ marker = [f \in Files |-> "none"]
    /\ chain = [o \in Origins |-> <<>>] /\ half = {}
    /\ pc = "off" /\ mode = "none"
    /\ effective = [o \in Origins |-> o]
    /\ todo = {} /\ failures = {} /\ offer = NoOffer
    /\ consented = {} /\ posted = {} /\ edited = {}
    /\ faults = 0 /\ edits = 0

Fault == faults < MaxFaults /\ faults' = faults + 1
Foremost(S, x) == x \in S /\ \A y \in S : x <= y

End == /\ pc' = "off" /\ todo' = {} /\ failures' = {} /\ offer' = NoOffer
       /\ UNCHANGED <<mode, effective>>
Goto(step) == pc' = step /\ UNCHANGED <<mode, effective, todo, failures, offer>>
-----------------------------------------------------------------------------
(* Reading the cache                                                         *)

(* recover: Ok(true), Ok(false) or Err.  A whole body is then published.     *)
Recovered(f) == IF store[f] = "published" \/ (store[f] = "whole" /\ marker[f] # "torn")
                THEN "yes" ELSE IF store[f] = "absent" THEN "no" ELSE "error"

(* empty_proof: the size and digest of the body and its records.             *)
Proves(f, proof) == store[f] = proof /\ proof \in Empties /\ marker[f] # "torn"
Empty(f) == \E proof \in Empties : Proves(f, proof)

Numbers(o) == 1..Len(chain[o])
Last(o) == chain[o][Len(chain[o])]
Proposals(o) == {chain[o][i].candidate : i \in Numbers(o)}
Excluded(o) == {o} \union Proposals(o)

(* fallback_state: step i continues the history before it, each source       *)
(* still is the empty body it was approved for, and only the last candidate  *)
(* may be usable or still be missing.                                        *)
Continues(o, i) ==
    LET a == chain[o][i] IN
    /\ a.from = IF i = 1 THEN o ELSE chain[o][i - 1].candidate
    /\ Proves(a.from, a.proof)
    /\ a.candidate # o /\ \A j \in 1..(i - 1) : chain[o][j].candidate # a.candidate
Replays(o) ==
    /\ o \notin half
    /\ \A i \in Numbers(o) : Continues(o, i)
    /\ chain[o] # <<>> /\ Recovered(Last(o).candidate) = "error" => Empty(Last(o).candidate)
Pending(o) == chain[o] # <<>> /\ Recovered(Last(o).candidate) = "no"
MutCurrent(o) == IF chain[o] = <<>> THEN o ELSE Last(o).candidate
Current(o) == IF chain[o] = <<>> THEN o
              ELSE IF Pending(o) THEN Last(o).from ELSE Last(o).candidate

(* Bodies a replay publishes on its way, even if it fails further on.        *)
Completes(o) ==
    {f \in Proposals(o) : /\ o \notin half /\ Recovered(f) = "yes"
                          /\ \A i \in Numbers(o) :
                                chain[o][i].candidate = f => \A j \in 1..i : Continues(o, j)}
Publish(files) == store' = [f \in Files |-> IF f \in files THEN "published" ELSE store[f]]
-----------------------------------------------------------------------------
Begin ==
    /\ pc = "off"
    /\ pc' = "effective" /\ mode' \in {"none", "dry", "ask"}
    /\ consented' = {} /\ posted' = {}
    /\ UNCHANGED <<diskVars, effective, todo, failures, offer, edited, faults, edits>>

(* effective_manifest, before and after the acquisition and at the end.      *)
Then == CASE pc = "effective" -> "acquire" [] pc = "again" -> "survey"
EffectiveManifest ==
    /\ pc \in {"effective", "again"}
    /\ \/ /\ \A o \in Origins : Replays(o)
          /\ Publish(UNION {Completes(o) : o \in Origins})
          /\ effective' = [o \in Origins |-> Current(o)]
          /\ pc' = Then /\ todo' = Origins
          /\ UNCHANGED <<mode, failures, offer, faults>>
       \/ /\ \/ (\E o \in Origins : ~Replays(o)) /\ UNCHANGED faults
             \/ Fault
          /\ \E some \in SUBSET Origins : Publish(UNION {Completes(o) : o \in some})
          /\ End
    /\ UNCHANGED <<marker, chain, half, consented, posted, edited, edits>>

(* The outcomes of one download: nothing, a torn or a whole body on disk.    *)
(* A whole one is published or, if it does not parse, retained.              *)
Delivered(f) ==
    \/ UNCHANGED store
    \/ \E s \in {"torn", "whole"} : store' = [store EXCEPT ![f] = s]
Received(f) ==
    \E s \in {"published", "malformed"} \union Empties : store' = [store EXCEPT ![f] = s]

(* acquire, for what Acquisition shows in detail: files of the effective     *)
(* manifest that are missing are downloaded without asking.                  *)
Acquire ==
    /\ pc = "acquire"
    /\ \E o \in todo :
          LET f == effective[o] IN
          /\ Foremost(todo, o)
          /\ \/ /\ Recovered(f) = "yes"
                /\ Publish({f})
                /\ todo' = todo \ {o}
                /\ UNCHANGED <<marker, pc, failures, offer, posted, faults>>
             \/ /\ Recovered(f) = "error" \/ (Recovered(f) = "no" /\ marker[f] = "torn")
                /\ failures' = failures \union {o} /\ todo' = todo \ {o}
                /\ UNCHANGED <<store, marker, pc, offer, posted, faults>>
             \/ /\ Recovered(f) = "no" /\ marker[f] # "torn"
                /\ posted' = posted \union {f}
                /\ marker' = [marker EXCEPT ![f] = "whole"]
                /\ todo' = todo \ {o}
                /\ \/ /\ Received(f)
                      /\ failures' = IF store'[f] = "published" THEN failures
                                     ELSE failures \union {o}
                      /\ UNCHANGED faults
                   \/ Fault /\ Delivered(f) /\ failures' = failures \union {o}
                /\ UNCHANGED <<pc, offer>>
    /\ UNCHANGED <<chain, half, mode, effective, consented, edited, edits>>

(* acquire_with_fallback.                                                    *)
Acquired ==
    /\ pc = "acquire" /\ todo = {}
    /\ \/ End                    \* complete, no fallback allowed, or not after this error
       \/ failures # {} /\ mode # "none" /\ Goto("again")
    /\ UNCHANGED <<diskVars, history>>

(* attempt: all that is not usable must be proven empty; the first such      *)
(* reference is offered an alternative, a pending one the same as before.    *)
Complete == \A o \in Origins : Recovered(effective[o]) = "yes"
Blocked == \E o \in Origins : Recovered(effective[o]) # "yes" /\ ~Empty(effective[o])
MutEligible(o) == IF Pending(o) THEN {Last(o).candidate}
                  ELSE IF Len(chain[o]) >= MaxFallbacks THEN {}
                  ELSE Alternatives[o] \union {o}
Eligible(o) == IF Pending(o) THEN {Last(o).candidate}
               ELSE IF Len(chain[o]) >= MaxFallbacks THEN {}
               ELSE Alternatives[o] \ Excluded(o)
Survey ==
    /\ pc = "survey"
    /\ \/ (Complete \/ Blocked) /\ End
       \/ /\ ~Complete /\ ~Blocked
          /\ \E o \in Origins :
                /\ Foremost({p \in Origins : Empty(effective[p])}, o)
                /\ \/ ~Replays(o) \/ Eligible(o) = {}
                   \/ ~Pending(o)           \* the catalogue lists none of them
                /\ End
       \/ /\ ~Complete /\ ~Blocked
          /\ \E o \in Origins :
                /\ Foremost({p \in Origins : Empty(effective[p])}, o)
                /\ Replays(o)
                /\ \E f \in Eligible(o) : \E proof \in Empties :
                      /\ Proves(effective[o], proof)
                      /\ offer' = [origin |-> o, from |-> Current(o), proposed |-> f,
                                   proof |-> proof]
          /\ pc' = "offer"
          /\ UNCHANGED <<mode, effective, todo, failures>>
    /\ Publish({effective[o] : o \in {p \in Origins : Recovered(effective[p]) = "yes"}})
    /\ UNCHANGED <<marker, chain, half, history>>

Offer ==
    /\ pc = "offer"
    /\ \/ End                                      \* a dry run, or no quota left
       \/ mode = "ask" /\ Goto("prompt")
    /\ UNCHANGED <<diskVars, history>>

Answer ==
    /\ pc = "prompt"
    /\ \/ End /\ UNCHANGED consented
       \/ Goto("approve") /\ consented' = consented \union {offer.proposed}
    /\ UNCHANGED <<diskVars, posted, edited, faults, edits>>

(* prepare, then approve_fallback: everything is read again under the lock.  *)
MutSourceUnchanged == Replays(offer.origin) /\ Current(offer.origin) = offer.from
SourceUnchanged ==
    /\ Replays(offer.origin)
    /\ Current(offer.origin) = offer.from
    /\ Proves(offer.from, offer.proof)
MutApprovable == TRUE
Approvable == /\ ~Pending(offer.origin)
              /\ Len(chain[offer.origin]) < MaxFallbacks
              /\ offer.proposed \notin Excluded(offer.origin)
Approve ==
    /\ pc = "approve"
    /\ \/ /\ \/ /\ ~SourceUnchanged \/ ~(Approvable \/ Pending(offer.origin))
                /\ UNCHANGED faults
             \/ Fault
          /\ End /\ UNCHANGED half
       \/ /\ SourceUnchanged /\ Approvable
          /\ half' = half \union {offer.origin}
          /\ Goto("record") /\ UNCHANGED faults
       \/ /\ SourceUnchanged /\ Pending(offer.origin)
          /\ \/ Last(offer.origin).candidate = offer.proposed /\ Goto("recover")
             \/ Last(offer.origin).candidate # offer.proposed /\ End
          /\ UNCHANGED <<half, faults>>
    /\ UNCHANGED <<store, marker, chain, consented, posted, edited, edits>>

(* The .partial becomes the approval file.                                   *)
Recorded == [from |-> offer.from, candidate |-> offer.proposed, proof |-> offer.proof]
MutRecord ==
    /\ pc = "record" /\ Goto("recover") /\ UNCHANGED <<diskVars, history>>
Record ==
    /\ pc = "record"
    /\ \/ /\ half' = half \ {offer.origin}
          /\ chain' = [chain EXCEPT ![offer.origin] = Append(@, Recorded)]
          /\ Goto("recover") /\ UNCHANGED faults
       \/ Fault /\ End /\ UNCHANGED <<half, chain>>
    /\ UNCHANGED <<store, marker, consented, posted, edited, edits>>

(* A response that is there already is not bought again.                     *)
Recover ==
    /\ pc = "recover"
    /\ LET f == offer.proposed IN
          \/ Recovered(f) = "yes" /\ Publish({f}) /\ Goto("last")
          \/ Recovered(f) = "error" /\ End /\ UNCHANGED store
          \/ Recovered(f) = "no" /\ Goto("reserve") /\ UNCHANGED store
    /\ UNCHANGED <<marker, chain, half, history>>

Reserve ==
    /\ pc = "reserve"
    /\ LET f == offer.proposed IN
          \/ /\ store[f] = "absent" /\ marker[f] # "torn"
             /\ marker' = [marker EXCEPT ![f] = "whole"]
             /\ Goto("post") /\ UNCHANGED faults
          \/ /\ store[f] # "absent" \/ marker[f] = "torn"
             /\ End /\ UNCHANGED <<marker, faults>>
          \/ /\ Fault /\ marker[f] # "torn"
             /\ \E m \in Marks \ {"whole"} : marker' = [marker EXCEPT ![f] = m]
             /\ End
    /\ UNCHANGED <<store, chain, half, consented, posted, edited, edits>>

Post ==
    /\ pc = "post"
    /\ posted' = posted \union {offer.proposed}
    /\ \/ Goto("receive") /\ UNCHANGED faults
       \/ Fault /\ End                              \* charged or not
    /\ UNCHANGED <<diskVars, consented, edited, edits>>

(* content and publish.                                                      *)
Receive ==
    /\ pc = "receive"
    /\ LET f == offer.proposed IN
          \/ /\ store[f] = "absent" /\ Received(f)
             /\ IF store'[f] = "published" THEN Goto("last") ELSE End
             /\ UNCHANGED faults
          \/ store[f] # "absent" /\ End /\ UNCHANGED <<store, faults>>
          \/ Fault /\ store[f] = "absent" /\ Delivered(f) /\ End
    /\ UNCHANGED <<marker, chain, half, consented, posted, edited, edits>>

(* finish: the references are handed over only if all of them are usable.    *)
Finish ==
    /\ pc = "last"
    /\ IF \A o \in Origins : Replays(o)
       THEN Publish(UNION {Completes(o) : o \in Origins})
       ELSE UNCHANGED store
    /\ End
    /\ UNCHANGED <<marker, chain, half, history>>

Die ==
    /\ pc # "off" /\ Fault /\ End
    /\ UNCHANGED <<diskVars, consented, posted, edited, edits>>

(* Other processes, while no run owns the season: inventory_approval         *)
(* protects every file of an approval.                                       *)
MutProtected == {}
Protected == UNION {{o} \union Proposals(o) : o \in {p \in Origins : chain[p] # <<>>}}
Evict ==
    /\ pc = "off"
    /\ \E f \in Files \ Protected :
          /\ store[f] = "published"
          /\ store' = [store EXCEPT ![f] = "absent"]
          /\ marker' = [marker EXCEPT ![f] = "none"]
    /\ UNCHANGED <<chain, half, runVars, history>>

(* The owner removes or changes a retained body, or removes a half-written   *)
(* approval, between two runs or while one waits for an answer.              *)
Edit ==
    /\ pc \in {"off", "prompt"}
    /\ edits < MaxEdits /\ edits' = edits + 1
    /\ \/ \E f \in Files : \E s \in {"absent", "torn", "other empty"} :
             /\ store[f] \notin {"absent", "published", s}
             /\ store' = [store EXCEPT ![f] = s]
             /\ edited' = edited \union {f}
             /\ UNCHANGED half
       \/ \E o \in half : half' = half \ {o} /\ UNCHANGED <<store, edited>>
    /\ UNCHANGED <<marker, chain, runVars, consented, posted, faults>>

Run == \/ EffectiveManifest \/ Acquire \/ Acquired \/ Survey \/ Offer \/ Answer \/ Approve
       \/ Record \/ Recover \/ Reserve \/ Post \/ Receive \/ Finish
Next == Begin \/ Run \/ Die \/ Evict \/ Edit

Spec == Init /\ [][Next]_vars
-----------------------------------------------------------------------------
(* A file the frozen manifest does not select is POSTed for only after the   *)
(* user said yes to it in this very run, and no two are: "at most one        *)
(* fallback POST per invocation" (docs/FALLBACK.md).                         *)
ConsentedPosts ==
    /\ posted \cap Candidates \subseteq consented
    /\ Cardinality(posted \cap Candidates) <= 1

(* The approval is on disk before anything can be charged for it: whoever    *)
(* finds a trace of a candidate finds the consent it rests on.               *)
ChargesApproved ==
    \A o \in Origins : \A f \in Alternatives[o] :
        marker[f] # "none" \/ store[f] # "absent" => f \in Proposals(o)

(* An approval names the body that was proven empty and is so when it is     *)
(* written, whatever happened while the user thought; usable content is      *)
(* never replaced.                                                           *)
ApprovedAsSeen ==
    [][\A o \in Origins : half' \ half = {o} =>
          /\ Proves(offer.from, offer.proof)
          /\ offer.from = Current(o) /\ offer.proposed \in consented]_vars

(* A paid alternative rests on a consent: asked for first, on disk before    *)
(* the charge, and about the body it replaces.                               *)
PaidByConsent == [](ConsentedPosts /\ ChargesApproved) /\ ApprovedAsSeen

(* Only what needs a look stops a history from being replayed: a half        *)
(* written approval, a retained body or marker that is broken or changed by  *)
(* hand.  No sequence of interrupted runs writes a history it then refuses.  *)
NeedsReview(f) == marker[f] = "torn" \/ store[f] \in {"torn", "malformed"}
HistoryReplays ==
    \A o \in Origins :
        ~Replays(o) => \/ o \in half
                       \/ \E f \in Excluded(o) : f \in edited \/ NeedsReview(f)

(* A replacement that became usable stays in force and in the cache: it is   *)
(* neither evicted nor bought again nor replaced.                            *)
ReplacementStays ==
    [][\A o \in Origins :
          chain[o] # <<>> /\ store[Last(o).candidate] = "published" =>
              chain'[o] = chain[o] /\ store'[Last(o).candidate] = "published"]_vars

(* What was approved holds: it can be replayed, and what it bought stays.    *)
HistoryHolds == []HistoryReplays /\ ReplacementStays
=============================================================================
