--------------------------- MODULE Approvals_proofs ---------------------------
(* Theorems about Approvals: whatever is refused, interrupted or changed by  *)
(* hand, alternatives are paid for by consent, and what was approved holds.  *)
EXTENDS Approvals, FiniteSetTheorems, TLAPS

(* Each approval continues the one before it, with another alternative of    *)
(* its episode, and its source is still the body it was written for unless   *)
(* the owner changed it.                                                     *)
Source(o, i) == IF i = 1 THEN o ELSE chain[o][i - 1].candidate
Linked == \A o \in Origins : \A i \in Numbers(o) :
    /\ chain[o][i].from = Source(o, i)
    /\ chain[o][i].candidate \in Alternatives[o]
    /\ \A j \in 1..(i - 1) : chain[o][j].candidate # chain[o][i].candidate
    /\ store[chain[o][i].from] = chain[o][i].proof \/ chain[o][i].from \in edited

Consenting == {"approve", "record", "recover", "reserve", "post", "receive"}
Offering == {"offer", "prompt"} \union Consenting
Buying == {"recover", "reserve", "post", "receive"}
Unposted == Steps \ {"off", "receive", "last"}

(* What is downloaded without asking is no alternative that is missing.      *)
Effective == pc = "acquire" =>
    \A o \in Origins : effective[o] \in Candidates => store[effective[o]] # "absent"

(* The offer, through its consent, its approval and its charge.              *)
Offered ==
    /\ pc \in Offering => /\ offer.origin \in Origins /\ offer.from \in Files
                          /\ offer.proposed \in Alternatives[offer.origin]
                          /\ offer.proof \in Empties
    /\ pc \in Consenting => offer.proposed \in consented
    /\ pc \in Buying => offer.proposed \in Proposals(offer.origin)
    /\ pc = "record" => /\ offer.from = Source(offer.origin, Len(chain[offer.origin]) + 1)
                        /\ store[offer.from] = offer.proof
                        /\ offer.proposed \notin Proposals(offer.origin)
    /\ pc \in Unposted => posted \cap Candidates = {}

Inv == TypeOK /\ Linked /\ ChargesApproved /\ Effective /\ Offered /\ ConsentedPosts

-----------------------------------------------------------------------------
(* About files and chains                                                    *)

(* An alternative is one of one episode, and no origin.                      *)
LEMMA AlternativeFacts ==
    /\ \A o \in Origins : Alternatives[o] \subseteq Candidates
    /\ Candidates \subseteq Files /\ Origins \subseteq Files
    /\ \A o, p \in Origins : \A f \in Alternatives[o] :
          f \notin Origins /\ (f \in Alternatives[p] => o = p)
BY ApprovalsAssumption DEF Candidates, Files

LEMMA ChainFacts ==
    ASSUME TypeOK, NEW o \in Origins
    PROVE  /\ chain[o] \in Seq(Approvals) /\ Len(chain[o]) \in Nat
           /\ \A i \in Numbers(o) : chain[o][i] \in Approvals
           /\ chain[o] # <<>> => Len(chain[o]) \in Numbers(o) /\ Last(o) \in Approvals
BY DEF TypeOK, Numbers, Last

(* The file in force is the origin or the last alternative but one or two.   *)
LEMMA CurrentFacts ==
    ASSUME TypeOK, Linked, NEW o \in Origins, Replays(o)
    PROVE  /\ Current(o) \in Files
           /\ ~Pending(o) => Current(o) = Source(o, Len(chain[o]) + 1)
           /\ Current(o) \in Candidates => store[Current(o)] # "absent"
<1>1. CASE chain[o] = <<>>
  BY <1>1, AlternativeFacts DEF Current, Source, Candidates
<1>2. CASE chain[o] # <<>>
  <2>1. Len(chain[o]) \in Numbers(o) /\ Last(o) \in Approvals /\ Last(o) = chain[o][Len(chain[o])]
    BY <1>2, ChainFacts DEF Last
  <2>2. Last(o).from \in Files /\ Last(o).candidate \in Files
    BY <2>1 DEF Approvals
  <2>3. Last(o).candidate = Source(o, Len(chain[o]) + 1)
    BY <1>2, <2>1, ChainFacts DEF Source, Numbers
  <2>4. CASE Pending(o)
    <3>1. Proves(Last(o).from, Last(o).proof)
      BY <2>1 DEF Replays, Continues
    <3>2. store[Last(o).from] \in Empties
      BY <3>1 DEF Proves
    <3> QED
      BY <1>2, <2>2, <2>4, <3>2 DEF Current, Empties
  <2>5. CASE ~Pending(o)
    <3>1. Recovered(Last(o).candidate) # "no"
      BY <1>2, <2>5 DEF Pending
    <3>2. store[Last(o).candidate] # "absent"
      BY <3>1 DEF Recovered
    <3> QED
      BY <1>2, <2>2, <2>3, <2>5, <3>2 DEF Current
  <2> QED
    BY <2>4, <2>5
<1> QED
  BY <1>1, <1>2

(* What every step but the owner's, an eviction and an approval does to the  *)
(* store: a body is published, or something comes for a file that may have   *)
(* it.                                                                       *)
MayHave(f) == \A o \in Origins : f \in Alternatives[o] => f \in Proposals(o)
Grows == \A f \in Files : \/ store'[f] = store[f]
                          \/ store[f] = "whole" /\ store'[f] = "published"
                          \/ store[f] = "absent" /\ MayHave(f)
Charges == \A f \in Files : marker'[f] = marker[f] \/ MayHave(f)
Stays == \A o \in Origins :
    chain[o] # <<>> /\ store[Last(o).candidate] = "published" =>
        chain'[o] = chain[o] /\ store'[Last(o).candidate] = "published"

LEMMA Publishing ==
    ASSUME TypeOK, NEW S \in SUBSET Files, Publish(S), \A f \in S : Recovered(f) = "yes"
    PROVE  Grows /\ store' \in [Files -> Stores]
BY DEF Publish, Grows, Recovered, TypeOK, Stores

LEMMA CompletesRecovered ==
    ASSUME TypeOK, NEW O \in SUBSET Origins
    PROVE  /\ UNION {Completes(o) : o \in O} \in SUBSET Files
           /\ \A f \in UNION {Completes(o) : o \in O} : Recovered(f) = "yes"
<1>1. \A o \in O : Proposals(o) \subseteq Files
  BY ChainFacts DEF Proposals, Approvals
<1> QED
  BY <1>1 DEF Completes

LEMMA Undisturbed ==
    ASSUME TypeOK, Linked, ChargesApproved, Grows, Charges, UNCHANGED <<chain, edited>>
    PROVE  Linked' /\ ChargesApproved' /\ Stays
<1>1. Linked'
  <2> SUFFICES ASSUME NEW o \in Origins, NEW i \in Numbers(o)
               PROVE  store'[chain[o][i].from] = chain[o][i].proof \/ chain[o][i].from \in edited
    BY DEF Linked, Numbers, Source
  <2>1. chain[o][i] \in Approvals
    BY ChainFacts
  <2>2. chain[o][i].from \in Files /\ chain[o][i].proof \in Empties
    BY <2>1 DEF Approvals
  <2>3. store[chain[o][i].from] = chain[o][i].proof \/ chain[o][i].from \in edited
    BY DEF Linked
  <2> QED
    BY <2>2, <2>3 DEF Grows, Empties
<1>2. ChargesApproved'
  <2> SUFFICES ASSUME NEW o \in Origins, NEW f \in Alternatives[o],
                      marker'[f] # "none" \/ store'[f] # "absent"
               PROVE  f \in Proposals(o)
    BY DEF ChargesApproved, Proposals, Numbers
  <2>1. f \in Files
    BY AlternativeFacts
  <2>2. MayHave(f) \/ (marker'[f] = marker[f] /\ (store'[f] = "absent" => store[f] = "absent")
                       /\ (store[f] = "absent" => store'[f] = "absent"))
    BY <2>1 DEF Grows, Charges
  <2> QED
    BY <2>2 DEF ChargesApproved, MayHave
<1>3. Stays
  BY ChainFacts DEF Stays, Grows, Approvals
<1> QED
  BY <1>1, <1>2, <1>3

-----------------------------------------------------------------------------
(* One lemma per step                                                        *)

LEMMA Starts == Init => Inv
<1> SUFFICES ASSUME Init PROVE Inv
  OBVIOUS
<1>1. TypeOK
  <2>1. [o \in Origins |-> o] \in [Origins -> Files]
    BY AlternativeFacts
  <2> QED
    BY <2>1 DEF Init, TypeOK, Stores, Marks, Steps
<1>2. Linked /\ ChargesApproved /\ Effective /\ Offered
  BY AlternativeFacts DEF Init, Linked, ChargesApproved, Effective, Offered, Numbers, Consenting,
     Offering, Buying, Unposted, Candidates
<1>3. ConsentedPosts
  BY FS_EmptySet DEF Init, ConsentedPosts
<1> QED
  BY <1>1, <1>2, <1>3 DEF Inv

(* A step that takes nothing away, and ends the run or goes on with it.      *)
LEMMA Moves ==
    ASSUME Inv, Grows, Charges, store' \in [Files -> Stores], marker' \in [Files -> Marks],
           UNCHANGED <<chain, edited, edits>>, half' \subseteq Origins, faults' \in Nat,
           consented' \subseteq Candidates, posted' \subseteq Files, ConsentedPosts',
           \/ End
           \/ \E step \in Steps \ {"acquire"} : Goto(step) /\ Offered'
    PROVE  Inv' /\ Stays
<1>1. Linked' /\ ChargesApproved' /\ Stays
  BY Undisturbed DEF Inv
<1>2. TypeOK'
  BY DEF Inv, TypeOK, End, Goto, Steps
<1>3. Effective' /\ Offered'
  BY DEF Effective, Offered, End, Goto, Offering, Consenting, Buying, Unposted
<1> QED
  BY <1>1, <1>2, <1>3 DEF Inv

LEMMA Same == Inv /\ UNCHANGED <<store, marker>> =>
                 Grows /\ Charges /\ store' \in [Files -> Stores] /\ marker' \in [Files -> Marks]
BY DEF Grows, Charges, Inv, TypeOK

LEMMA Idle == Inv /\ UNCHANGED vars => Inv'
<1> SUFFICES ASSUME Inv, UNCHANGED vars PROVE Inv'
  OBVIOUS
<1> USE DEF vars, diskVars, runVars, history
<1>1. TypeOK' /\ ChargesApproved' /\ Effective' /\ ConsentedPosts'
  BY DEF Inv, TypeOK, ChargesApproved, Effective, ConsentedPosts, Proposals, Numbers
<1>2. Linked'
  BY DEF Inv, Linked, Numbers, Source
<1>3. Offered'
  BY DEF Inv, Offered, Source, Proposals, Numbers
<1> QED
  BY <1>1, <1>2, <1>3 DEF Inv

LEMMA Beginning == Inv /\ Begin => Inv' /\ Stays
<1> SUFFICES ASSUME Inv, Begin PROVE Inv' /\ Stays
  OBVIOUS
<1> USE DEF Begin, diskVars
<1>1. Linked' /\ ChargesApproved' /\ Stays
  BY Undisturbed, Same DEF Inv
<1>2. TypeOK' /\ Effective'
  BY DEF Inv, TypeOK, Steps, Effective
<1>3. ConsentedPosts'
  <2>1. posted' \cap Candidates = {}
    OBVIOUS
  <2> QED
    BY <2>1, FS_EmptySet DEF ConsentedPosts
<1>4. Offered'
  BY DEF Offered, Offering, Consenting, Buying, Unposted
<1> QED
  BY <1>1, <1>2, <1>3, <1>4 DEF Inv

LEMMA Replaying == Inv /\ EffectiveManifest => Inv' /\ Stays
<1> SUFFICES ASSUME Inv, EffectiveManifest PROVE Inv' /\ Stays
  OBVIOUS
<1> USE DEF EffectiveManifest
<1>1. PICK O \in SUBSET Origins : Publish(UNION {Completes(o) : o \in O})
  OBVIOUS
<1>2. Grows /\ store' \in [Files -> Stores]
  BY <1>1, CompletesRecovered, Publishing DEF Inv
<1>3. Charges /\ marker' \in [Files -> Marks] /\ ConsentedPosts' /\ faults' \in Nat
  BY DEF Charges, Inv, TypeOK, ConsentedPosts, Fault
<1>4. CASE End
  BY <1>2, <1>3, <1>4, Moves DEF Inv, TypeOK
<1>5. CASE /\ \A o \in Origins : Replays(o)
           /\ effective' = [o \in Origins |-> Current(o)]
           /\ pc' = Then /\ todo' = Origins
           /\ UNCHANGED <<mode, failures, offer, faults>>
  <2>1. Linked' /\ ChargesApproved' /\ Stays
    BY <1>2, <1>3, Undisturbed DEF Inv
  <2>2. pc' \in {"acquire", "survey"}
    BY <1>5 DEF Then
  <2>3. \A o \in Origins : /\ Current(o) \in Files
                           /\ Current(o) \in Candidates => store[Current(o)] # "absent"
    BY <1>5, CurrentFacts DEF Inv
  <2>4. TypeOK'
    BY <1>2, <1>3, <1>5, <2>2, <2>3 DEF Inv, TypeOK, Steps
  <2>5. Effective'
    BY <1>2, <1>5, <2>3 DEF Effective, Grows
  <2>6. Offered'
    BY <1>5, <2>2 DEF Inv, Offered, Offering, Consenting, Buying, Unposted, Steps
  <2> QED
    BY <1>3, <2>1, <2>4, <2>5, <2>6 DEF Inv
<1> QED
  BY <1>4, <1>5

LEMMA Acquiring == Inv /\ Acquire => Inv' /\ Stays
<1> SUFFICES ASSUME Inv, Acquire PROVE Inv' /\ Stays
  OBVIOUS
<1> DEFINE
      Found(f)   == Recovered(f) = "yes" /\ Publish({f}) /\ UNCHANGED <<marker, posted, faults>>
      Broken     == UNCHANGED <<store, marker, posted, faults>>
      Fetched(f) == /\ Recovered(f) = "no"
                    /\ posted' = posted \union {f}
                    /\ marker' = [marker EXCEPT ![f] = "whole"]
                    /\ \/ Received(f) /\ UNCHANGED faults
                       \/ Fault /\ Delivered(f)
<1>1. PICK o \in Origins :
          /\ \/ Found(effective[o]) /\ UNCHANGED failures
             \/ Broken /\ failures' = failures \union {o}
             \/ Fetched(effective[o]) /\ failures' \in {failures, failures \union {o}}
          /\ pc = "acquire" /\ todo' = todo \ {o}
          /\ UNCHANGED <<chain, half, pc, mode, effective, offer, consented, edited, edits>>
  <2>1. PICK o \in todo : 
             LET f == effective[o] IN
             /\ \/ /\ Recovered(f) = "yes"
                   /\ Publish({f})
                   /\ todo' = todo \ {o}
                   /\ UNCHANGED <<marker, pc, failures, offer, posted, faults>>
                \/ /\ failures' = failures \union {o} /\ todo' = todo \ {o}
                   /\ UNCHANGED <<store, marker, pc, offer, posted, faults>>
                \/ /\ Recovered(f) = "no" /\ marker[f] # "torn"
                   /\ posted' = posted \union {f}
                   /\ marker' = [marker EXCEPT ![f] = "whole"]
                   /\ todo' = todo \ {o}
                   /\ \/ /\ Received(f)
                         /\ failures' = IF store'[f] = "published" THEN failures
                                        ELSE failures \union {o}
                         /\ UNCHANGED faults
                      \/ Fault /\ Delivered(f) /\ failures' = failures \union {o}
                   /\ UNCHANGED <<pc, offer>>
             /\ UNCHANGED <<chain, half, mode, effective, consented, edited, edits>>
    BY DEF Acquire
  <2>2. o \in Origins /\ pc = "acquire"
    BY DEF Inv, TypeOK, Acquire
  <2>3. \/ Found(effective[o]) /\ UNCHANGED failures
        \/ Broken /\ failures' = failures \union {o}
        \/ Fetched(effective[o]) /\ failures' \in {failures, failures \union {o}}
    BY <2>1
  <2>4. /\ todo' = todo \ {o}
        /\ UNCHANGED <<chain, half, pc, mode, effective, offer, consented, edited, edits>>
    BY <2>1
  <2> QED
    BY <2>2, <2>3, <2>4
<1> DEFINE f == effective[o]
<1>2. f \in Files
  BY DEF Inv, TypeOK
<1> HIDE DEF f
<1>3. /\ Grows /\ Charges /\ store' \in [Files -> Stores] /\ marker' \in [Files -> Marks]
      /\ faults' \in Nat /\ posted' \subseteq Files /\ posted' \cap Candidates = {}
  <2>1. posted \cap Candidates = {}
    BY <1>1 DEF Inv, Offered, Unposted, Steps
  <2>2. CASE Found(f)
    BY <1>2, <2>1, <2>2, Publishing DEF Charges, Inv, TypeOK
  <2>3. CASE Broken
    BY <2>1, <2>3, Same DEF Inv, TypeOK
  <2>4. CASE Fetched(f)
    <3>1. store[f] = "absent" /\ f \notin Candidates
      BY <1>1, <1>2, <2>4 DEF Recovered, Inv, Effective, f
    <3>2. MayHave(f)
      BY <3>1, AlternativeFacts DEF MayHave
    <3>3. \E s \in Stores : store' = [store EXCEPT ![f] = s]
      <4>1. store = [store EXCEPT ![f] = "absent"]
        BY <1>2, <3>1 DEF Inv, TypeOK
      <4> QED
        BY <2>4, <4>1 DEF Received, Delivered, Stores, Empties
    <3> QED
      BY <1>2, <2>1, <2>4, <3>1, <3>2, <3>3 DEF Grows, Charges, Inv, TypeOK, Marks, Fault
  <2> QED
    BY <1>1, <2>2, <2>3, <2>4 DEF f
<1>4. Linked' /\ ChargesApproved' /\ Stays
  BY <1>1, <1>3, Undisturbed DEF Inv
<1>5. TypeOK'
  BY <1>1, <1>3 DEF Inv, TypeOK
<1>6. Effective'
  BY <1>1, <1>3 DEF Inv, TypeOK, Effective, Grows
<1>7. Offered' /\ ConsentedPosts'
  BY <1>1, <1>3, FS_EmptySet DEF Offered, ConsentedPosts, Offering, Consenting, Buying
<1> QED
  BY <1>4, <1>5, <1>6, <1>7 DEF Inv

LEMMA AcquisitionEnds == Inv /\ Acquired => Inv' /\ Stays
<1> SUFFICES ASSUME Inv, Acquired PROVE Inv' /\ Stays
  OBVIOUS
<1> USE DEF Acquired, diskVars, history
<1>1. Grows /\ Charges /\ store' \in [Files -> Stores] /\ marker' \in [Files -> Marks] /\ ConsentedPosts'
  BY Same DEF Inv, ConsentedPosts
<1>2. Goto("again") => Offered'
  BY DEF Goto, Inv, Offered, Offering, Consenting, Buying, Unposted, Steps
<1>3. "again" \in Steps \ {"acquire"}
  BY DEF Steps
<1> QED
  BY <1>1, <1>2, <1>3, Moves DEF Inv, TypeOK

LEMMA Surveying == Inv /\ Survey => Inv' /\ Stays
<1> SUFFICES ASSUME Inv, Survey PROVE Inv' /\ Stays
  OBVIOUS
<1> DEFINE S == {effective[o] : o \in {p \in Origins : Recovered(effective[p]) = "yes"}}
<1>1. Publish(S) /\ UNCHANGED <<marker, chain, half, consented, posted, edited, faults, edits>>
  BY DEF Survey, history
<1>2. Grows /\ store' \in [Files -> Stores]
  <2>1. S \in SUBSET Files /\ \A f \in S : Recovered(f) = "yes"
    BY DEF Inv, TypeOK
  <2> HIDE DEF S
  <2> QED
    BY <1>1, <2>1, Publishing DEF Inv
<1> HIDE DEF S
<1>3. Charges /\ marker' \in [Files -> Marks] /\ ConsentedPosts'
  BY <1>1 DEF Charges, Inv, TypeOK, ConsentedPosts
<1>4. CASE End
  BY <1>1, <1>2, <1>3, <1>4, Moves DEF Inv, TypeOK
<1>5. CASE /\ pc' = "offer" /\ UNCHANGED <<mode, effective, todo, failures>>
           /\ \E o \in Origins :
                /\ Replays(o)
                /\ \E f \in Eligible(o) : \E proof \in Empties :
                      offer' = [origin |-> o, from |-> Current(o), proposed |-> f, proof |-> proof]
  <2> PICK o \in Origins :
        /\ Replays(o)
        /\ \E f \in Eligible(o) : \E proof \in Empties :
              offer' = [origin |-> o, from |-> Current(o), proposed |-> f, proof |-> proof]
    BY <1>5
  <2>1. PICK f \in Eligible(o), proof \in Empties :
           offer' = [origin |-> o, from |-> Current(o), proposed |-> f, proof |-> proof]
    OBVIOUS
  <2>2. f \in Alternatives[o] /\ f \in Candidates
    <3>1. CASE Pending(o)
      <4>1. chain[o] # <<>> /\ f = Last(o).candidate
        BY <2>1, <3>1 DEF Eligible, Pending
      <4>2. Len(chain[o]) \in Numbers(o) /\ Last(o) = chain[o][Len(chain[o])]
        BY <4>1, ChainFacts DEF Last, Inv
      <4> QED
        BY <4>1, <4>2, AlternativeFacts DEF Linked, Inv
    <3>2. CASE ~Pending(o)
      BY <2>1, <3>2, AlternativeFacts DEF Eligible
    <3> QED
      BY <3>1, <3>2
  <2>3. Current(o) \in Files
    BY <2>1, CurrentFacts DEF Inv
  <2>4. Linked' /\ ChargesApproved' /\ Stays
    BY <1>1, <1>2, <1>3, Undisturbed DEF Inv
  <2>5. TypeOK' /\ Effective'
    BY <1>1, <1>2, <1>3, <1>5, <2>1, <2>2, <2>3 DEF Inv, TypeOK, Effective, Steps
  <2>6. Offered'
    BY <1>1, <1>5, <2>1, <2>2, <2>3 DEF Survey, Inv, Offered, Offering, Consenting, Buying, Unposted, Steps
  <2> QED
    BY <1>3, <2>4, <2>5, <2>6 DEF Inv
<1> QED
  BY <1>4, <1>5 DEF Survey

LEMMA Proposing == Inv /\ Offer => Inv' /\ Stays
<1> SUFFICES ASSUME Inv, Offer PROVE Inv' /\ Stays
  OBVIOUS
<1> USE DEF Offer, diskVars, history
<1>1. Grows /\ Charges /\ store' \in [Files -> Stores] /\ marker' \in [Files -> Marks] /\ ConsentedPosts'
  BY Same DEF Inv, ConsentedPosts
<1>2. Goto("prompt") => Offered'
  BY DEF Goto, Inv, Offered, Offering, Consenting, Buying, Unposted, Steps
<1>3. "prompt" \in Steps \ {"acquire"}
  BY DEF Steps
<1> QED
  BY <1>1, <1>2, <1>3, Moves DEF Inv, TypeOK

LEMMA Answering == Inv /\ Answer => Inv' /\ Stays
<1> SUFFICES ASSUME Inv, Answer PROVE Inv' /\ Stays
  OBVIOUS
<1> USE DEF Answer, diskVars
<1>1. Grows /\ Charges /\ store' \in [Files -> Stores] /\ marker' \in [Files -> Marks]
  BY Same
<1>2. posted \cap Candidates = {} /\ offer.proposed \in Candidates
  BY AlternativeFacts DEF Inv, Offered, Offering, Unposted, Steps
<1>3. consented' \subseteq Candidates /\ ConsentedPosts'
  BY <1>2 DEF Inv, TypeOK, ConsentedPosts
<1>4. Goto("approve") /\ consented' = consented \union {offer.proposed} => Offered'
  BY DEF Goto, Inv, Offered, Offering, Consenting, Buying, Unposted, Steps
<1>5. "approve" \in Steps \ {"acquire"}
  BY DEF Steps
<1> QED
  BY <1>1, <1>3, <1>4, <1>5, Moves DEF Inv, TypeOK

(* What is written down was read again under the lock.                       *)
LEMMA Approving ==
    Inv /\ Approve => /\ Inv' /\ Stays
                      /\ half' # half => /\ SourceUnchanged /\ offer.proposed \in consented
                                         /\ half' = half \union {offer.origin}
<1> SUFFICES ASSUME Inv, Approve
             PROVE  /\ Inv' /\ Stays
                    /\ half' # half => /\ SourceUnchanged /\ offer.proposed \in consented
                                       /\ half' = half \union {offer.origin}
  OBVIOUS
<1>1. Grows /\ Charges /\ store' \in [Files -> Stores] /\ marker' \in [Files -> Marks] /\ ConsentedPosts'
  BY Same DEF Approve, Inv, ConsentedPosts
<1>2. /\ offer.origin \in Origins /\ offer.proposed \in consented
      /\ posted \cap Candidates = {}
  BY DEF Approve, Inv, Offered, Offering, Consenting, Unposted, Steps
<1>3. {"record", "recover"} \subseteq Steps \ {"acquire"}
  BY DEF Steps
<1>4. CASE End /\ UNCHANGED half
  <2>1. faults' \in Nat
    BY DEF Approve, Fault, Inv, TypeOK
  <2> QED
    BY <1>1, <1>4, <2>1, Moves DEF Approve, Inv, TypeOK
<1>5. CASE /\ SourceUnchanged /\ Approvable
           /\ half' = half \union {offer.origin}
           /\ Goto("record") /\ UNCHANGED faults
  <2>1. /\ offer.from = Source(offer.origin, Len(chain[offer.origin]) + 1)
        /\ store[offer.from] = offer.proof
    BY <1>2, <1>5, CurrentFacts DEF SourceUnchanged, Approvable, Proves, Inv
  <2>2. offer.proposed \notin Proposals(offer.origin)
    BY <1>5 DEF Approvable, Excluded
  <2>3. Offered'
    BY <1>2, <1>5, <2>1, <2>2 DEF Approve, Goto, Inv, Offered, Offering, Consenting, Buying, Unposted,
       Source, Proposals, Numbers
  <2> QED
    BY <1>1, <1>2, <1>3, <1>5, <2>3, Moves DEF Approve, Inv, TypeOK
<1>6. CASE /\ SourceUnchanged /\ Pending(offer.origin)
           /\ Last(offer.origin).candidate = offer.proposed /\ Goto("recover")
           /\ UNCHANGED <<half, faults>>
  <2>1. offer.proposed \in Proposals(offer.origin)
    BY <1>2, <1>6, ChainFacts DEF Pending, Proposals, Last, Inv
  <2>2. Offered'
    BY <1>2, <1>6, <2>1 DEF Approve, Goto, Inv, Offered, Offering, Consenting, Buying, Unposted,
       Source, Proposals, Numbers
  <2> QED
    BY <1>1, <1>3, <1>6, <2>2, Moves DEF Approve, Inv, TypeOK
<1> QED
  BY <1>4, <1>5, <1>6 DEF Approve

(* One approval more, in the same chain.                                     *)
LEMMA Recording == Inv /\ Record => Inv' /\ Stays
<1> SUFFICES ASSUME Inv, Record PROVE Inv' /\ Stays
  OBVIOUS
<1>1. Grows /\ Charges /\ store' \in [Files -> Stores] /\ marker' \in [Files -> Marks] /\ ConsentedPosts'
  BY Same DEF Record, Inv, ConsentedPosts
<1>2. CASE Fault /\ End /\ UNCHANGED <<half, chain>>
  BY <1>1, <1>2, Moves DEF Record, Inv, TypeOK, Fault
<1>3. CASE /\ half' = half \ {offer.origin}
           /\ chain' = [chain EXCEPT ![offer.origin] = Append(@, Recorded)]
           /\ Goto("recover") /\ UNCHANGED faults
  <2> PICK q \in Origins : q = offer.origin
    BY DEF Record, Inv, Offered, Offering, Consenting
  <2> PICK n \in Nat : n = Len(chain[q]) + 1
    BY ChainFacts DEF Inv
  <2>1. /\ q \in Origins /\ offer.from \in Files /\ offer.proposed \in Alternatives[q]
        /\ offer.proof \in Empties /\ offer.proposed \in consented
        /\ offer.from = Source(q, n) /\ store[offer.from] = offer.proof
        /\ offer.proposed \notin Proposals(q) /\ posted \cap Candidates = {}
    BY DEF Record, Inv, Offered, Offering, Consenting, Unposted, Steps
  <2>2. Recorded \in Approvals
    BY <2>1, AlternativeFacts DEF Recorded, Approvals
  <2>3. /\ chain' \in [Origins -> Seq(Approvals)] /\ Len(chain'[q]) = n /\ chain'[q][n] = Recorded
        /\ \A i \in Numbers(q) : chain'[q][i] = chain[q][i]
        /\ \A o \in Origins \ {q} : chain'[o] = chain[o]
        /\ n \in Nat /\ n \notin Numbers(q) /\ 1..n = Numbers(q) \union {n}
    <3>1. chain[q] \in Seq(Approvals) /\ chain \in [Origins -> Seq(Approvals)]
      BY <2>1 DEF Inv, TypeOK
    <3>2. chain'[q] = Append(chain[q], Recorded)
      BY <1>3, <2>1, <3>1
    <3>3. Append(chain[q], Recorded) \in Seq(Approvals)
      BY <2>2, <3>1
    <3> QED
      BY <1>3, <2>1, <2>2, <3>1, <3>2, <3>3 DEF Numbers
  <2>4. \A o \in Origins : /\ Numbers(o)' = IF o = q THEN Numbers(q) \union {n} ELSE Numbers(o)
                           /\ \A i \in Numbers(o) : chain'[o][i] = chain[o][i]
    BY <2>1, <2>3 DEF Numbers
  <2>5. \A o \in Origins : \A i \in Numbers(o) : Source(o, i)' = Source(o, i)
    BY <2>4 DEF Source, Numbers
  <2>6. Source(q, n)' = Source(q, n)
    <3>1. n # 1 => n - 1 \in Numbers(q)
      BY <2>1, <2>3, ChainFacts DEF Numbers, Inv
    <3> QED
      BY <2>1, <2>4, <3>1 DEF Source
  <2>7. Recorded = [from |-> Source(q, n), candidate |-> offer.proposed, proof |-> store[Source(q, n)]]
    BY <2>1 DEF Recorded
  <2>8. Linked'
    <3>1. UNCHANGED <<store, edited>>
      BY DEF Record
    <3>2. ASSUME NEW o \in Origins, NEW i \in Numbers(o)
          PROVE  /\ chain'[o][i].from = Source(o, i)'
                 /\ chain'[o][i].candidate \in Alternatives[o]
                 /\ \A j \in 1..(i - 1) : chain'[o][j].candidate # chain'[o][i].candidate
                 /\ store'[chain'[o][i].from] = chain'[o][i].proof \/ chain'[o][i].from \in edited'
      <4>1. \A j \in 1..(i - 1) : j \in Numbers(o)
        BY ChainFacts DEF Numbers, Inv
      <4> QED
        BY <2>4, <2>5, <3>1, <3>2, <4>1 DEF Linked, Inv
    <3>3. /\ chain'[q][n].from = Source(q, n)'
          /\ chain'[q][n].candidate \in Alternatives[q]
          /\ store'[chain'[q][n].from] = chain'[q][n].proof
      BY <2>1, <2>3, <2>6, <2>7, <3>1
    <3>4. \A j \in 1..(n - 1) : chain'[q][j].candidate # chain'[q][n].candidate
      <4>1. \A j \in 1..(n - 1) : j \in Numbers(q)
        BY <2>1, ChainFacts DEF Numbers, Inv
      <4>2. \A j \in 1..(n - 1) : chain'[q][j].candidate \in Proposals(q)
        BY <2>4, <4>1 DEF Proposals
      <4>3. chain'[q][n].candidate = offer.proposed
        BY <2>3, <2>7
      <4> QED
        BY <2>1, <4>2, <4>3
    <3> QED
      BY <2>4, <3>2, <3>3, <3>4 DEF Linked
  <2>9. \A o \in Origins : Proposals(o) \subseteq Proposals(o)'
    BY <2>4 DEF Proposals
  <2>10. offer.proposed \in Proposals(q)'
    <3>1. n \in Numbers(q)' /\ chain'[q][n].candidate = offer.proposed
      BY <2>3, <2>4, <2>7
    <3> QED
      BY <3>1 DEF Proposals
  <2>11. ChargesApproved'
    BY <2>9 DEF Record, Inv, ChargesApproved
  <2>12. TypeOK' /\ Effective'
    BY <1>1, <1>3, <2>3 DEF Record, Goto, Inv, TypeOK, Effective, Steps
  <2>13. Offered'
    BY <1>3, <2>1, <2>10 DEF Record, Goto, Offered, Offering, Consenting, Buying, Unposted
  <2>14. Stays
    <3>1. chain[q] # <<>> => store[Last(q).candidate] # "published"
      <4>1. ASSUME chain[q] # <<>> PROVE Last(q).candidate = Source(q, n)
        BY <2>1, <4>1, ChainFacts DEF Last, Source, Numbers, Inv
      <4> QED
        BY <2>1, <4>1 DEF Empties
    <3> QED
      BY <2>3, <3>1 DEF Record, Stays
  <2> QED
    BY <1>1, <2>8, <2>11, <2>12, <2>13, <2>14 DEF Inv
<1> QED
  BY <1>2, <1>3 DEF Record

LEMMA Recovering == Inv /\ Recover => Inv' /\ Stays
<1> SUFFICES ASSUME Inv, Recover PROVE Inv' /\ Stays
  OBVIOUS
<1>1. /\ offer.proposed \in Files /\ posted \cap Candidates = {}
      /\ pc = "recover" /\ UNCHANGED <<marker, chain, half, history>>
  BY AlternativeFacts DEF Recover, Inv, Offered, Offering, Consenting, Buying, Unposted, Steps
<1>2. Grows /\ store' \in [Files -> Stores]
  <2>1. CASE Recovered(offer.proposed) = "yes" /\ Publish({offer.proposed})
    BY <1>1, <2>1, Publishing DEF Inv
  <2>2. CASE UNCHANGED store
    BY <2>2 DEF Grows, Inv, TypeOK
  <2> QED
    BY <2>1, <2>2 DEF Recover
<1>3. Charges /\ marker' \in [Files -> Marks] /\ ConsentedPosts'
  BY <1>1 DEF Charges, Inv, TypeOK, ConsentedPosts, history
<1>4. End \/ \E step \in Steps \ {"acquire"} : Goto(step) /\ Offered'
  <2>1. Goto("last") => Offered'
    BY <1>1 DEF Goto, Offered, Offering, Consenting, Buying, Unposted
  <2>2. Goto("reserve") => Offered'
    BY <1>1 DEF Goto, Inv, Offered, Offering, Consenting, Buying, Unposted, history, Proposals, Numbers
  <2>3. {"last", "reserve"} \subseteq Steps \ {"acquire"}
    BY DEF Steps
  <2> QED
    BY <2>1, <2>2, <2>3 DEF Recover
<1> QED
  BY <1>1, <1>2, <1>3, <1>4, Moves DEF Inv, TypeOK, history

(* What is charged and fetched is the approved alternative.                  *)
LEMMA OfferedMayHave ==
    ASSUME Inv, pc \in Buying
    PROVE  /\ offer.proposed \in Files \cap Candidates /\ MayHave(offer.proposed)
           /\ offer.proposed \in consented
BY AlternativeFacts DEF Inv, Offered, Offering, Consenting, Buying, MayHave

LEMMA Reserving == Inv /\ Reserve => Inv' /\ Stays
<1> SUFFICES ASSUME Inv, Reserve PROVE Inv' /\ Stays
  OBVIOUS
<1>1. /\ MayHave(offer.proposed)
      /\ pc = "reserve" /\ posted \cap Candidates = {} /\ faults' \in Nat
      /\ UNCHANGED <<store, chain, half, consented, posted, edited, edits>>
  BY OfferedMayHave DEF Reserve, Buying, Inv, Offered, Unposted, Steps, Fault, TypeOK
<1>2. Charges /\ marker' \in [Files -> Marks]
  <2>1. UNCHANGED marker \/ \E m \in Marks : marker' = [marker EXCEPT ![offer.proposed] = m]
    BY DEF Reserve, Marks
  <2> QED
    BY <1>1, <2>1 DEF Charges, Inv, TypeOK
<1>3. Grows /\ store' \in [Files -> Stores] /\ ConsentedPosts'
  BY <1>1 DEF Grows, Inv, TypeOK, ConsentedPosts
<1>4. End \/ (Goto("post") /\ Offered' /\ "post" \in Steps \ {"acquire"})
  <2>1. Goto("post") => Offered'
    BY <1>1 DEF Goto, Inv, Offered, Offering, Consenting, Buying, Unposted, Proposals, Numbers
  <2> QED
    BY <2>1 DEF Reserve, Steps
<1> QED
  BY <1>1, <1>2, <1>3, <1>4, Moves DEF Inv, TypeOK

LEMMA Posting == Inv /\ Post => Inv' /\ Stays
<1> SUFFICES ASSUME Inv, Post PROVE Inv' /\ Stays
  OBVIOUS
<1>1. /\ pc = "post" /\ posted \cap Candidates = {} /\ faults' \in Nat
      /\ offer.proposed \in Files \cap Candidates /\ offer.proposed \in consented
      /\ posted' = posted \union {offer.proposed}
      /\ UNCHANGED <<diskVars, consented, edited, edits>>
  BY OfferedMayHave DEF Post, Buying, Inv, Offered, Unposted, Steps, Fault, TypeOK
<1>2. posted' \subseteq Files /\ ConsentedPosts'
  <2>1. posted' \cap Candidates = {offer.proposed}
    BY <1>1
  <2> QED
    <3>1. Cardinality(posted' \cap Candidates) = 1
      BY <2>1, FS_Singleton
    <3> QED
      BY <1>1, <2>1, <3>1 DEF ConsentedPosts, Inv, TypeOK
<1>3. Grows /\ Charges /\ store' \in [Files -> Stores] /\ marker' \in [Files -> Marks]
  BY <1>1, Same DEF diskVars
<1>4. End \/ (Goto("receive") /\ Offered' /\ "receive" \in Steps \ {"acquire"})
  <2>1. Goto("receive") => Offered'
    BY <1>1 DEF Goto, Inv, Offered, Offering, Consenting, Buying, Unposted, Proposals, Numbers, diskVars
  <2> QED
    BY <2>1 DEF Post, Steps
<1> QED
  BY <1>1, <1>2, <1>3, <1>4, Moves DEF Inv, TypeOK, diskVars

LEMMA Receiving == Inv /\ Receive => Inv' /\ Stays
<1> SUFFICES ASSUME Inv, Receive PROVE Inv' /\ Stays
  OBVIOUS
<1>1. /\ MayHave(offer.proposed) /\ faults' \in Nat /\ offer.proposed \in Files
      /\ UNCHANGED <<marker, chain, half, consented, posted, edited, edits>>
  BY OfferedMayHave DEF Receive, Buying, Inv, Fault, TypeOK
<1>2. Grows /\ store' \in [Files -> Stores]
  <2>1. \/ UNCHANGED store
        \/ /\ store[offer.proposed] = "absent"
           /\ \E s \in Stores : store' = [store EXCEPT ![offer.proposed] = s]
    BY DEF Receive, Received, Delivered, Stores, Empties
  <2> QED
    BY <1>1, <2>1 DEF Grows, Inv, TypeOK
<1>3. Charges /\ marker' \in [Files -> Marks] /\ ConsentedPosts'
  BY <1>1 DEF Charges, Inv, TypeOK, ConsentedPosts
<1>4. End \/ (Goto("last") /\ Offered' /\ "last" \in Steps \ {"acquire"})
  BY DEF Receive, Steps, Goto, Offered, Offering, Consenting, Buying, Unposted
<1> QED
  BY <1>1, <1>2, <1>3, <1>4, Moves DEF Inv, TypeOK

LEMMA Finishing == Inv /\ Finish => Inv' /\ Stays
<1> SUFFICES ASSUME Inv, Finish PROVE Inv' /\ Stays
  OBVIOUS
<1> USE DEF Finish, history
<1>1. Grows /\ store' \in [Files -> Stores]
  <2>1. CASE Publish(UNION {Completes(o) : o \in Origins})
    BY <2>1, CompletesRecovered, Publishing DEF Inv
  <2>2. CASE UNCHANGED store
    BY <2>2 DEF Grows, Inv, TypeOK
  <2> QED
    BY <2>1, <2>2
<1>2. Charges /\ marker' \in [Files -> Marks] /\ ConsentedPosts'
  BY DEF Charges, Inv, TypeOK, ConsentedPosts
<1> QED
  BY <1>1, <1>2, Moves DEF Inv, TypeOK

LEMMA Dying == Inv /\ Die => Inv' /\ Stays
<1> SUFFICES ASSUME Inv, Die PROVE Inv' /\ Stays
  OBVIOUS
<1> USE DEF Die, diskVars
<1>1. Grows /\ Charges /\ store' \in [Files -> Stores] /\ marker' \in [Files -> Marks]
  BY Same
<1>2. ConsentedPosts' /\ faults' \in Nat
  BY DEF Inv, ConsentedPosts, Fault, TypeOK
<1> QED
  BY <1>1, <1>2, Moves DEF Inv, TypeOK

(* No file of an approval is evicted.                                        *)
LEMMA Evicting == Inv /\ Evict => Inv' /\ Stays
<1> SUFFICES ASSUME Inv, Evict PROVE Inv' /\ Stays
  OBVIOUS
<1> USE DEF Evict, runVars, history
<1>1. PICK f \in Files \ Protected : /\ store' = [store EXCEPT ![f] = "absent"]
                                     /\ marker' = [marker EXCEPT ![f] = "none"]
  OBVIOUS
<1>2. \A o \in Origins : \A i \in Numbers(o) : chain[o][i].candidate # f /\ Source(o, i) # f
  <2> SUFFICES ASSUME NEW o \in Origins, NEW i \in Numbers(o)
               PROVE  chain[o][i].candidate # f /\ Source(o, i) # f
    OBVIOUS
  <2>1. chain[o] # <<>>
    BY ChainFacts DEF Numbers, Inv
  <2>2. f # o /\ f \notin Proposals(o)
    BY <1>1, <2>1 DEF Protected
  <2>3. i # 1 => i - 1 \in Numbers(o)
    BY ChainFacts DEF Numbers, Inv
  <2> QED
    BY <2>2, <2>3 DEF Proposals, Source
<1>3. TypeOK'
  BY <1>1 DEF Inv, TypeOK, Stores, Marks
<1>4. Linked'
  BY <1>1, <1>2 DEF Inv, TypeOK, Linked, Numbers, Source
<1>5. ChargesApproved'
  BY <1>1, AlternativeFacts DEF Inv, TypeOK, ChargesApproved, Proposals, Numbers
<1>6. Effective' /\ Offered' /\ ConsentedPosts'
  BY DEF Inv, Effective, Offered, Offering, Consenting, Buying, Unposted, ConsentedPosts
<1>7. Stays
  <2>1. ASSUME NEW o \in Origins, chain[o] # <<>> PROVE Last(o).candidate # f
    BY <1>2, <2>1, ChainFacts DEF Last, Inv
  <2> QED
    BY <1>1, <2>1 DEF Stays, Inv, TypeOK
<1> QED
  BY <1>3, <1>4, <1>5, <1>6, <1>7 DEF Inv

(* The owner changes retained bodies, none that is missing or published.     *)
LEMMA Editing == Inv /\ Edit => Inv' /\ Stays
<1> SUFFICES ASSUME Inv, Edit PROVE Inv' /\ Stays
  OBVIOUS
<1>1. /\ half' \subseteq Origins /\ edits' \in Nat /\ pc \notin Consenting \union {"acquire"}
      /\ UNCHANGED <<marker, chain, pc, mode, effective, todo, failures, offer>>
      /\ UNCHANGED <<consented, posted, faults>>
  <2>1. half \subseteq Origins /\ edits \in Nat
    BY DEF Inv, TypeOK
  <2>2. half' \subseteq half /\ edits' = edits + 1
    BY DEF Edit
  <2>3. pc \notin Consenting \union {"acquire"}
    BY DEF Edit, Consenting
  <2>4. UNCHANGED <<marker, chain, pc, mode, effective, todo, failures, offer>>
    BY DEF Edit, runVars
  <2>5. UNCHANGED <<consented, posted, faults>>
    BY DEF Edit
  <2>6. half' \subseteq Origins /\ edits' \in Nat
    BY <2>1, <2>2
  <2> QED
    BY <2>3, <2>4, <2>5, <2>6
<1>2. /\ store' \in [Files -> Stores] /\ edited' \subseteq Files /\ edited \subseteq edited'
      /\ \A f \in Files : \/ store'[f] = store[f]
                          \/ store[f] \notin {"absent", "published"} /\ f \in edited'
  <2>1. store \in [Files -> Stores] /\ edited \subseteq Files
    BY DEF Inv, TypeOK
  <2>2. CASE UNCHANGED <<store, edited>>
    BY <2>1, <2>2
  <2>3. CASE \E f \in Files : \E s \in {"absent", "torn", "other empty"} :
               /\ store[f] \notin {"absent", "published", s}
               /\ store' = [store EXCEPT ![f] = s]
               /\ edited' = edited \union {f}
    BY <2>1, <2>3 DEF Stores, Empties
  <2> QED
    BY <2>2, <2>3 DEF Edit
<1>3. TypeOK'
  BY <1>1, <1>2 DEF Inv, TypeOK
<1>4. Linked'
  <2>1. \A o \in Origins : \A i \in Numbers(o) : chain[o][i].from \in Files
    BY ChainFacts DEF Inv, Approvals
  <2>2. Linked
    BY DEF Inv
  <2> QED
    BY <1>1, <1>2, <2>1, <2>2 DEF Linked, Numbers, Source
<1>5. ChargesApproved'
  <2>1. ChargesApproved
    BY DEF Inv
  <2> QED
    BY <1>1, <1>2, <2>1, AlternativeFacts DEF ChargesApproved, Proposals, Numbers
<1>6. Effective' /\ Offered' /\ ConsentedPosts'
  BY <1>1 DEF Inv, Effective, Offered, Offering, Consenting, Buying, Unposted, ConsentedPosts
<1>7. Stays
  BY <1>1, <1>2, ChainFacts DEF Stays, Inv, Approvals
<1> QED
  BY <1>3, <1>4, <1>5, <1>6, <1>7 DEF Inv

LEMMA GoesOn == Inv /\ [Next]_vars => Inv' /\ (Stays \/ UNCHANGED vars)
<1>1. CASE UNCHANGED vars
  BY <1>1, Idle
<1>2. CASE Next
  BY <1>2, Beginning, Replaying, Acquiring, AcquisitionEnds, Surveying, Proposing, Answering,
     Approving, Recording, Recovering, Reserving, Posting, Receiving, Finishing, Dying, Evicting,
     Editing DEF Next, Run
<1> QED
  BY <1>1, <1>2

LEMMA Inductive == Spec => []Inv
BY Starts, GoesOn, PTL DEF Spec

-----------------------------------------------------------------------------
(* Type correctness of Approvals.                                            *)
THEOREM ApprovalsTyped == Spec => []TypeOK
BY Inductive, PTL DEF Inv

(* For any episodes, alternatives, limits and faults, an alternative is paid *)
(* for only after the user's yes in the same run, with an approval on disk   *)
(* that is about the body it replaces.                                       *)
THEOREM ConsentPays == Spec => PaidByConsent
<1> DEFINE Seen == \A o \in Origins : half' \ half = {o} =>
                      /\ Proves(offer.from, offer.proof)
                      /\ offer.from = Current(o) /\ offer.proposed \in consented
<1>1. Inv /\ [Next]_vars => [Seen]_vars
  <2> SUFFICES ASSUME Inv, Next PROVE Seen
    OBVIOUS
  <2>1. CASE Approve
    <3>1. half' = half \/ (SourceUnchanged /\ offer.proposed \in consented
                           /\ half' = half \union {offer.origin})
      BY <2>1, Approving
    <3> QED
      BY <3>1 DEF SourceUnchanged
  <2>2. CASE ~Approve
    <3>1. half' \subseteq half
      BY <2>2 DEF Next, Run, Begin, EffectiveManifest, Acquire, Acquired, Survey, Offer, Answer,
         Record, Recover, Reserve, Post, Receive, Finish, Die, Evict, Edit, diskVars
    <3> QED
      BY <3>1
  <2> QED
    BY <2>1, <2>2
<1>2. Inv => ConsentedPosts /\ ChargesApproved
  BY DEF Inv
<1> QED
  BY <1>1, <1>2, Inductive, PTL DEF Spec, PaidByConsent, ApprovedAsSeen

(* For any episodes, alternatives, limits and faults, only what needs a look *)
(* stops a history from being replayed, and a replacement that became usable *)
(* stays.                                                                    *)
THEOREM HistoryKept == Spec => HistoryHolds
<1>1. Inv => HistoryReplays
  <2> SUFFICES ASSUME Inv, NEW o \in Origins, o \notin half,
                      \A f \in Excluded(o) : f \notin edited /\ ~NeedsReview(f)
               PROVE  Replays(o)
    BY DEF HistoryReplays
  <2>1. ASSUME NEW i \in Numbers(o) PROVE Continues(o, i)
    <3>1. chain[o][i] \in Approvals /\ \A j \in 1..(i - 1) : j \in Numbers(o)
      BY ChainFacts DEF Numbers, Inv
    <3>2. /\ chain[o][i].from = Source(o, i) /\ chain[o][i].candidate \in Alternatives[o]
          /\ \A j \in 1..(i - 1) : chain[o][j].candidate # chain[o][i].candidate
          /\ store[chain[o][i].from] = chain[o][i].proof \/ chain[o][i].from \in edited
      BY DEF Inv, Linked
    <3>3. chain[o][i].from \in Excluded(o)
      <4>1. i # 1 => i - 1 \in Numbers(o)
        BY ChainFacts DEF Numbers, Inv
      <4> QED
        BY <3>2, <4>1 DEF Source, Excluded, Proposals
    <3>4. Proves(chain[o][i].from, chain[o][i].proof)
      BY <3>1, <3>2, <3>3 DEF Proves, NeedsReview, Approvals
    <3>5. chain[o][i].candidate # o
      BY <3>2, AlternativeFacts
    <3> QED
      BY <3>2, <3>4, <3>5 DEF Continues, Source
  <2>2. ASSUME chain[o] # <<>>, Recovered(Last(o).candidate) = "error"
        PROVE  Empty(Last(o).candidate)
    <3> DEFINE f == Last(o).candidate
    <3>1. f \in Files /\ f \in Excluded(o)
      BY <2>2, ChainFacts DEF Last, Approvals, Excluded, Proposals, Inv
    <3> HIDE DEF f
    <3>2. marker[f] # "torn" /\ store[f] \notin {"torn", "malformed"} /\ store[f] \in Stores
      BY <3>1 DEF NeedsReview, Inv, TypeOK
    <3>3. store[f] \in Empties
      BY <2>2, <3>2 DEF Recovered, Stores, f
    <3> QED
      BY <3>2, <3>3 DEF Empty, Proves, f
  <2> QED
    BY <2>1, <2>2 DEF Replays
<1> DEFINE Rest == \A o \in Origins :
              chain[o] # <<>> /\ store[Last(o).candidate] = "published" =>
                  chain'[o] = chain[o] /\ store'[Last(o).candidate] = "published"
<1>2. Inv /\ [Next]_vars => [Rest]_vars
  BY GoesOn DEF Stays
<1> QED
  BY <1>1, <1>2, Inductive, PTL DEF Spec, HistoryHolds, ReplacementStays
=============================================================================
