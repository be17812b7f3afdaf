-------------------------- MODULE Acquisition_proofs --------------------------
(* Whatever fails and wherever an invocation dies, published references are  *)
(* whole and every file goes through the life ReferenceArchive promises, for *)
(* any number of files, faults and selections.                               *)
EXTENDS Acquisition, FiniteSetTheorems, TLAPS

(* What an interrupted stage, finish_staging or eviction can leave.          *)
Blank(d) == d.receipt = "none" /\ d.body = "none" /\ d.prov = "none"

Whole(d) == d.there /\ d.receipt = "none" /\ d.body = "full" /\ d.prov = "full"

Complete(d) == d.there /\ d.receipt = "full" /\ d.body = "full"

Staged(d) ==
    \/ ~d.there
    \/ d.receipt \in {"none", "torn", "full"} /\ d.body = "none" /\ d.prov = "none"
    \/ d.receipt = "full" /\ d.body = "prefix" /\ d.prov = "none"
    \/ Complete(d) /\ d.prov \in {"none", "torn", "full"}
    \/ Whole(d)

Remnant(d) == d.there /\ d.receipt = "none" /\ d.body = "none"

Shaped ==
    \A f \in Files :
        /\ Staged(partial[f])
        /\ entry[f].there => Whole(entry[f]) \/ Remnant(entry[f])
        /\ entry[f].there => ~partial[f].there
        /\ Whole(entry[f]) => usable[f]
        /\ Remnant(entry[f]) => f \in evicting \/ "eviction" \in wounded[f]

LoneEviction ==
    \A f \in evicting : ~Whole(entry[f]) /\ evicting = {f}

(* The file at work, and what the disk holds of it at each step.             *)
LoneWork == \A f, g \in at : f = g

Bare(f) == ~entry[f].there /\ ~partial[f].there

AtWork ==
    \A f \in at :
        /\ pc \in {"unmark", "mark", "post"} =>
              Bare(f) /\ posts[f] = 0 /\ f \in attempted
        /\ pc \in {"fetch", "stage", "receipt", "body"} => posts[f] = 1
        /\ pc \in {"receipt", "body", "finish"} => partial[f].there
        /\ pc = "receipt" => Blank(partial[f])
        /\ pc = "body" => /\ partial[f].receipt = "full"
                          /\ partial[f].body = "none"
                          /\ partial[f].prov = "none"
        /\ pc = "provenance" =>
              usable[f] /\ Complete(partial[f]) /\ partial[f].prov = "none"
        /\ pc = "unreceipt" =>
              /\ usable[f]
              /\ \/ Complete(partial[f]) /\ partial[f].prov = "full"
                 \/ Whole(partial[f])
        /\ pc = "rename" => usable[f] /\ Whole(partial[f])

(* No eviction reaches into what the running invocation selected.           *)
Owned ==
    /\ pc = "off" => at = {} /\ todo = {} /\ pending = {}
    /\ pc # "off" => /\ at \subseteq selected /\ todo \subseteq selected
                     /\ pending \subseteq selected
                     /\ evicting \cap selected = {}

Attempts ==
    /\ \A f \in Files : posts[f] \in {0, 1}
    /\ pc # "off" => \A f \in Files : posts[f] = 1 => f \in attempted

IInv == /\ TypeOK
        /\ Shaped
        /\ LoneEviction
        /\ LoneWork
        /\ AtWork
        /\ Owned
        /\ Attempts

USE AcquisitionAssumption

LEMMA InitIInv == Init => IInv
<1> SUFFICES ASSUME Init PROVE IInv
  OBVIOUS
<1>1. TypeOK
  BY DEF Init, TypeOK, RunTypeOK, DiskInit, DiskTypeOK, Steps, Verdicts, Dirs, NoDir, Marks,
         Documents, Bodies
<1>2. Shaped
  BY DEF Init, DiskInit, Shaped, Staged, Whole, Remnant, NoDir
<1>3. LoneEviction /\ LoneWork /\ AtWork /\ Owned /\ Attempts
  BY DEF Init, DiskInit, LoneEviction, LoneWork, AtWork, Owned, Attempts
<1> QED
  BY <1>1, <1>2, <1>3 DEF IInv

(* Writing within a staging directory, or removing it.                       *)
LEMMA Restaging ==
    ASSUME IInv,
           NEW f \in Files, NEW dir \in Dirs, Staged(dir),
           Restage(f, dir),
           dir.there => ~entry[f].there,
           UNCHANGED <<marker, entry, usable, evicting>>,
           wounded' \in [Files -> SUBSET Wounds],
           \A g \in Files : wounded[g] \subseteq wounded'[g]
    PROVE  DiskTypeOK' /\ Shaped' /\ LoneEviction'
<1>2. DiskTypeOK'
  BY DEF IInv, TypeOK, DiskTypeOK, Restage
<1>3. Shaped'
  BY DEF IInv, TypeOK, DiskTypeOK, Shaped, Restage
<1>4. LoneEviction'
  BY DEF IInv, LoneEviction
<1> QED
  BY <1>2, <1>3, <1>4

LEMMA Damaged ==
    ASSUME TypeOK, NEW f \in Files, NEW torn, Damage(f, torn)
    PROVE  /\ wounded' \in [Files -> SUBSET Wounds]
           /\ \A g \in Files : wounded[g] \subseteq wounded'[g]
  BY DEF TypeOK, DiskTypeOK, Damage, Wounds

(* The steps of the invocation.                                               *)

LEMMA BeginIInv == ASSUME IInv, NEW S \in Selections, Begin(S) PROVE IInv'
<1>1. UNCHANGED diskVars
  BY DEF Begin
<1>2. DiskTypeOK' /\ Shaped' /\ LoneEviction'
  BY <1>1 DEF IInv, TypeOK, DiskTypeOK, Shaped, LoneEviction, diskVars
<1>3. RunTypeOK'
  <2>1. pc' \in Steps /\ verdict' \in Verdicts /\ pass' \in 1..3
    BY DEF IInv, TypeOK, RunTypeOK, Begin, Goto, Steps, Verdicts
  <2>2. /\ selected' \in SUBSET Files /\ todo' \in SUBSET Files
        /\ pending' \in SUBSET Files /\ failures' \in SUBSET Files
    BY DEF IInv, TypeOK, RunTypeOK, Begin, Goto
  <2>3. at' \in SUBSET Files /\ attempted' \in SUBSET Files
    BY DEF IInv, TypeOK, RunTypeOK, Begin, Goto
  <2>4. remaining' \in SUBSET (0..MaxQuota)
    BY DEF IInv, TypeOK, RunTypeOK, Begin, Goto
  <2>5. posts' \in [Files -> Nat] /\ faults' \in Nat
    BY DEF IInv, TypeOK, RunTypeOK, Begin, history
  <2>6. charged' \in SUBSET Files /\ warned' \in SUBSET Files
    BY DEF IInv, TypeOK, RunTypeOK, Begin, history
  <2> QED
    BY <2>1, <2>2, <2>3, <2>4, <2>5, <2>6 DEF RunTypeOK
<1>4. LoneWork'
  BY DEF IInv, TypeOK, RunTypeOK, LoneWork, Begin, Goto
<1>5. Attempts'
  BY DEF IInv, TypeOK, RunTypeOK, Attempts, AtWork, Begin, Goto, history
<1>6. AtWork'
  BY DEF IInv, TypeOK, RunTypeOK, LoneWork, Attempts, AtWork, Begin, Goto, diskVars, history
<1>7. Owned'
  BY DEF IInv, TypeOK, RunTypeOK, Owned, Begin, Goto, Quiet, diskVars
<1> QED
  BY <1>2, <1>3, <1>4, <1>5, <1>6, <1>7 DEF IInv, TypeOK

LEMMA OpenIInv == ASSUME IInv, Open PROVE IInv'
<1>1. UNCHANGED diskVars
  BY DEF Open
<1>2. DiskTypeOK' /\ Shaped' /\ LoneEviction'
  BY <1>1 DEF IInv, TypeOK, DiskTypeOK, Shaped, LoneEviction, diskVars
<1>3. RunTypeOK'
  <2>1. pc' \in Steps /\ verdict' \in Verdicts /\ pass' \in 1..3
    BY DEF IInv, TypeOK, RunTypeOK, Open, End, Fault, Goto, Steps, Verdicts
  <2>2. /\ selected' \in SUBSET Files /\ todo' \in SUBSET Files
        /\ pending' \in SUBSET Files /\ failures' \in SUBSET Files
    BY DEF IInv, TypeOK, RunTypeOK, Open, End, Fault, Goto
  <2>3. at' \in SUBSET Files /\ attempted' \in SUBSET Files
    BY DEF IInv, TypeOK, RunTypeOK, Open, End, Fault, Goto
  <2>4. remaining' \in SUBSET (0..MaxQuota)
    BY DEF IInv, TypeOK, RunTypeOK, Open, End, Fault, Goto
  <2>5. posts' \in [Files -> Nat] /\ faults' \in Nat
    BY DEF IInv, TypeOK, RunTypeOK, Open, Fault, history
  <2>6. charged' \in SUBSET Files /\ warned' \in SUBSET Files
    BY DEF IInv, TypeOK, RunTypeOK, Open, Fault, history
  <2> QED
    BY <2>1, <2>2, <2>3, <2>4, <2>5, <2>6 DEF RunTypeOK
<1>4. LoneWork'
  BY DEF IInv, TypeOK, RunTypeOK, LoneWork, Open, End, Fault, Goto
<1>5. Attempts'
  BY DEF IInv, TypeOK, RunTypeOK, Attempts, AtWork, Open, End, Fault, Goto, history
<1>6. AtWork'
  BY DEF IInv, TypeOK, RunTypeOK, LoneWork, Attempts, AtWork, Open, End, Fault, Goto, diskVars, history
<1>7. Owned'
  BY DEF IInv, TypeOK, RunTypeOK, Owned, Open, End, Fault, Goto, Quiet, diskVars
<1> QED
  BY <1>2, <1>3, <1>4, <1>5, <1>6, <1>7 DEF IInv, TypeOK

LEMMA RecoverIInv == ASSUME IInv, Recover PROVE IInv'
<1>1. UNCHANGED diskVars
  BY DEF Recover
<1>2. DiskTypeOK' /\ Shaped' /\ LoneEviction'
  BY <1>1 DEF IInv, TypeOK, DiskTypeOK, Shaped, LoneEviction, diskVars
<1>3. RunTypeOK'
  <2>1. pc' \in Steps /\ verdict' \in Verdicts /\ pass' \in 1..3
    BY DEF IInv, TypeOK, RunTypeOK, Recover, Foremost, Goto, Steps, Verdicts
  <2>2. /\ selected' \in SUBSET Files /\ todo' \in SUBSET Files
        /\ pending' \in SUBSET Files /\ failures' \in SUBSET Files
    <3>1. /\ selected' = selected /\ todo' \subseteq todo
          /\ pending' \subseteq pending \union todo
          /\ failures' \subseteq failures \union todo
      BY DEF Recover, Goto
    <3> QED
      BY <3>1 DEF IInv, TypeOK, RunTypeOK
  <2>3. at' \in SUBSET Files /\ attempted' \in SUBSET Files
    BY DEF IInv, TypeOK, RunTypeOK, Recover, Foremost, Goto
  <2>4. remaining' \in SUBSET (0..MaxQuota)
    BY DEF IInv, TypeOK, RunTypeOK, Recover, Foremost, Goto
  <2>5. posts' \in [Files -> Nat] /\ faults' \in Nat
    BY DEF IInv, TypeOK, RunTypeOK, Recover, history
  <2>6. charged' \in SUBSET Files /\ warned' \in SUBSET Files
    BY DEF IInv, TypeOK, RunTypeOK, Recover, history
  <2> QED
    BY <2>1, <2>2, <2>3, <2>4, <2>5, <2>6 DEF RunTypeOK
<1>4. LoneWork'
  BY DEF IInv, TypeOK, RunTypeOK, LoneWork, Recover, Foremost, Goto
<1>5. Attempts'
  BY DEF IInv, TypeOK, RunTypeOK, Attempts, AtWork, Recover, Foremost, Goto, history
<1>6. AtWork'
  BY DEF IInv, TypeOK, RunTypeOK, LoneWork, Attempts, AtWork, Recover, Foremost, Goto, diskVars, history
<1>7. Owned'
  BY DEF IInv, TypeOK, RunTypeOK, Owned, Recover, Foremost, Goto, Quiet, diskVars
<1> QED
  BY <1>2, <1>3, <1>4, <1>5, <1>6, <1>7 DEF IInv, TypeOK

LEMMA FirstPassDoneIInv == ASSUME IInv, FirstPassDone PROVE IInv'
<1>1. UNCHANGED diskVars
  BY DEF FirstPassDone
<1>2. DiskTypeOK' /\ Shaped' /\ LoneEviction'
  BY <1>1 DEF IInv, TypeOK, DiskTypeOK, Shaped, LoneEviction, diskVars
<1>3. RunTypeOK'
  <2>1. pc' \in Steps /\ verdict' \in Verdicts /\ pass' \in 1..3
    BY DEF IInv, TypeOK, RunTypeOK, FirstPassDone, End, Fault, Goto, Steps, Verdicts
  <2>2. /\ selected' \in SUBSET Files /\ todo' \in SUBSET Files
        /\ pending' \in SUBSET Files /\ failures' \in SUBSET Files
    BY DEF IInv, TypeOK, RunTypeOK, FirstPassDone, End, Fault, Goto
  <2>3. at' \in SUBSET Files /\ attempted' \in SUBSET Files
    BY DEF IInv, TypeOK, RunTypeOK, FirstPassDone, End, Fault, Goto
  <2>4. remaining' \in SUBSET (0..MaxQuota)
    BY DEF IInv, TypeOK, RunTypeOK, FirstPassDone, End, Fault, Goto
  <2>5. posts' \in [Files -> Nat] /\ faults' \in Nat
    BY DEF IInv, TypeOK, RunTypeOK, FirstPassDone, Fault, history
  <2>6. charged' \in SUBSET Files /\ warned' \in SUBSET Files
    BY DEF IInv, TypeOK, RunTypeOK, FirstPassDone, Fault, history
  <2> QED
    BY <2>1, <2>2, <2>3, <2>4, <2>5, <2>6 DEF RunTypeOK
<1>4. LoneWork'
  BY DEF IInv, TypeOK, RunTypeOK, LoneWork, FirstPassDone, End, Fault, Goto
<1>5. Attempts'
  BY DEF IInv, TypeOK, RunTypeOK, Attempts, AtWork, FirstPassDone, End, Fault, Goto, history
<1>6. AtWork'
  BY DEF IInv, TypeOK, RunTypeOK, LoneWork, Attempts, AtWork, FirstPassDone, End, Fault, Goto, diskVars, history
<1>7. Owned'
  BY DEF IInv, TypeOK, RunTypeOK, Owned, FirstPassDone, End, Fault, Goto, Quiet, diskVars
<1> QED
  BY <1>2, <1>3, <1>4, <1>5, <1>6, <1>7 DEF IInv, TypeOK

LEMMA SecondPassDoneIInv == ASSUME IInv, SecondPassDone PROVE IInv'
<1>1. UNCHANGED diskVars
  BY DEF SecondPassDone
<1>2. DiskTypeOK' /\ Shaped' /\ LoneEviction'
  BY <1>1 DEF IInv, TypeOK, DiskTypeOK, Shaped, LoneEviction, diskVars
<1>3. RunTypeOK'
  <2>1. pc' \in Steps /\ verdict' \in Verdicts /\ pass' \in 1..3
    BY DEF IInv, TypeOK, RunTypeOK, SecondPassDone, End, Goto, Steps, Verdicts
  <2>2. /\ selected' \in SUBSET Files /\ todo' \in SUBSET Files
        /\ pending' \in SUBSET Files /\ failures' \in SUBSET Files
    BY DEF IInv, TypeOK, RunTypeOK, SecondPassDone, End, Goto
  <2>3. at' \in SUBSET Files /\ attempted' \in SUBSET Files
    BY DEF IInv, TypeOK, RunTypeOK, SecondPassDone, End, Goto
  <2>4. remaining' \in SUBSET (0..MaxQuota)
    BY DEF IInv, TypeOK, RunTypeOK, SecondPassDone, End, Goto
  <2>5. posts' \in [Files -> Nat] /\ faults' \in Nat
    BY DEF IInv, TypeOK, RunTypeOK, SecondPassDone, history
  <2>6. charged' \in SUBSET Files /\ warned' \in SUBSET Files
    BY DEF IInv, TypeOK, RunTypeOK, SecondPassDone, history
  <2> QED
    BY <2>1, <2>2, <2>3, <2>4, <2>5, <2>6 DEF RunTypeOK
<1>4. LoneWork'
  BY DEF IInv, TypeOK, RunTypeOK, LoneWork, SecondPassDone, End, Goto
<1>5. Attempts'
  BY DEF IInv, TypeOK, RunTypeOK, Attempts, AtWork, SecondPassDone, End, Goto, history
<1>6. AtWork'
  BY DEF IInv, TypeOK, RunTypeOK, LoneWork, Attempts, AtWork, SecondPassDone, End, Goto, diskVars, history
<1>7. Owned'
  BY DEF IInv, TypeOK, RunTypeOK, Owned, SecondPassDone, End, Goto, Quiet, diskVars
<1> QED
  BY <1>2, <1>3, <1>4, <1>5, <1>6, <1>7 DEF IInv, TypeOK

LEMMA PrepareIInv == ASSUME IInv, Prepare PROVE IInv'
<1>1. UNCHANGED diskVars
  BY DEF Prepare
<1>2. DiskTypeOK' /\ Shaped' /\ LoneEviction'
  BY <1>1 DEF IInv, TypeOK, DiskTypeOK, Shaped, LoneEviction, diskVars
<1>3. RunTypeOK'
  <2>1. pc' \in Steps /\ verdict' \in Verdicts /\ pass' \in 1..3
    BY DEF IInv, TypeOK, RunTypeOK, Prepare, End, Fault, Goto, Steps, Verdicts
  <2>2. /\ selected' \in SUBSET Files /\ todo' \in SUBSET Files
        /\ pending' \in SUBSET Files /\ failures' \in SUBSET Files
    BY DEF IInv, TypeOK, RunTypeOK, Prepare, End, Fault, Goto
  <2>3. at' \in SUBSET Files /\ attempted' \in SUBSET Files
    BY DEF IInv, TypeOK, RunTypeOK, Prepare, End, Fault, Goto
  <2>4. remaining' \in SUBSET (0..MaxQuota)
    BY DEF IInv, TypeOK, RunTypeOK, Prepare, End, Fault, Goto
  <2>5. posts' \in [Files -> Nat] /\ faults' \in Nat
    BY DEF IInv, TypeOK, RunTypeOK, Prepare, Fault, history
  <2>6. charged' \in SUBSET Files /\ warned' \in SUBSET Files
    BY DEF IInv, TypeOK, RunTypeOK, Prepare, Fault, history
  <2> QED
    BY <2>1, <2>2, <2>3, <2>4, <2>5, <2>6 DEF RunTypeOK
<1>4. LoneWork'
  BY DEF IInv, TypeOK, RunTypeOK, LoneWork, Prepare, End, Fault, Goto
<1>5. Attempts'
  BY DEF IInv, TypeOK, RunTypeOK, Attempts, AtWork, Prepare, End, Fault, Goto, history
<1>6. AtWork'
  BY DEF IInv, TypeOK, RunTypeOK, LoneWork, Attempts, AtWork, Prepare, End, Fault, Goto, diskVars, history
<1>7. Owned'
  BY DEF IInv, TypeOK, RunTypeOK, Owned, Prepare, End, Fault, Goto, Quiet, diskVars
<1> QED
  BY <1>2, <1>3, <1>4, <1>5, <1>6, <1>7 DEF IInv, TypeOK

LEMMA QuotaIInv == ASSUME IInv, Quota PROVE IInv'
<1>1. UNCHANGED diskVars
  BY DEF Quota
<1>2. DiskTypeOK' /\ Shaped' /\ LoneEviction'
  BY <1>1 DEF IInv, TypeOK, DiskTypeOK, Shaped, LoneEviction, diskVars
<1>3. RunTypeOK'
  <2>1. pc' \in Steps /\ verdict' \in Verdicts /\ pass' \in 1..3
    BY DEF IInv, TypeOK, RunTypeOK, Quota, End, Fault, Goto, Steps, Verdicts
  <2>2. /\ selected' \in SUBSET Files /\ todo' \in SUBSET Files
        /\ pending' \in SUBSET Files /\ failures' \in SUBSET Files
    BY DEF IInv, TypeOK, RunTypeOK, Quota, End, Fault, Goto
  <2>3. at' \in SUBSET Files /\ attempted' \in SUBSET Files
    BY DEF IInv, TypeOK, RunTypeOK, Quota, End, Fault, Goto
  <2>4. remaining' \in SUBSET (0..MaxQuota)
    BY DEF IInv, TypeOK, RunTypeOK, Quota, End, Fault, Goto
  <2>5. posts' \in [Files -> Nat] /\ faults' \in Nat
    BY DEF IInv, TypeOK, RunTypeOK, Quota, Fault, history
  <2>6. charged' \in SUBSET Files /\ warned' \in SUBSET Files
    BY DEF IInv, TypeOK, RunTypeOK, Quota, Fault, history
  <2> QED
    BY <2>1, <2>2, <2>3, <2>4, <2>5, <2>6 DEF RunTypeOK
<1>4. LoneWork'
  BY DEF IInv, TypeOK, RunTypeOK, LoneWork, Quota, End, Fault, Goto
<1>5. Attempts'
  BY DEF IInv, TypeOK, RunTypeOK, Attempts, AtWork, Quota, End, Fault, Goto, history
<1>6. AtWork'
  BY DEF IInv, TypeOK, RunTypeOK, LoneWork, Attempts, AtWork, Quota, End, Fault, Goto, diskVars, history
<1>7. Owned'
  BY DEF IInv, TypeOK, RunTypeOK, Owned, Quota, End, Fault, Goto, Quiet, diskVars
<1> QED
  BY <1>2, <1>3, <1>4, <1>5, <1>6, <1>7 DEF IInv, TypeOK

LEMMA LoopIInv == ASSUME IInv, Loop PROVE IInv'
<1>1. UNCHANGED diskVars
  BY DEF Loop
<1>2. DiskTypeOK' /\ Shaped' /\ LoneEviction'
  BY <1>1 DEF IInv, TypeOK, DiskTypeOK, Shaped, LoneEviction, diskVars
<1>3. RunTypeOK'
  <2>1. pc' \in Steps /\ verdict' \in Verdicts /\ pass' \in 1..3
    BY DEF IInv, TypeOK, RunTypeOK, Loop, Foremost, End, Goto, Steps, Verdicts
  <2>2. /\ selected' \in SUBSET Files /\ todo' \in SUBSET Files
        /\ pending' \in SUBSET Files /\ failures' \in SUBSET Files
    BY DEF IInv, TypeOK, RunTypeOK, Loop, Foremost, End, Goto
  <2>3. at' \in SUBSET Files /\ attempted' \in SUBSET Files
    BY DEF IInv, TypeOK, RunTypeOK, Loop, Foremost, End, Goto
  <2>4. remaining' \in SUBSET (0..MaxQuota)
    BY DEF IInv, TypeOK, RunTypeOK, Loop, Foremost, End, Goto
  <2>5. posts' \in [Files -> Nat] /\ faults' \in Nat
    BY DEF IInv, TypeOK, RunTypeOK, Loop, history
  <2>6. charged' \in SUBSET Files /\ warned' \in SUBSET Files
    BY DEF IInv, TypeOK, RunTypeOK, Loop, history
  <2> QED
    BY <2>1, <2>2, <2>3, <2>4, <2>5, <2>6 DEF RunTypeOK
<1>4. LoneWork'
  <2>1. at' = {} \/ at' = {f \in todo : Foremost(todo, f)} \/ at' = at
    BY DEF Loop, End, Goto
  <2>2. CASE at' = {f \in todo : Foremost(todo, f)}
    <3> SUFFICES ASSUME NEW f \in at', NEW g \in at' PROVE f = g
      BY DEF LoneWork
    <3>1. f \in Nat /\ g \in Nat
      BY <2>2 DEF IInv, TypeOK, RunTypeOK
    <3>2. f <= g /\ g <= f
      BY <2>2 DEF Foremost
    <3> QED
      BY <3>1, <3>2
  <2> QED
    BY <2>1, <2>2 DEF IInv, LoneWork
<1>5. Attempts'
  BY DEF IInv, TypeOK, RunTypeOK, Attempts, AtWork, Loop, Foremost, End, Goto, history
<1>6. AtWork'
  BY DEF IInv, TypeOK, RunTypeOK, LoneWork, Attempts, AtWork, Loop, Foremost, End, Goto, diskVars, history
<1>7. Owned'
  BY DEF IInv, TypeOK, RunTypeOK, Owned, Loop, Foremost, End, Goto, Quiet, diskVars
<1> QED
  BY <1>2, <1>3, <1>4, <1>5, <1>6, <1>7 DEF IInv, TypeOK

LEMMA ReserveIInv == ASSUME IInv, Reserve PROVE IInv'
<1>1. UNCHANGED diskVars
  BY DEF Reserve
<1>2. DiskTypeOK' /\ Shaped' /\ LoneEviction'
  BY <1>1 DEF IInv, TypeOK, DiskTypeOK, Shaped, LoneEviction, diskVars
<1>3. RunTypeOK'
  <2>1. pc' \in Steps /\ verdict' \in Verdicts /\ pass' \in 1..3
    BY DEF IInv, TypeOK, RunTypeOK, Reserve, Skip, Marking, Fault, Goto, Steps, Verdicts
  <2>2. /\ selected' \in SUBSET Files /\ todo' \in SUBSET Files
        /\ pending' \in SUBSET Files /\ failures' \in SUBSET Files
    BY DEF IInv, TypeOK, RunTypeOK, Reserve, Skip, Marking, Fault, Goto
  <2>3. at' \in SUBSET Files /\ attempted' \in SUBSET Files
    <3>1. attempted' \subseteq attempted \union at /\ at' \subseteq at
      BY DEF Reserve, Skip
    <3> QED
      BY <3>1 DEF IInv, TypeOK, RunTypeOK
  <2>4. remaining' \in SUBSET (0..MaxQuota)
    BY DEF IInv, TypeOK, RunTypeOK, Reserve, Skip, Marking, Fault, Goto
  <2>5. /\ posts' \in [Files -> Nat] /\ faults' \in Nat
        /\ charged' \in SUBSET Files /\ warned' \in SUBSET Files
    <3>1. /\ posts' = posts /\ charged' = charged
          /\ faults' = faults \/ faults' = faults + 1
          /\ warned' \subseteq warned \union at
      BY DEF Reserve, Fault
    <3> QED
      BY <3>1 DEF IInv, TypeOK, RunTypeOK
  <2> QED
    BY <2>1, <2>2, <2>3, <2>4, <2>5 DEF RunTypeOK
<1>4. LoneWork'
  BY DEF IInv, TypeOK, RunTypeOK, LoneWork, Reserve, Skip, Marking, Fault, Goto
<1>5. Attempts'
  BY DEF IInv, TypeOK, RunTypeOK, Attempts, AtWork, Reserve, Skip, Marking, Fault, Goto, history
<1>6. AtWork'
  <2>1. CASE pc' = "loop"
    BY <2>1 DEF AtWork
  <2>2. CASE pc' # "loop"
    <3>1. PICK f \in at : /\ Reservable(f) /\ at' = at
                          /\ pc' \in {"unmark", "mark"}
                          /\ attempted' = attempted \union {f}
      BY <2>2 DEF Reserve, Skip, Marking, Goto
    <3>2. f \in Files /\ at = {f}
      BY <3>1 DEF IInv, TypeOK, RunTypeOK, LoneWork
    <3>3. Bare(f)' /\ posts'[f] = posts[f]
      BY <3>1 DEF Reservable, Bare, Reserve, diskVars
    <3>4. posts[f] = 0
      BY <3>1, <3>2 DEF IInv, Attempts, Reservable, Reserve
    <3> QED
      BY <3>1, <3>2, <3>3, <3>4 DEF AtWork
  <2> QED
    BY <2>1, <2>2
<1>7. Owned'
  BY DEF IInv, TypeOK, RunTypeOK, Owned, Reserve, Skip, Marking, Fault, Goto, Quiet, diskVars
<1> QED
  BY <1>2, <1>3, <1>4, <1>5, <1>6, <1>7 DEF IInv, TypeOK

LEMMA RemoveOldMarkerIInv == ASSUME IInv, RemoveOldMarker PROVE IInv'
<1>2. DiskTypeOK' /\ Shaped' /\ LoneEviction'
  <2>1. DiskTypeOK'
    BY DEF IInv, TypeOK, DiskTypeOK, RunTypeOK, RemoveOldMarker, Marks
  <2>2. Shaped' /\ LoneEviction'
    BY DEF IInv, Shaped, LoneEviction, RemoveOldMarker
  <2> QED
    BY <2>1, <2>2
<1>3. RunTypeOK'
  <2>1. pc' \in Steps /\ verdict' \in Verdicts /\ pass' \in 1..3
    BY DEF IInv, TypeOK, RunTypeOK, RemoveOldMarker, Skip, Fault, Goto, Steps, Verdicts
  <2>2. /\ selected' \in SUBSET Files /\ todo' \in SUBSET Files
        /\ pending' \in SUBSET Files /\ failures' \in SUBSET Files
    BY DEF IInv, TypeOK, RunTypeOK, RemoveOldMarker, Skip, Fault, Goto
  <2>3. at' \in SUBSET Files /\ attempted' \in SUBSET Files
    BY DEF IInv, TypeOK, RunTypeOK, RemoveOldMarker, Skip, Fault, Goto
  <2>4. remaining' \in SUBSET (0..MaxQuota)
    BY DEF IInv, TypeOK, RunTypeOK, RemoveOldMarker, Skip, Fault, Goto
  <2>5. posts' \in [Files -> Nat] /\ faults' \in Nat
    BY DEF IInv, TypeOK, RunTypeOK, RemoveOldMarker, Fault, history
  <2>6. charged' \in SUBSET Files /\ warned' \in SUBSET Files
    BY DEF IInv, TypeOK, RunTypeOK, RemoveOldMarker, Fault, history
  <2> QED
    BY <2>1, <2>2, <2>3, <2>4, <2>5, <2>6 DEF RunTypeOK
<1>4. LoneWork'
  BY DEF IInv, TypeOK, RunTypeOK, LoneWork, RemoveOldMarker, Skip, Fault, Goto
<1>5. Attempts'
  BY DEF IInv, TypeOK, RunTypeOK, Attempts, AtWork, RemoveOldMarker, Skip, Fault, Goto, history
<1>6. AtWork'
  <2>1. CASE pc' # "mark"
    BY <2>1 DEF AtWork, RemoveOldMarker, Skip, Goto
  <2>2. CASE pc' = "mark"
    <3>1. /\ at' = at /\ attempted' = attempted /\ posts' = posts
          /\ entry' = entry /\ partial' = partial
      BY <2>2 DEF RemoveOldMarker, Skip, Goto
    <3> QED
      BY <2>2, <3>1 DEF IInv, AtWork, Bare, RemoveOldMarker
  <2> QED
    BY <2>1, <2>2
<1>7. Owned'
  BY DEF IInv, TypeOK, RunTypeOK, Owned, RemoveOldMarker, Skip, Fault, Goto, Quiet, diskVars
<1> QED
  BY <1>2, <1>3, <1>4, <1>5, <1>6, <1>7 DEF IInv, TypeOK

LEMMA WriteMarkerIInv == ASSUME IInv, WriteMarker PROVE IInv'
<1>2. DiskTypeOK' /\ Shaped' /\ LoneEviction'
  <2>1. PICK f \in at, m \in Marks : /\ marker' = [marker EXCEPT ![f] = m]
                                     /\ wounded' = wounded \/ Damage(f, TRUE)
    BY DEF WriteMarker, Damage, Marks
  <2>2. f \in Files
    BY <2>1 DEF IInv, TypeOK, RunTypeOK
  <2>3. /\ wounded' \in [Files -> SUBSET Wounds]
        /\ \A g \in Files : wounded[g] \subseteq wounded'[g]
    BY <2>1, <2>2, Damaged DEF IInv, TypeOK, DiskTypeOK
  <2>4. marker' \in [Files -> Marks]
    BY <2>1, <2>2 DEF IInv, TypeOK, DiskTypeOK
  <2>5. UNCHANGED <<partial, entry, usable, evicting>>
    BY DEF WriteMarker
  <2>6. DiskTypeOK'
    BY <2>3, <2>4, <2>5 DEF IInv, TypeOK, DiskTypeOK
  <2>7. Shaped' /\ LoneEviction'
    BY <2>3, <2>5 DEF IInv, Shaped, LoneEviction
  <2> QED
    BY <2>6, <2>7
<1>3. RunTypeOK'
  <2>1. pc' \in Steps /\ verdict' \in Verdicts /\ pass' \in 1..3
    BY DEF IInv, TypeOK, RunTypeOK, WriteMarker, Skip, Fault, Goto, Steps, Verdicts
  <2>2. /\ selected' \in SUBSET Files /\ todo' \in SUBSET Files
        /\ pending' \in SUBSET Files /\ failures' \in SUBSET Files
    BY DEF IInv, TypeOK, RunTypeOK, WriteMarker, Skip, Fault, Goto
  <2>3. at' \in SUBSET Files /\ attempted' \in SUBSET Files
    BY DEF IInv, TypeOK, RunTypeOK, WriteMarker, Skip, Fault, Goto
  <2>4. remaining' \in SUBSET (0..MaxQuota)
    BY DEF IInv, TypeOK, RunTypeOK, WriteMarker, Skip, Fault, Goto
  <2>5. posts' \in [Files -> Nat] /\ faults' \in Nat
    BY DEF IInv, TypeOK, RunTypeOK, WriteMarker, Fault, history
  <2>6. charged' \in SUBSET Files /\ warned' \in SUBSET Files
    BY DEF IInv, TypeOK, RunTypeOK, WriteMarker, Fault, history
  <2> QED
    BY <2>1, <2>2, <2>3, <2>4, <2>5, <2>6 DEF RunTypeOK
<1>4. LoneWork'
  BY DEF IInv, TypeOK, RunTypeOK, LoneWork, WriteMarker, Skip, Fault, Goto
<1>5. Attempts'
  BY DEF IInv, TypeOK, RunTypeOK, Attempts, AtWork, WriteMarker, Skip, Fault, Goto, history
<1>6. AtWork'
  <2>1. CASE pc' # "post"
    BY <2>1 DEF AtWork, WriteMarker, Skip, Goto
  <2>2. CASE pc' = "post"
    <3>1. /\ at' = at /\ attempted' = attempted /\ posts' = posts
          /\ entry' = entry /\ partial' = partial
      BY <2>2 DEF WriteMarker, Skip, Goto
    <3> QED
      BY <2>2, <3>1 DEF IInv, AtWork, Bare, WriteMarker
  <2> QED
    BY <2>1, <2>2
<1>7. Owned'
  BY DEF IInv, TypeOK, RunTypeOK, Owned, WriteMarker, Skip, Fault, Goto, Quiet, diskVars
<1> QED
  BY <1>2, <1>3, <1>4, <1>5, <1>6, <1>7 DEF IInv, TypeOK

LEMMA PostIInv == ASSUME IInv, Post PROVE IInv'
<1>1. UNCHANGED diskVars
  BY DEF Post
<1>2. DiskTypeOK' /\ Shaped' /\ LoneEviction'
  BY <1>1 DEF IInv, TypeOK, DiskTypeOK, Shaped, LoneEviction, diskVars
<1>3. RunTypeOK'
  <2>1. pc' \in Steps /\ verdict' \in Verdicts /\ pass' \in 1..3
    BY DEF IInv, TypeOK, RunTypeOK, Post, Told, End, Fault, Goto, Steps, Verdicts
  <2>2. /\ selected' \in SUBSET Files /\ todo' \in SUBSET Files
        /\ pending' \in SUBSET Files /\ failures' \in SUBSET Files
    BY DEF IInv, TypeOK, RunTypeOK, Post, Told, End, Fault, Goto
  <2>3. at' \in SUBSET Files /\ attempted' \in SUBSET Files
    BY DEF IInv, TypeOK, RunTypeOK, Post, Told, End, Fault, Goto
  <2>4. remaining' \in SUBSET (0..MaxQuota)
    BY DEF IInv, TypeOK, RunTypeOK, Post, Told, End, Fault, Goto
  <2>5. posts' \in [Files -> Nat] /\ faults' \in Nat
    BY DEF IInv, TypeOK, RunTypeOK, Post, Fault, history
  <2>6. charged' \in SUBSET Files /\ warned' \in SUBSET Files
    BY DEF IInv, TypeOK, RunTypeOK, Post, Fault, history
  <2> QED
    BY <2>1, <2>2, <2>3, <2>4, <2>5, <2>6 DEF RunTypeOK
<1>4. LoneWork'
  BY DEF IInv, TypeOK, RunTypeOK, LoneWork, Post, Told, End, Fault, Goto
<1>5. Attempts'
  <2>1. PICK f \in at : posts' = [posts EXCEPT ![f] = @ + 1]
    BY DEF Post
  <2>2. f \in Files /\ posts[f] = 0 /\ f \in attempted
    BY <2>1 DEF IInv, TypeOK, RunTypeOK, AtWork, Post
  <2>3. pc' = "off" \/ attempted' = attempted
    BY DEF Post, End, Goto
  <2> QED
    BY <2>1, <2>2, <2>3 DEF IInv, TypeOK, RunTypeOK, Attempts, Post
<1>6. AtWork'
  <2>1. CASE pc' # "fetch"
    BY <2>1 DEF AtWork, Post, End, Goto
  <2>2. CASE pc' = "fetch"
    <3>1. PICK f \in at : posts' = [posts EXCEPT ![f] = @ + 1]
      BY DEF Post
    <3>2. f \in Files /\ posts[f] = 0
      BY <3>1 DEF IInv, TypeOK, RunTypeOK, AtWork, Post
    <3>4. at = {f}
      BY <3>1 DEF IInv, LoneWork
    <3>3. at' = at
      BY <2>2 DEF Post, End
    <3> QED
      BY <2>2, <3>1, <3>2, <3>3, <3>4 DEF IInv, TypeOK, RunTypeOK, AtWork
  <2> QED
    BY <2>1, <2>2
<1>7. Owned'
  BY DEF IInv, TypeOK, RunTypeOK, Owned, Post, Told, End, Fault, Goto, Quiet, diskVars
<1> QED
  BY <1>2, <1>3, <1>4, <1>5, <1>6, <1>7 DEF IInv, TypeOK

LEMMA FetchIInv == ASSUME IInv, Fetch PROVE IInv'
<1>1. UNCHANGED diskVars
  BY DEF Fetch
<1>2. DiskTypeOK' /\ Shaped' /\ LoneEviction'
  BY <1>1 DEF IInv, TypeOK, DiskTypeOK, Shaped, LoneEviction, diskVars
<1>3. RunTypeOK'
  <2>1. pc' \in Steps /\ verdict' \in Verdicts /\ pass' \in 1..3
    BY DEF IInv, TypeOK, RunTypeOK, Fetch, GiveUp, Leave, Proceed, End, Fault, Goto, Steps, Verdicts
  <2>2. /\ selected' \in SUBSET Files /\ todo' \in SUBSET Files
        /\ pending' \in SUBSET Files /\ failures' \in SUBSET Files
    BY DEF IInv, TypeOK, RunTypeOK, Fetch, GiveUp, Leave, Proceed, End, Fault, Goto
  <2>3. at' \in SUBSET Files /\ attempted' \in SUBSET Files
    BY DEF IInv, TypeOK, RunTypeOK, Fetch, GiveUp, Leave, Proceed, End, Fault, Goto
  <2>4. remaining' \in SUBSET (0..MaxQuota)
    BY DEF IInv, TypeOK, RunTypeOK, Fetch, GiveUp, Leave, Proceed, End, Fault, Goto
  <2>5. posts' \in [Files -> Nat] /\ faults' \in Nat
    BY DEF IInv, TypeOK, RunTypeOK, Fetch, Fault, history
  <2>6. charged' \in SUBSET Files /\ warned' \in SUBSET Files
    BY DEF IInv, TypeOK, RunTypeOK, Fetch, Fault, history
  <2> QED
    BY <2>1, <2>2, <2>3, <2>4, <2>5, <2>6 DEF RunTypeOK
<1>4. LoneWork'
  BY DEF IInv, TypeOK, RunTypeOK, LoneWork, Fetch, GiveUp, Leave, Proceed, End, Fault, Goto
<1>5. Attempts'
  BY DEF IInv, TypeOK, RunTypeOK, Attempts, AtWork, Fetch, GiveUp, Leave, Proceed, End, Fault, Goto, history
<1>6. AtWork'
  BY DEF IInv, TypeOK, RunTypeOK, LoneWork, Attempts, AtWork, Fetch, GiveUp, Leave, Proceed, End, Fault, Goto, diskVars, history
<1>7. Owned'
  BY DEF IInv, TypeOK, RunTypeOK, Owned, Fetch, GiveUp, Leave, Proceed, End, Fault, Goto, Quiet, diskVars
<1> QED
  BY <1>2, <1>3, <1>4, <1>5, <1>6, <1>7 DEF IInv, TypeOK

LEMMA StageIInv == ASSUME IInv, Stage PROVE IInv'
<1>2. DiskTypeOK' /\ Shaped' /\ LoneEviction'
  <2>1. PICK f \in at : \/ /\ ~entry[f].there
                          /\ Restage(f, EmptyDir)
                       \/ partial' = partial
    BY DEF Stage
  <2>2. f \in Files
    BY <2>1 DEF IInv, TypeOK, RunTypeOK
  <2>3. UNCHANGED <<marker, entry, usable, evicting, wounded>>
    BY DEF Stage
  <2>4. CASE partial' = partial
    BY <2>3, <2>4 DEF IInv, TypeOK, DiskTypeOK, Shaped, LoneEviction
  <2>5. CASE ~entry[f].there /\ Restage(f, EmptyDir)
    <3>1. EmptyDir \in Dirs /\ Staged(EmptyDir)
      BY DEF EmptyDir, NoDir, Dirs, Documents, Bodies, Staged
    <3> QED
      BY <2>2, <2>3, <2>5, <3>1, Restaging DEF IInv, TypeOK, DiskTypeOK
  <2> QED
    BY <2>1, <2>4, <2>5
<1>3. RunTypeOK'
  <2>1. pc' \in Steps /\ verdict' \in Verdicts /\ pass' \in 1..3
    BY DEF IInv, TypeOK, RunTypeOK, Stage, GiveUp, Leave, Proceed, End, Fault, Goto, Steps, Verdicts
  <2>2. /\ selected' \in SUBSET Files /\ todo' \in SUBSET Files
        /\ pending' \in SUBSET Files /\ failures' \in SUBSET Files
    BY DEF IInv, TypeOK, RunTypeOK, Stage, GiveUp, Leave, Proceed, End, Fault, Goto
  <2>3. at' \in SUBSET Files /\ attempted' \in SUBSET Files
    BY DEF IInv, TypeOK, RunTypeOK, Stage, GiveUp, Leave, Proceed, End, Fault, Goto
  <2>4. remaining' \in SUBSET (0..MaxQuota)
    BY DEF IInv, TypeOK, RunTypeOK, Stage, GiveUp, Leave, Proceed, End, Fault, Goto
  <2>5. posts' \in [Files -> Nat] /\ faults' \in Nat
    BY DEF IInv, TypeOK, RunTypeOK, Stage, Fault, history
  <2>6. charged' \in SUBSET Files /\ warned' \in SUBSET Files
    BY DEF IInv, TypeOK, RunTypeOK, Stage, Fault, history
  <2> QED
    BY <2>1, <2>2, <2>3, <2>4, <2>5, <2>6 DEF RunTypeOK
<1>4. LoneWork'
  BY DEF IInv, TypeOK, RunTypeOK, LoneWork, Stage, GiveUp, Leave, Proceed, End, Fault, Goto
<1>5. Attempts'
  BY DEF IInv, TypeOK, RunTypeOK, Attempts, AtWork, Stage, GiveUp, Leave, Proceed, End, Fault, Goto, history
<1>6. AtWork'
  <2>1. CASE pc' # "receipt"
    BY <2>1 DEF AtWork, Stage, GiveUp, Leave, Proceed, End, Goto
  <2>2. CASE pc' = "receipt"
    <3>1. PICK f \in at : Restage(f, EmptyDir) /\ at' = at /\ posts' = posts
      BY <2>2 DEF Stage, GiveUp, Leave, Proceed, End, Goto
    <3>2. f \in Files /\ at = {f} /\ posts[f] = 1
      BY <3>1 DEF IInv, TypeOK, RunTypeOK, LoneWork, AtWork, Stage
    <3>3. partial'[f] = EmptyDir
      BY <3>1, <3>2 DEF IInv, TypeOK, DiskTypeOK, Restage
    <3> QED
      BY <2>2, <3>1, <3>2, <3>3 DEF AtWork, Blank, EmptyDir, NoDir
  <2> QED
    BY <2>1, <2>2
<1>7. Owned'
  BY DEF IInv, TypeOK, RunTypeOK, Owned, Stage, GiveUp, Leave, Proceed, End, Fault, Goto, Quiet, diskVars
<1> QED
  BY <1>2, <1>3, <1>4, <1>5, <1>6, <1>7 DEF IInv, TypeOK

LEMMA WriteReceiptIInv == ASSUME IInv, WriteReceipt PROVE IInv'
<1>2. DiskTypeOK' /\ Shaped' /\ LoneEviction'
  <2>1. PICK f \in at, r \in {"none", "torn", "full"} :
            /\ Restage(f, [partial[f] EXCEPT !.receipt = r])
            /\ wounded' = wounded \/ Damage(f, TRUE)
    BY DEF WriteReceipt
  <2>2. f \in Files /\ partial[f] \in Dirs
    BY <2>1 DEF IInv, TypeOK, DiskTypeOK, RunTypeOK
  <2>3. partial[f].there /\ Blank(partial[f]) /\ ~entry[f].there
    BY <2>1, <2>2 DEF IInv, Shaped, AtWork, WriteReceipt
  <2>4. [partial[f] EXCEPT !.receipt = r] \in Dirs
    BY <2>2 DEF Dirs, Documents, Bodies
  <2>5. Staged([partial[f] EXCEPT !.receipt = r])
    BY <2>2, <2>3 DEF Staged, Blank, Dirs
  <2>6. /\ wounded' \in [Files -> SUBSET Wounds]
        /\ \A g \in Files : wounded[g] \subseteq wounded'[g]
    BY <2>1, <2>2, Damaged DEF IInv, TypeOK, DiskTypeOK
  <2>7. UNCHANGED <<marker, entry, usable, evicting>>
    BY DEF WriteReceipt
  <2> QED
    BY <2>1, <2>2, <2>3, <2>4, <2>5, <2>6, <2>7, Restaging
<1>3. RunTypeOK'
  <2>1. pc' \in Steps /\ verdict' \in Verdicts /\ pass' \in 1..3
    BY DEF IInv, TypeOK, RunTypeOK, WriteReceipt, GiveUp, Leave, Proceed, End, Fault, Goto, Steps, Verdicts
  <2>2. /\ selected' \in SUBSET Files /\ todo' \in SUBSET Files
        /\ pending' \in SUBSET Files /\ failures' \in SUBSET Files
    BY DEF IInv, TypeOK, RunTypeOK, WriteReceipt, GiveUp, Leave, Proceed, End, Fault, Goto
  <2>3. at' \in SUBSET Files /\ attempted' \in SUBSET Files
    BY DEF IInv, TypeOK, RunTypeOK, WriteReceipt, GiveUp, Leave, Proceed, End, Fault, Goto
  <2>4. remaining' \in SUBSET (0..MaxQuota)
    BY DEF IInv, TypeOK, RunTypeOK, WriteReceipt, GiveUp, Leave, Proceed, End, Fault, Goto
  <2>5. posts' \in [Files -> Nat] /\ faults' \in Nat
    <3>1. posts' = posts /\ (faults' = faults \/ faults' = faults + 1)
      BY DEF WriteReceipt, Fault
    <3> QED
      BY <3>1 DEF IInv, TypeOK, RunTypeOK
  <2>6. charged' \in SUBSET Files /\ warned' \in SUBSET Files
    BY DEF IInv, TypeOK, RunTypeOK, WriteReceipt, Fault, history
  <2> QED
    BY <2>1, <2>2, <2>3, <2>4, <2>5, <2>6 DEF RunTypeOK
<1>4. LoneWork'
  BY DEF IInv, TypeOK, RunTypeOK, LoneWork, WriteReceipt, GiveUp, Leave, Proceed, End, Fault, Goto
<1>5. Attempts'
  BY DEF IInv, TypeOK, RunTypeOK, Attempts, AtWork, WriteReceipt, GiveUp, Leave, Proceed, End, Fault, Goto, history
<1>6. AtWork'
  <2>1. CASE pc' # "body"
    BY <2>1 DEF AtWork, WriteReceipt, GiveUp, Leave, Proceed, End, Goto
  <2>2. CASE pc' = "body"
    <3>1. PICK f \in at : /\ Restage(f, [partial[f] EXCEPT !.receipt = "full"])
                          /\ at' = at /\ posts' = posts
      BY <2>2 DEF WriteReceipt, GiveUp, Leave, Proceed, End, Goto
    <3>2. f \in Files /\ partial[f] \in Dirs /\ at = {f}
      BY <3>1 DEF IInv, TypeOK, DiskTypeOK, RunTypeOK, LoneWork
    <3>3. partial'[f] = [partial[f] EXCEPT !.receipt = "full"]
      BY <3>1, <3>2 DEF IInv, TypeOK, DiskTypeOK, Restage
    <3> QED
      BY <2>2, <3>1, <3>2, <3>3 DEF IInv, AtWork, Blank, Dirs, WriteReceipt
  <2> QED
    BY <2>1, <2>2
<1>7. Owned'
  BY DEF IInv, TypeOK, RunTypeOK, Owned, WriteReceipt, GiveUp, Leave, Proceed, End, Fault, Goto, Quiet, diskVars
<1> QED
  BY <1>2, <1>3, <1>4, <1>5, <1>6, <1>7 DEF IInv, TypeOK

LEMMA WriteBodyIInv == ASSUME IInv, WriteBody PROVE IInv'
<1>2. DiskTypeOK' /\ Shaped' /\ LoneEviction'
  <2>1. PICK f \in at, b \in Bodies :
            /\ Restage(f, [partial[f] EXCEPT !.body = b])
            /\ wounded' = wounded \/ \E torn \in BOOLEAN : Damage(f, torn)
    BY DEF WriteBody, Bodies
  <2>2. f \in Files /\ partial[f] \in Dirs
    BY <2>1 DEF IInv, TypeOK, DiskTypeOK, RunTypeOK
  <2>3. /\ partial[f].there /\ ~entry[f].there
        /\ partial[f].receipt = "full" /\ partial[f].prov = "none"
    BY <2>1, <2>2 DEF IInv, Shaped, AtWork, WriteBody
  <2>4. [partial[f] EXCEPT !.body = b] \in Dirs
    BY <2>2 DEF Dirs
  <2>5. Staged([partial[f] EXCEPT !.body = b])
    BY <2>2, <2>3 DEF Staged, Complete, Dirs, Bodies
  <2>6. /\ wounded' \in [Files -> SUBSET Wounds]
        /\ \A g \in Files : wounded[g] \subseteq wounded'[g]
    BY <2>1, <2>2, Damaged DEF IInv, TypeOK, DiskTypeOK
  <2>7. UNCHANGED <<marker, entry, usable, evicting>>
    BY DEF WriteBody
  <2> QED
    BY <2>1, <2>2, <2>3, <2>4, <2>5, <2>6, <2>7, Restaging
<1>3. RunTypeOK'
  <2>1. pc' \in Steps /\ verdict' \in Verdicts /\ pass' \in 1..3
    BY DEF IInv, TypeOK, RunTypeOK, WriteBody, GiveUp, Leave, Proceed, End, Fault, Goto, Steps, Verdicts
  <2>2. /\ selected' \in SUBSET Files /\ todo' \in SUBSET Files
        /\ pending' \in SUBSET Files /\ failures' \in SUBSET Files
    BY DEF IInv, TypeOK, RunTypeOK, WriteBody, GiveUp, Leave, Proceed, End, Fault, Goto
  <2>3. at' \in SUBSET Files /\ attempted' \in SUBSET Files
    BY DEF IInv, TypeOK, RunTypeOK, WriteBody, GiveUp, Leave, Proceed, End, Fault, Goto
  <2>4. remaining' \in SUBSET (0..MaxQuota)
    BY DEF IInv, TypeOK, RunTypeOK, WriteBody, GiveUp, Leave, Proceed, End, Fault, Goto
  <2>5. posts' \in [Files -> Nat] /\ faults' \in Nat
    BY DEF IInv, TypeOK, RunTypeOK, WriteBody, Fault, history
  <2>6. charged' \in SUBSET Files /\ warned' \in SUBSET Files
    BY DEF IInv, TypeOK, RunTypeOK, WriteBody, Fault, history
  <2> QED
    BY <2>1, <2>2, <2>3, <2>4, <2>5, <2>6 DEF RunTypeOK
<1>4. LoneWork'
  BY DEF IInv, TypeOK, RunTypeOK, LoneWork, WriteBody, GiveUp, Leave, Proceed, End, Fault, Goto
<1>5. Attempts'
  BY DEF IInv, TypeOK, RunTypeOK, Attempts, AtWork, WriteBody, GiveUp, Leave, Proceed, End, Fault, Goto, history
<1>6. AtWork'
  <2>1. CASE pc' # "finish"
    BY <2>1 DEF AtWork, WriteBody, GiveUp, Leave, Proceed, End, Goto
  <2>2. CASE pc' = "finish"
    <3>1. PICK f \in at : /\ Restage(f, [partial[f] EXCEPT !.body = "full"])
                          /\ at' = at
      BY <2>2 DEF WriteBody, GiveUp, Leave, Proceed, End, Goto
    <3>2. f \in Files /\ partial[f] \in Dirs /\ at = {f}
      BY <3>1 DEF IInv, TypeOK, DiskTypeOK, RunTypeOK, LoneWork
    <3>3. partial'[f] = [partial[f] EXCEPT !.body = "full"]
      BY <3>1, <3>2 DEF IInv, TypeOK, DiskTypeOK, Restage
    <3> QED
      BY <2>2, <3>1, <3>2, <3>3 DEF IInv, AtWork, Dirs, WriteBody
  <2> QED
    BY <2>1, <2>2
<1>7. Owned'
  BY DEF IInv, TypeOK, RunTypeOK, Owned, WriteBody, GiveUp, Leave, Proceed, End, Fault, Goto, Quiet, diskVars
<1> QED
  BY <1>2, <1>3, <1>4, <1>5, <1>6, <1>7 DEF IInv, TypeOK

LEMMA FinishIInv == ASSUME IInv, Finish PROVE IInv'
<1>1. UNCHANGED diskVars
  BY DEF Finish
<1>2. DiskTypeOK' /\ Shaped' /\ LoneEviction'
  BY <1>1 DEF IInv, TypeOK, DiskTypeOK, Shaped, LoneEviction, diskVars
<1>3. RunTypeOK'
  <2>1. pc' \in Steps /\ verdict' \in Verdicts /\ pass' \in 1..3
    BY DEF IInv, TypeOK, RunTypeOK, Finish, GiveUp, Leave, Proceed, Checked, End, Goto, Steps, Verdicts
  <2>2. /\ selected' \in SUBSET Files /\ todo' \in SUBSET Files
        /\ pending' \in SUBSET Files /\ failures' \in SUBSET Files
    BY DEF IInv, TypeOK, RunTypeOK, Finish, GiveUp, Leave, Proceed, Checked, End, Goto
  <2>3. at' \in SUBSET Files /\ attempted' \in SUBSET Files
    BY DEF IInv, TypeOK, RunTypeOK, Finish, GiveUp, Leave, Proceed, Checked, End, Goto
  <2>4. remaining' \in SUBSET (0..MaxQuota)
    BY DEF IInv, TypeOK, RunTypeOK, Finish, GiveUp, Leave, Proceed, Checked, End, Goto
  <2>5. posts' \in [Files -> Nat] /\ faults' \in Nat
    BY DEF IInv, TypeOK, RunTypeOK, Finish, history
  <2>6. charged' \in SUBSET Files /\ warned' \in SUBSET Files
    BY DEF IInv, TypeOK, RunTypeOK, Finish, history
  <2> QED
    BY <2>1, <2>2, <2>3, <2>4, <2>5, <2>6 DEF RunTypeOK
<1>4. LoneWork'
  BY DEF IInv, TypeOK, RunTypeOK, LoneWork, Finish, GiveUp, Leave, Proceed, Checked, End, Goto
<1>5. Attempts'
  BY DEF IInv, TypeOK, RunTypeOK, Attempts, AtWork, Finish, GiveUp, Leave, Proceed, Checked, End, Goto, history
<1>6. AtWork'
  <2>1. CASE pc' \notin {"provenance", "unreceipt"}
    BY <2>1 DEF AtWork, Finish, GiveUp, Leave, Proceed, End, Goto, Checked
  <2>2. CASE pc' \in {"provenance", "unreceipt"}
    <3>1. PICK f \in at : Publishable(f) /\ pc' = Checked(f) /\ at' = at
      BY <2>2 DEF Finish, GiveUp, Leave, Proceed, End, Goto
    <3>2. f \in Files /\ at = {f} /\ partial[f].there /\ Staged(partial[f])
      BY <3>1 DEF IInv, TypeOK, RunTypeOK, LoneWork, AtWork, Shaped, Finish
    <3>3. Complete(partial[f]) \/ Whole(partial[f])
      BY <3>1, <3>2 DEF Publishable, Attested, Staged
    <3>4. usable[f]
      BY <3>1, <3>3 DEF Publishable, Parses, Complete, Whole
    <3>5. partial[f].prov # "none" => partial[f].prov = "full"
      BY <3>1, <3>3 DEF Publishable, Loads, Complete, Whole
    <3>6. UNCHANGED <<partial, usable>>
      BY DEF Finish, diskVars
    <3> QED
      BY <3>1, <3>2, <3>3, <3>4, <3>5, <3>6 DEF AtWork, Checked, Whole
  <2> QED
    BY <2>1, <2>2
<1>7. Owned'
  BY DEF IInv, TypeOK, RunTypeOK, Owned, Finish, GiveUp, Leave, Proceed, Checked, End, Goto, Quiet, diskVars
<1> QED
  BY <1>2, <1>3, <1>4, <1>5, <1>6, <1>7 DEF IInv, TypeOK

LEMMA WriteProvenanceIInv == ASSUME IInv, WriteProvenance PROVE IInv'
<1>2. DiskTypeOK' /\ Shaped' /\ LoneEviction'
  <2>1. PICK f \in at :
            \/ \E p \in {"none", "torn", partial[f].body} :
                  /\ Restage(f, [partial[f] EXCEPT !.prov = p])
                  /\ wounded' = wounded \/ \E torn \in BOOLEAN : Damage(f, torn)
            \/ partial' = partial /\ wounded' = wounded
    BY DEF WriteProvenance
  <2>2. f \in Files /\ partial[f] \in Dirs
    BY <2>1 DEF IInv, TypeOK, DiskTypeOK, RunTypeOK
  <2>3. Complete(partial[f]) /\ ~entry[f].there
    BY <2>1, <2>2 DEF IInv, Shaped, AtWork, WriteProvenance, Complete
  <2>4. UNCHANGED <<marker, entry, usable, evicting>>
    BY DEF WriteProvenance
  <2>5. CASE partial' = partial /\ wounded' = wounded
    BY <2>4, <2>5 DEF IInv, TypeOK, DiskTypeOK, Shaped, LoneEviction
  <2>6. ASSUME NEW p \in {"none", "torn", partial[f].body},
               Restage(f, [partial[f] EXCEPT !.prov = p]),
               wounded' = wounded \/ \E torn \in BOOLEAN : Damage(f, torn)
        PROVE  DiskTypeOK' /\ Shaped' /\ LoneEviction'
    <3>1. [partial[f] EXCEPT !.prov = p] \in Dirs
      <4>1. p \in Documents
        BY <2>2 DEF Dirs, Documents, Bodies
      <4> QED
        BY <2>2, <4>1 DEF Dirs
    <3>2. Staged([partial[f] EXCEPT !.prov = p])
      BY <2>2, <2>3 DEF Staged, Complete, Dirs
    <3>3. /\ wounded' \in [Files -> SUBSET Wounds]
          /\ \A g \in Files : wounded[g] \subseteq wounded'[g]
      BY <2>2, <2>6, Damaged DEF IInv, TypeOK, DiskTypeOK
    <3> QED
      BY <2>2, <2>3, <2>4, <2>6, <3>1, <3>2, <3>3, Restaging
  <2> QED
    BY <2>1, <2>5, <2>6
<1>3. RunTypeOK'
  <2>1. pc' \in Steps /\ verdict' \in Verdicts /\ pass' \in 1..3
    BY DEF IInv, TypeOK, RunTypeOK, WriteProvenance, GiveUp, Leave, Proceed, End, Fault, Goto, Steps, Verdicts
  <2>2. /\ selected' \in SUBSET Files /\ todo' \in SUBSET Files
        /\ pending' \in SUBSET Files /\ failures' \in SUBSET Files
    BY DEF IInv, TypeOK, RunTypeOK, WriteProvenance, GiveUp, Leave, Proceed, End, Fault, Goto
  <2>3. at' \in SUBSET Files /\ attempted' \in SUBSET Files
    BY DEF IInv, TypeOK, RunTypeOK, WriteProvenance, GiveUp, Leave, Proceed, End, Fault, Goto
  <2>4. remaining' \in SUBSET (0..MaxQuota)
    BY DEF IInv, TypeOK, RunTypeOK, WriteProvenance, GiveUp, Leave, Proceed, End, Fault, Goto
  <2>5. posts' \in [Files -> Nat] /\ faults' \in Nat
    BY DEF IInv, TypeOK, RunTypeOK, WriteProvenance, Fault, history
  <2>6. charged' \in SUBSET Files /\ warned' \in SUBSET Files
    BY DEF IInv, TypeOK, RunTypeOK, WriteProvenance, Fault, history
  <2> QED
    BY <2>1, <2>2, <2>3, <2>4, <2>5, <2>6 DEF RunTypeOK
<1>4. LoneWork'
  BY DEF IInv, TypeOK, RunTypeOK, LoneWork, WriteProvenance, GiveUp, Leave, Proceed, End, Fault, Goto
<1>5. Attempts'
  BY DEF IInv, TypeOK, RunTypeOK, Attempts, AtWork, WriteProvenance, GiveUp, Leave, Proceed, End, Fault, Goto, history
<1>6. AtWork'
  <2>1. CASE pc' # "unreceipt"
    BY <2>1 DEF AtWork, WriteProvenance, GiveUp, Leave, Proceed, End, Goto
  <2>2. CASE pc' = "unreceipt"
    <3>1. PICK f \in at :
              /\ Restage(f, [partial[f] EXCEPT !.prov = partial[f].body])
              /\ at' = at
      BY <2>2 DEF WriteProvenance, GiveUp, Leave, Proceed, End, Goto
    <3>2. f \in Files /\ partial[f] \in Dirs /\ at = {f}
      BY <3>1 DEF IInv, TypeOK, DiskTypeOK, RunTypeOK, LoneWork
    <3>3. partial'[f] = [partial[f] EXCEPT !.prov = partial[f].body]
      BY <3>1, <3>2 DEF IInv, TypeOK, DiskTypeOK, Restage
    <3>4. usable'[f] /\ Complete(partial[f])
      BY <3>1, <3>2 DEF IInv, AtWork, WriteProvenance
    <3> QED
      BY <2>2, <3>1, <3>2, <3>3, <3>4 DEF AtWork, Complete, Dirs
  <2> QED
    BY <2>1, <2>2
<1>7. Owned'
  BY DEF IInv, TypeOK, RunTypeOK, Owned, WriteProvenance, GiveUp, Leave, Proceed, End, Fault, Goto, Quiet, diskVars
<1> QED
  BY <1>2, <1>3, <1>4, <1>5, <1>6, <1>7 DEF IInv, TypeOK

LEMMA RemoveReceiptIInv == ASSUME IInv, RemoveReceipt PROVE IInv'
<1>2. DiskTypeOK' /\ Shaped' /\ LoneEviction'
  <2>1. PICK f \in at : \/ Restage(f, [partial[f] EXCEPT !.receipt = "none"])
                       \/ partial' = partial
    BY DEF RemoveReceipt
  <2>2. f \in Files /\ partial[f] \in Dirs
    BY <2>1 DEF IInv, TypeOK, DiskTypeOK, RunTypeOK
  <2>3. /\ partial[f].there /\ ~entry[f].there
        /\ partial[f].body = "full" /\ partial[f].prov = "full"
    BY <2>1, <2>2 DEF IInv, Shaped, AtWork, RemoveReceipt, Complete, Whole
  <2>4. UNCHANGED <<marker, entry, usable, evicting, wounded>>
    BY DEF RemoveReceipt
  <2>5. CASE partial' = partial
    BY <2>4, <2>5 DEF IInv, TypeOK, DiskTypeOK, Shaped, LoneEviction
  <2>6. CASE Restage(f, [partial[f] EXCEPT !.receipt = "none"])
    <3>1. [partial[f] EXCEPT !.receipt = "none"] \in Dirs
      BY <2>2 DEF Dirs, Documents, Bodies
    <3>2. Staged([partial[f] EXCEPT !.receipt = "none"])
      BY <2>2, <2>3 DEF Staged, Whole, Dirs
    <3> QED
      BY <2>2, <2>3, <2>4, <2>6, <3>1, <3>2, Restaging DEF IInv, TypeOK, DiskTypeOK
  <2> QED
    BY <2>1, <2>5, <2>6
<1>3. RunTypeOK'
  <2>1. pc' \in Steps /\ verdict' \in Verdicts /\ pass' \in 1..3
    BY DEF IInv, TypeOK, RunTypeOK, RemoveReceipt, GiveUp, Leave, Proceed, End, Fault, Goto, Steps, Verdicts
  <2>2. /\ selected' \in SUBSET Files /\ todo' \in SUBSET Files
        /\ pending' \in SUBSET Files /\ failures' \in SUBSET Files
    BY DEF IInv, TypeOK, RunTypeOK, RemoveReceipt, GiveUp, Leave, Proceed, End, Fault, Goto
  <2>3. at' \in SUBSET Files /\ attempted' \in SUBSET Files
    BY DEF IInv, TypeOK, RunTypeOK, RemoveReceipt, GiveUp, Leave, Proceed, End, Fault, Goto
  <2>4. remaining' \in SUBSET (0..MaxQuota)
    BY DEF IInv, TypeOK, RunTypeOK, RemoveReceipt, GiveUp, Leave, Proceed, End, Fault, Goto
  <2>5. posts' \in [Files -> Nat] /\ faults' \in Nat
    BY DEF IInv, TypeOK, RunTypeOK, RemoveReceipt, Fault, history
  <2>6. charged' \in SUBSET Files /\ warned' \in SUBSET Files
    BY DEF IInv, TypeOK, RunTypeOK, RemoveReceipt, Fault, history
  <2> QED
    BY <2>1, <2>2, <2>3, <2>4, <2>5, <2>6 DEF RunTypeOK
<1>4. LoneWork'
  BY DEF IInv, TypeOK, RunTypeOK, LoneWork, RemoveReceipt, GiveUp, Leave, Proceed, End, Fault, Goto
<1>5. Attempts'
  BY DEF IInv, TypeOK, RunTypeOK, Attempts, AtWork, RemoveReceipt, GiveUp, Leave, Proceed, End, Fault, Goto, history
<1>6. AtWork'
  <2>1. CASE pc' # "rename"
    BY <2>1 DEF AtWork, RemoveReceipt, GiveUp, Leave, Proceed, End, Goto
  <2>2. CASE pc' = "rename"
    <3>1. PICK f \in at : /\ Restage(f, [partial[f] EXCEPT !.receipt = "none"])
                          /\ at' = at
      BY <2>2 DEF RemoveReceipt, GiveUp, Leave, Proceed, End, Goto
    <3>2. f \in Files /\ partial[f] \in Dirs /\ at = {f}
      BY <3>1 DEF IInv, TypeOK, DiskTypeOK, RunTypeOK, LoneWork
    <3>3. partial'[f] = [partial[f] EXCEPT !.receipt = "none"]
      BY <3>1, <3>2 DEF IInv, TypeOK, DiskTypeOK, Restage
    <3>4. /\ usable'[f] /\ partial[f].there
          /\ partial[f].body = "full" /\ partial[f].prov = "full"
      BY <3>1, <3>2 DEF IInv, AtWork, RemoveReceipt, Complete, Whole
    <3> QED
      BY <2>2, <3>1, <3>2, <3>3, <3>4 DEF AtWork, Whole, Dirs
  <2> QED
    BY <2>1, <2>2
<1>7. Owned'
  BY DEF IInv, TypeOK, RunTypeOK, Owned, RemoveReceipt, GiveUp, Leave, Proceed, End, Fault, Goto, Quiet, diskVars
<1> QED
  BY <1>2, <1>3, <1>4, <1>5, <1>6, <1>7 DEF IInv, TypeOK

LEMMA PublishIInv == ASSUME IInv, Publish PROVE IInv'
<1>2. DiskTypeOK' /\ Shaped' /\ LoneEviction'
  <2>1. PICK f \in at : \/ /\ entry' = [entry EXCEPT ![f] = partial[f]]
                          /\ Restage(f, NoDir)
                       \/ UNCHANGED <<entry, partial>>
    BY DEF Publish
  <2>2. f \in Files /\ Whole(partial[f]) /\ usable[f] /\ ~entry[f].there
    BY <2>1 DEF IInv, TypeOK, RunTypeOK, Shaped, AtWork, Publish, Whole
  <2>3. UNCHANGED <<marker, usable, evicting, wounded>>
    BY DEF Publish
  <2>4. CASE UNCHANGED <<entry, partial>>
    BY <2>3, <2>4 DEF IInv, TypeOK, DiskTypeOK, Shaped, LoneEviction
  <2>5. CASE entry' = [entry EXCEPT ![f] = partial[f]] /\ Restage(f, NoDir)
    <3>1. NoDir \in Dirs /\ ~NoDir.there
      BY DEF NoDir, Dirs, Documents, Bodies
    <3>2. DiskTypeOK'
      BY <2>2, <2>3, <2>5, <3>1 DEF IInv, TypeOK, DiskTypeOK, Restage
    <3>3. /\ entry'[f] = partial[f] /\ ~partial'[f].there
          /\ \A g \in Files \ {f} : entry'[g] = entry[g] /\ partial'[g] = partial[g]
      BY <2>2, <2>5, <3>1 DEF IInv, TypeOK, DiskTypeOK, Restage
    <3>4. Shaped'
      <4>1. ~Remnant(partial[f])
        BY <2>2 DEF Whole, Remnant
      <4>2. Staged(partial'[f])
        BY <3>3 DEF Staged
      <4> QED
        BY <2>2, <2>3, <3>3, <4>1, <4>2 DEF IInv, Shaped
    <3>5. LoneEviction'
      <4>1. f \notin evicting
        BY <2>1 DEF IInv, Owned, Publish
      <4> QED
        BY <2>2, <2>3, <3>3, <4>1 DEF IInv, TypeOK, DiskTypeOK, LoneEviction
    <3> QED
      BY <3>2, <3>4, <3>5
  <2> QED
    BY <2>1, <2>4, <2>5
<1>3. RunTypeOK'
  <2>1. pc' \in Steps /\ verdict' \in Verdicts /\ pass' \in 1..3
    BY DEF IInv, TypeOK, RunTypeOK, Publish, GiveUp, Leave, Proceed, End, Fault, Goto, Steps, Verdicts
  <2>2. /\ selected' \in SUBSET Files /\ todo' \in SUBSET Files
        /\ pending' \in SUBSET Files /\ failures' \in SUBSET Files
    BY DEF IInv, TypeOK, RunTypeOK, Publish, GiveUp, Leave, Proceed, End, Fault, Goto
  <2>3. at' \in SUBSET Files /\ attempted' \in SUBSET Files
    BY DEF IInv, TypeOK, RunTypeOK, Publish, GiveUp, Leave, Proceed, End, Fault, Goto
  <2>4. remaining' \in SUBSET (0..MaxQuota)
    BY DEF IInv, TypeOK, RunTypeOK, Publish, GiveUp, Leave, Proceed, End, Fault, Goto
  <2>5. posts' \in [Files -> Nat] /\ faults' \in Nat
    BY DEF IInv, TypeOK, RunTypeOK, Publish, Fault, history
  <2>6. charged' \in SUBSET Files /\ warned' \in SUBSET Files
    BY DEF IInv, TypeOK, RunTypeOK, Publish, Fault, history
  <2> QED
    BY <2>1, <2>2, <2>3, <2>4, <2>5, <2>6 DEF RunTypeOK
<1>4. LoneWork'
  BY DEF IInv, TypeOK, RunTypeOK, LoneWork, Publish, GiveUp, Leave, Proceed, End, Fault, Goto
<1>5. Attempts'
  BY DEF IInv, TypeOK, RunTypeOK, Attempts, AtWork, Publish, GiveUp, Leave, Proceed, End, Fault, Goto, history
<1>6. AtWork'
  BY DEF IInv, TypeOK, RunTypeOK, LoneWork, Attempts, AtWork, Publish, GiveUp, Leave, Proceed, End, Fault, Goto, diskVars, history
<1>7. Owned'
  BY DEF IInv, TypeOK, RunTypeOK, Owned, Publish, GiveUp, Leave, Proceed, End, Fault, Goto, Quiet, diskVars
<1> QED
  BY <1>2, <1>3, <1>4, <1>5, <1>6, <1>7 DEF IInv, TypeOK

LEMMA ReferencesIInv == ASSUME IInv, References PROVE IInv'
<1>1. UNCHANGED diskVars
  BY DEF References
<1>2. DiskTypeOK' /\ Shaped' /\ LoneEviction'
  BY <1>1 DEF IInv, TypeOK, DiskTypeOK, Shaped, LoneEviction, diskVars
<1>3. RunTypeOK'
  <2>1. pc' \in Steps /\ verdict' \in Verdicts /\ pass' \in 1..3
    BY DEF IInv, TypeOK, RunTypeOK, References, End, Goto, Steps, Verdicts
  <2>2. /\ selected' \in SUBSET Files /\ todo' \in SUBSET Files
        /\ pending' \in SUBSET Files /\ failures' \in SUBSET Files
    BY DEF IInv, TypeOK, RunTypeOK, References, End, Goto
  <2>3. at' \in SUBSET Files /\ attempted' \in SUBSET Files
    BY DEF IInv, TypeOK, RunTypeOK, References, End, Goto
  <2>4. remaining' \in SUBSET (0..MaxQuota)
    BY DEF IInv, TypeOK, RunTypeOK, References, End, Goto
  <2>5. posts' \in [Files -> Nat] /\ faults' \in Nat
    BY DEF IInv, TypeOK, RunTypeOK, References, history
  <2>6. charged' \in SUBSET Files /\ warned' \in SUBSET Files
    BY DEF IInv, TypeOK, RunTypeOK, References, history
  <2> QED
    BY <2>1, <2>2, <2>3, <2>4, <2>5, <2>6 DEF RunTypeOK
<1>4. LoneWork'
  BY DEF IInv, TypeOK, RunTypeOK, LoneWork, References, End, Goto
<1>5. Attempts'
  BY DEF IInv, TypeOK, RunTypeOK, Attempts, AtWork, References, End, Goto, history
<1>6. AtWork'
  BY DEF IInv, TypeOK, RunTypeOK, LoneWork, Attempts, AtWork, References, End, Goto, diskVars, history
<1>7. Owned'
  BY DEF IInv, TypeOK, RunTypeOK, Owned, References, End, Goto, Quiet, diskVars
<1> QED
  BY <1>2, <1>3, <1>4, <1>5, <1>6, <1>7 DEF IInv, TypeOK

LEMMA DieIInv == ASSUME IInv, Die PROVE IInv'
<1>2. DiskTypeOK' /\ Shaped' /\ LoneEviction'
  <2>1. UNCHANGED <<marker, partial, entry, usable, evicting>>
    BY DEF Die
  <2>2. wounded' = wounded \/ \E f \in at : Damage(f, TRUE)
    BY DEF Die
  <2>3. /\ wounded' \in [Files -> SUBSET Wounds]
        /\ \A g \in Files : wounded[g] \subseteq wounded'[g]
    BY <2>2, Damaged DEF IInv, TypeOK, DiskTypeOK, RunTypeOK
  <2> QED
    BY <2>1, <2>3 DEF IInv, TypeOK, DiskTypeOK, Shaped, LoneEviction
<1>3. RunTypeOK'
  <2>1. pc' \in Steps /\ verdict' \in Verdicts /\ pass' \in 1..3
    BY DEF IInv, TypeOK, RunTypeOK, Die, End, Fault, Goto, Steps, Verdicts
  <2>2. /\ selected' \in SUBSET Files /\ todo' \in SUBSET Files
        /\ pending' \in SUBSET Files /\ failures' \in SUBSET Files
    BY DEF IInv, TypeOK, RunTypeOK, Die, End, Fault, Goto
  <2>3. at' \in SUBSET Files /\ attempted' \in SUBSET Files
    BY DEF IInv, TypeOK, RunTypeOK, Die, End, Fault, Goto
  <2>4. remaining' \in SUBSET (0..MaxQuota)
    BY DEF IInv, TypeOK, RunTypeOK, Die, End, Fault, Goto
  <2>5. posts' \in [Files -> Nat] /\ faults' \in Nat
    BY DEF IInv, TypeOK, RunTypeOK, Die, Fault, history
  <2>6. charged' \in SUBSET Files /\ warned' \in SUBSET Files
    BY DEF IInv, TypeOK, RunTypeOK, Die, Fault, history
  <2> QED
    BY <2>1, <2>2, <2>3, <2>4, <2>5, <2>6 DEF RunTypeOK
<1>4. LoneWork'
  BY DEF IInv, TypeOK, RunTypeOK, LoneWork, Die, End, Fault, Goto
<1>5. Attempts'
  BY DEF IInv, TypeOK, RunTypeOK, Attempts, AtWork, Die, End, Fault, Goto, history
<1>6. AtWork'
  BY DEF IInv, TypeOK, RunTypeOK, LoneWork, Attempts, AtWork, Die, End, Fault, Goto, diskVars, history
<1>7. Owned'
  BY DEF IInv, TypeOK, RunTypeOK, Owned, Die, End, Fault, Goto, Quiet, diskVars
<1> QED
  BY <1>2, <1>3, <1>4, <1>5, <1>6, <1>7 DEF IInv, TypeOK
(* The evictions of other processes.                                         *)
LEMMA Undisturbed ==
    ASSUME IInv, UNCHANGED <<runVars, posts, charged, warned>>,
           faults' = faults \/ Fault
    PROVE  RunTypeOK' /\ LoneWork' /\ Attempts'
<1>1. RunTypeOK'
  BY DEF IInv, TypeOK, RunTypeOK, Fault, runVars
<1>2. LoneWork' /\ Attempts'
  BY DEF IInv, LoneWork, Attempts, runVars
<1> QED
  BY <1>1, <1>2

LEMMA EvictIInv == ASSUME IInv, NEW f \in Files, Evict(f) PROVE IInv'
<1>1. RunTypeOK' /\ LoneWork' /\ Attempts'
  BY Undisturbed DEF Evict
<1>2. /\ UNCHANGED <<marker, partial, usable, wounded, pc, at, todo, pending,
                     selected, attempted, posts>>
      /\ evicting = {} /\ evicting' = {f}
      /\ entry' = [entry EXCEPT ![f].body = "none"]
      /\ entry[f].there /\ Loads(f, entry[f])
      /\ pc # "off" => f \notin selected
  BY DEF Evict, EvictBegin, Quiet, Inventoried, Intact, Protected, runVars
<1>3. entry[f] \in Dirs /\ entry'[f] = [entry[f] EXCEPT !.body = "none"]
  BY <1>2 DEF IInv, TypeOK, DiskTypeOK
<1>4. \A g \in Files \ {f} : entry'[g] = entry[g]
  BY <1>2 DEF IInv, TypeOK, DiskTypeOK
<1>5. Whole(entry[f]) /\ Remnant(entry'[f]) /\ ~Whole(entry'[f])
  BY <1>2, <1>3 DEF IInv, Shaped, Whole, Remnant, Loads, Dirs
<1>6. entry' \in [Files -> Dirs]
  BY <1>2, <1>3 DEF IInv, TypeOK, DiskTypeOK, Dirs, Bodies
<1>7. DiskTypeOK'
  BY <1>2, <1>6 DEF IInv, TypeOK, DiskTypeOK
<1>8. Shaped' /\ LoneEviction'
  BY <1>2, <1>4, <1>5 DEF IInv, Shaped, LoneEviction, Whole
<1>9. AtWork'
  BY <1>2, <1>3, <1>4 DEF IInv, AtWork, Bare, TypeOK, RunTypeOK, Dirs
<1>10. Owned'
  BY <1>2 DEF IInv, Owned
<1> QED
  BY <1>1, <1>7, <1>8, <1>9, <1>10 DEF IInv, TypeOK

LEMMA EvictOnIInv == ASSUME IInv, NEW f \in Files, EvictOn(f) PROVE IInv'
<1>1. RunTypeOK' /\ LoneWork' /\ Attempts'
  BY Undisturbed DEF EvictOn, history
<1>2. /\ UNCHANGED <<partial, usable, wounded, pc, at, todo, pending, selected,
                     attempted, posts>>
      /\ f \in evicting /\ evicting' \subseteq evicting
  BY DEF EvictOn, EvictStep, EvictProvenance, EvictDirectory, EvictMarker, runVars,
         history
<1>3. entry[f] \in Dirs /\ ~Whole(entry[f])
  BY <1>2 DEF IInv, TypeOK, DiskTypeOK, LoneEviction
<1>4. \/ evicting' = {f}
      \/ evicting' = {} /\ ~entry'[f].there
  <2>1. evicting = {f}
    BY <1>2 DEF IInv, LoneEviction
  <2>2. \/ evicting' = evicting
        \/ evicting' = {} /\ entry' = entry /\ ~entry[f].there
    BY DEF EvictOn, EvictStep, EvictProvenance, EvictDirectory, EvictMarker
  <2> QED
    BY <2>1, <2>2
<1>5. /\ \A g \in Files \ {f} : entry'[g] = entry[g]
      /\ \/ entry'[f] = entry[f]
         \/ entry'[f] = [entry[f] EXCEPT !.prov = "none"]
         \/ entry'[f] = NoDir
  BY DEF IInv, TypeOK, DiskTypeOK, EvictOn, EvictStep, EvictProvenance,
         EvictDirectory, EvictMarker
<1>6. entry' \in [Files -> Dirs] /\ marker' \in [Files -> Marks]
  <2>1. entry' \in [Files -> Dirs]
    <3>1. entry'[f] \in Dirs
      <4>1. [entry[f] EXCEPT !.prov = "none"] \in Dirs
        BY <1>3 DEF Dirs, Documents, Bodies
      <4>2. NoDir \in Dirs
        BY DEF Dirs, NoDir, Documents, Bodies
      <4> QED
        BY <1>3, <1>5, <4>1, <4>2
    <3> QED
      BY <3>1 DEF IInv, TypeOK, DiskTypeOK, EvictOn, EvictStep, EvictProvenance,
             EvictDirectory, EvictMarker
  <2>2. marker' \in [Files -> Marks]
    BY DEF IInv, TypeOK, DiskTypeOK, EvictOn, EvictStep, EvictProvenance,
           EvictDirectory, EvictMarker, Marks
  <2> QED
    BY <2>1, <2>2
<1>7. DiskTypeOK'
  BY <1>2, <1>6 DEF IInv, TypeOK, DiskTypeOK
<1>8. /\ ~Whole(entry'[f])
      /\ entry'[f].there => entry[f].there /\ Remnant(entry'[f])
  BY <1>3, <1>5 DEF IInv, Shaped, Whole, Remnant, Dirs, NoDir
<1>9. Shaped' /\ LoneEviction'
  <2>1. evicting = {f}
    BY <1>2 DEF IInv, LoneEviction
  <2>2. \A g \in Files : Remnant(entry'[g]) =>
            g \in evicting' \/ "eviction" \in wounded'[g]
    BY <2>1, <1>2, <1>4, <1>5 DEF IInv, Shaped, Remnant
  <2>3. Shaped'
    BY <2>2, <1>2, <1>5, <1>8 DEF IInv, Shaped
  <2> QED
    BY <2>3, <1>4, <1>8 DEF LoneEviction
<1>10. AtWork'
  BY <1>2, <1>5, <1>8 DEF IInv, AtWork, Bare, TypeOK, RunTypeOK
<1>11. Owned'
  BY <1>2 DEF IInv, Owned
<1> QED
  BY <1>1, <1>7, <1>9, <1>10, <1>11 DEF IInv, TypeOK

LEMMA EvictDiesIInv == ASSUME IInv, NEW f \in Files, EvictDies(f) PROVE IInv'
<1>1. RunTypeOK' /\ LoneWork' /\ Attempts'
  BY Undisturbed DEF EvictDies
<1>2. /\ UNCHANGED <<marker, partial, entry, usable, pc, at, todo, pending,
                     selected, attempted, posts>>
      /\ f \in evicting /\ evicting' = {}
      /\ wounded' = IF entry[f].there
                    THEN [wounded EXCEPT ![f] = @ \union {"eviction"}]
                    ELSE wounded
  BY DEF EvictDies, EvictStops, runVars
<1>3. DiskTypeOK'
  BY <1>2 DEF IInv, TypeOK, DiskTypeOK, Wounds
<1>4. Shaped'
  <2>1. \A g \in Files : g # f => g \notin evicting
    BY <1>2 DEF IInv, LoneEviction
  <2>2. \A g \in Files : wounded[g] \subseteq wounded'[g]
    BY <1>2 DEF IInv, TypeOK, DiskTypeOK
  <2>3. entry[f].there => "eviction" \in wounded'[f]
    BY <1>2 DEF IInv, TypeOK, DiskTypeOK
  <2> QED
    BY <1>2, <2>1, <2>2, <2>3 DEF IInv, Shaped, Remnant
<1>5. LoneEviction' /\ Owned'
  BY <1>2 DEF IInv, LoneEviction, Owned
<1>6. AtWork'
  BY <1>2 DEF IInv, AtWork, Bare
<1> QED
  BY <1>1, <1>3, <1>4, <1>5, <1>6 DEF IInv, TypeOK

LEMMA StutterIInv == ASSUME IInv, UNCHANGED vars PROVE IInv'
<1>1. TypeOK'
  BY DEF IInv, TypeOK, DiskTypeOK, RunTypeOK, vars, diskVars, runVars, history
<1>2. Shaped' /\ LoneEviction'
  BY DEF IInv, Shaped, LoneEviction, vars, diskVars
<1>3. LoneWork' /\ AtWork' /\ Owned' /\ Attempts'
  BY DEF IInv, LoneWork, AtWork, Bare, Owned, Attempts, vars, diskVars, runVars,
         history
<1> QED
  BY <1>1, <1>2, <1>3 DEF IInv

LEMMA NextIInv == IInv /\ [Next]_vars => IInv'
<1> SUFFICES ASSUME IInv, [Next]_vars PROVE IInv'
  OBVIOUS
<1>1. CASE Start
  BY <1>1, BeginIInv DEF Start
<1>2. CASE Running
  BY <1>2, OpenIInv, RecoverIInv, FirstPassDoneIInv, SecondPassDoneIInv,
     PrepareIInv, QuotaIInv, LoopIInv, ReserveIInv, RemoveOldMarkerIInv,
     WriteMarkerIInv, PostIInv, FetchIInv, StageIInv, WriteReceiptIInv,
     WriteBodyIInv, FinishIInv, WriteProvenanceIInv, RemoveReceiptIInv,
     PublishIInv, ReferencesIInv DEF Running
<1>3. CASE Die
  BY <1>3, DieIInv
<1>4. CASE Evicting
  BY <1>4, EvictOnIInv DEF Evicting
<1>5. CASE \E f \in Files : Evict(f) \/ EvictDies(f)
  BY <1>5, EvictIInv, EvictDiesIInv
<1>6. CASE UNCHANGED vars
  BY <1>6, StutterIInv
<1> QED
  BY <1>1, <1>2, <1>3, <1>4, <1>5, <1>6 DEF Next

LEMMA Invariance == Spec => []IInv
  BY InitIInv, NextIInv, PTL DEF Spec

(* The variables keep their types.                                           *)
THEOREM AcquisitionTyped == Spec => []TypeOK
<1>1. IInv => TypeOK
  BY DEF IInv
<1> QED
  BY <1>1, Invariance, PTL

(* A published entry is the whole response with its provenance, or what an   *)
(* eviction has left of it: nothing of an interrupted download shows.        *)
THEOREM ReferencesWhole == Spec => []PublishedWhole
<1>1. IInv => PublishedWhole
  <2> SUFFICES ASSUME IInv, NEW f \in Files, entry[f].there
               PROVE  /\ entry[f].receipt = "none"
                      /\ entry[f].body # "prefix"
                      /\ \/ entry[f].body = "full" /\ entry[f].prov = "full"
                            /\ usable[f]
                         \/ f \in evicting
                         \/ "eviction" \in wounded[f]
    BY DEF PublishedWhole
  <2>1. CASE Whole(entry[f])
    BY <2>1 DEF IInv, Shaped, Whole
  <2>2. CASE Remnant(entry[f])
    BY <2>2 DEF IInv, Shaped, Remnant
  <2> QED
    BY <2>1, <2>2 DEF IInv, Shaped
<1> QED
  BY <1>1, Invariance, PTL

-----------------------------------------------------------------------------
(* The refinement: every step is one of ReferenceArchive or a stutter.       *)
Held == [f \in Files |-> Holding(f)]

Archived == Archive!Next \/ UNCHANGED <<Held, posts>>

LEMMA Unmoved ==
    ASSUME UNCHANGED <<entry, partial>> PROVE Held' = Held
  BY DEF Held, Holding, Responded

LEMMA Moved ==
    ASSUME NEW f \in Files, NEW h,
           \A g \in Files \ {f} : entry'[g] = entry[g] /\ partial'[g] = partial[g],
           Holding(f)' = h
    PROVE  Held' = [Held EXCEPT ![f] = h]
<1>1. \A g \in Files \ {f} : Holding(g)' = Holding(g)
  BY DEF Holding, Responded
<1> QED
  BY <1>1 DEF Held

LEMMA Becoming ==
    ASSUME NEW f \in Files, NEW h,
           \A g \in Files \ {f} : entry'[g] = entry[g] /\ partial'[g] = partial[g],
           Holding(f)' = h, posts' = posts
    PROVE  Archive!Become(f, Holding(f), h)
  BY Moved DEF Archive!Become, Held

LEMMA Keeping ==
    ASSUME NEW f \in Files,
           \A g \in Files \ {f} : entry'[g] = entry[g] /\ partial'[g] = partial[g],
           Holding(f)' = Holding(f), posts' = posts
    PROVE  Archived
<1>1. Held' = [Held EXCEPT ![f] = Holding(f)]
  BY Moved
<1>2. Held' = Held
  BY <1>1 DEF Held
<1> QED
  BY <1>2 DEF Archived

LEMMA BeginArchived == ASSUME NEW S, Begin(S) PROVE Archived
<1>1. Held' = Held
  BY Unmoved DEF Begin, diskVars
<1>2. Archive!Invoke
  BY <1>1 DEF Archive!Invoke, Held, Begin
<1> QED
  BY <1>2 DEF Archived, Archive!Next

LEMMA PostArchived == ASSUME IInv, Post PROVE Archived
<1>1. Held' = Held
  BY Unmoved DEF Post, diskVars
<1>2. PICK f \in at : posts' = [posts EXCEPT ![f] = @ + 1]
  BY DEF Post
<1>3. f \in Files /\ posts[f] = 0 /\ Bare(f)
  BY <1>2 DEF IInv, TypeOK, RunTypeOK, AtWork, Post
<1>4. Holding(f) = "nothing"
  BY <1>3 DEF Holding, Bare
<1>5. posts' = [posts EXCEPT ![f] = 1]
  BY <1>2, <1>3
<1>6. Archive!Pay(f)
  BY <1>1, <1>3, <1>4, <1>5 DEF Archive!Pay, Held
<1> QED
  BY <1>3, <1>6 DEF Archived, Archive!Next

LEMMA StageArchived == ASSUME IInv, Stage PROVE Archived
<1>1. PICK f \in at : \/ Restage(f, EmptyDir) /\ Bare(f)
                      \/ partial' = partial
  BY DEF Stage, Bare
<1>2. entry' = entry /\ posts' = posts
  BY DEF Stage
<1>3. CASE partial' = partial
  BY <1>2, <1>3, Unmoved DEF Archived
<1>4. CASE Restage(f, EmptyDir) /\ Bare(f)
  <2>1. f \in Files /\ posts[f] = 1
    BY <1>1 DEF IInv, TypeOK, RunTypeOK, AtWork, Stage
  <2>2. /\ partial'[f] = EmptyDir
        /\ \A g \in Files \ {f} : partial'[g] = partial[g]
    BY <1>4, <2>1 DEF IInv, TypeOK, DiskTypeOK, Restage
  <2>3. Holding(f) = "nothing" /\ Holding(f)' = "fragment"
    BY <1>2, <1>4, <2>2 DEF Holding, Responded, Bare, EmptyDir, NoDir
  <2>4. Archive!Become(f, "nothing", "fragment")
    BY <1>2, <2>1, <2>2, <2>3, Becoming
  <2> QED
    BY <2>1, <2>4 DEF Archived, Archive!Next, Archive!Receive
<1> QED
  BY <1>1, <1>3, <1>4

LEMMA WriteReceiptArchived == ASSUME IInv, WriteReceipt PROVE Archived
<1>1. PICK f \in at, r \in Documents : Restage(f, [partial[f] EXCEPT !.receipt = r])
  BY DEF WriteReceipt, Documents, Bodies
<1>2. f \in Files /\ partial[f] \in Dirs /\ entry' = entry /\ posts' = posts
  BY <1>1 DEF IInv, TypeOK, DiskTypeOK, RunTypeOK, WriteReceipt
<1>3. /\ partial'[f] = [partial[f] EXCEPT !.receipt = r]
      /\ \A g \in Files \ {f} : partial'[g] = partial[g]
  BY <1>1, <1>2 DEF IInv, TypeOK, DiskTypeOK, Restage
<1>4. partial[f].body = "none" /\ partial[f].there /\ ~entry[f].there
  BY <1>1, <1>2 DEF IInv, Shaped, AtWork, Blank, WriteReceipt
<1>5. Holding(f) = "fragment" /\ Holding(f)' = "fragment"
  BY <1>2, <1>3, <1>4 DEF Holding, Responded, Dirs
<1> QED
  BY <1>2, <1>3, <1>5, Keeping

LEMMA WriteBodyArchived == ASSUME IInv, WriteBody PROVE Archived
<1>1. PICK f \in at, b \in Bodies : Restage(f, [partial[f] EXCEPT !.body = b])
  BY DEF WriteBody, Bodies
<1>2. /\ f \in Files /\ partial[f] \in Dirs
      /\ entry' = entry /\ posts' = posts /\ posts[f] = 1
  BY <1>1 DEF IInv, TypeOK, DiskTypeOK, RunTypeOK, AtWork, WriteBody
<1>3. /\ partial'[f] = [partial[f] EXCEPT !.body = b]
      /\ \A g \in Files \ {f} : partial'[g] = partial[g]
  BY <1>1, <1>2 DEF IInv, TypeOK, DiskTypeOK, Restage
<1>4. /\ partial[f].body = "none" /\ partial[f].receipt = "full"
      /\ partial[f].there /\ ~entry[f].there
  BY <1>1, <1>2 DEF IInv, Shaped, AtWork, WriteBody
<1>5. /\ Holding(f) = "fragment"
      /\ Holding(f)' = IF b = "full" THEN "response" ELSE "fragment"
  BY <1>2, <1>3, <1>4 DEF Holding, Responded, Dirs
<1>6. CASE b # "full"
  BY <1>2, <1>3, <1>5, <1>6, Keeping
<1>7. CASE b = "full"
  <2>1. Archive!Become(f, "fragment", "response")
    BY <1>2, <1>3, <1>5, <1>7, Becoming
  <2> QED
    BY <1>2, <2>1 DEF Archived, Archive!Next, Archive!Receive
<1> QED
  BY <1>6, <1>7

LEMMA WriteProvenanceArchived == ASSUME IInv, WriteProvenance PROVE Archived
<1>1. PICK f \in at :
          \/ \E p \in Documents : Restage(f, [partial[f] EXCEPT !.prov = p])
          \/ partial' = partial
  <2>1. \A f \in at : partial[f].body \in Documents
    BY DEF IInv, TypeOK, DiskTypeOK, RunTypeOK, Dirs, Documents
  <2> QED
    BY <2>1 DEF WriteProvenance, Documents, Bodies
<1>2. f \in Files /\ partial[f] \in Dirs /\ entry' = entry /\ posts' = posts
  BY <1>1 DEF IInv, TypeOK, DiskTypeOK, RunTypeOK, WriteProvenance
<1>3. CASE partial' = partial
  BY <1>2, <1>3, Unmoved DEF Archived
<1>4. ASSUME NEW p \in Documents, Restage(f, [partial[f] EXCEPT !.prov = p])
      PROVE  Archived
  <2>1. /\ partial'[f] = [partial[f] EXCEPT !.prov = p]
        /\ \A g \in Files \ {f} : partial'[g] = partial[g]
    BY <1>2, <1>4 DEF IInv, TypeOK, DiskTypeOK, Restage
  <2>2. Complete(partial[f]) /\ ~entry[f].there
    BY <1>1, <1>2 DEF IInv, Shaped, AtWork, Complete, WriteProvenance
  <2>3. Holding(f) = "response" /\ Holding(f)' = "response"
    BY <1>2, <2>1, <2>2 DEF Holding, Responded, Complete, Dirs
  <2> QED
    BY <1>2, <2>1, <2>3, Keeping
<1> QED
  BY <1>1, <1>3, <1>4

LEMMA RemoveReceiptArchived == ASSUME IInv, RemoveReceipt PROVE Archived
<1>1. PICK f \in at : \/ Restage(f, [partial[f] EXCEPT !.receipt = "none"])
                      \/ partial' = partial
  BY DEF RemoveReceipt
<1>2. f \in Files /\ partial[f] \in Dirs /\ entry' = entry /\ posts' = posts
  BY <1>1 DEF IInv, TypeOK, DiskTypeOK, RunTypeOK, RemoveReceipt
<1>3. CASE partial' = partial
  BY <1>2, <1>3, Unmoved DEF Archived
<1>4. CASE Restage(f, [partial[f] EXCEPT !.receipt = "none"])
  <2>1. /\ partial'[f] = [partial[f] EXCEPT !.receipt = "none"]
        /\ \A g \in Files \ {f} : partial'[g] = partial[g]
    BY <1>2, <1>4 DEF IInv, TypeOK, DiskTypeOK, Restage
  <2>2. /\ partial[f].there /\ ~entry[f].there
        /\ partial[f].body = "full" /\ partial[f].prov = "full"
    BY <1>1, <1>2 DEF IInv, Shaped, AtWork, Complete, Whole, RemoveReceipt
  <2>3. Holding(f) = "response" /\ Holding(f)' = "response"
    BY <1>2, <2>1, <2>2 DEF Holding, Responded, Dirs
  <2> QED
    BY <1>2, <2>1, <2>3, Keeping
<1> QED
  BY <1>1, <1>3, <1>4

LEMMA PublishArchived == ASSUME IInv, Publish PROVE Archived
<1>1. PICK f \in at : \/ /\ entry' = [entry EXCEPT ![f] = partial[f]]
                         /\ Restage(f, NoDir)
                      \/ UNCHANGED <<entry, partial>>
  BY DEF Publish
<1>2. f \in Files /\ partial[f] \in Dirs /\ posts' = posts
  BY <1>1 DEF IInv, TypeOK, DiskTypeOK, RunTypeOK, Publish
<1>3. CASE UNCHANGED <<entry, partial>>
  BY <1>2, <1>3, Unmoved DEF Archived
<1>4. CASE entry' = [entry EXCEPT ![f] = partial[f]] /\ Restage(f, NoDir)
  <2>1. /\ entry'[f] = partial[f]
        /\ \A g \in Files \ {f} : entry'[g] = entry[g] /\ partial'[g] = partial[g]
    BY <1>2, <1>4 DEF IInv, TypeOK, DiskTypeOK, Restage
  <2>2. Whole(partial[f]) /\ ~entry[f].there
    BY <1>1, <1>2 DEF IInv, Shaped, AtWork, Whole, Publish
  <2>3. Holding(f) = "response" /\ Holding(f)' = "reference"
    BY <2>1, <2>2 DEF Holding, Responded, Whole
  <2>4. Archive!Become(f, "response", "reference")
    BY <1>2, <2>1, <2>3, Becoming
  <2> QED
    BY <1>2, <2>4 DEF Archived, Archive!Next, Archive!Publish
<1> QED
  BY <1>1, <1>3, <1>4

LEMMA EvictArchived == ASSUME IInv, NEW f \in Files, Evict(f) PROVE Archived
<1>1. /\ partial' = partial /\ posts' = posts
      /\ entry' = [entry EXCEPT ![f].body = "none"]
      /\ entry[f].there /\ Loads(f, entry[f])
  BY DEF Evict, EvictBegin, Inventoried, Intact
<1>2. /\ entry[f] \in Dirs /\ entry'[f] = [entry[f] EXCEPT !.body = "none"]
      /\ \A g \in Files \ {f} : entry'[g] = entry[g]
  BY <1>1 DEF IInv, TypeOK, DiskTypeOK
<1>3. Holding(f) = "reference" /\ Holding(f)' = "remnant"
  BY <1>1, <1>2 DEF Holding, Loads, Dirs
<1>4. Archive!Become(f, "reference", "remnant")
  BY <1>1, <1>2, <1>3, Becoming
<1> QED
  BY <1>4 DEF Archived, Archive!Next, Archive!Evict

LEMMA EvictOnArchived == ASSUME IInv, NEW f \in Files, EvictOn(f) PROVE Archived
<1>1. posts' = posts
  BY DEF EvictOn, history
<1>2. CASE EvictProvenance(f)
  <2>1. /\ partial' = partial /\ f \in evicting
        /\ entry' = [entry EXCEPT ![f].prov = "none"]
    BY <1>2 DEF EvictProvenance
  <2>2. /\ entry[f] \in Dirs /\ entry'[f] = [entry[f] EXCEPT !.prov = "none"]
        /\ \A g \in Files \ {f} : entry'[g] = entry[g]
    BY <2>1 DEF IInv, TypeOK, DiskTypeOK
  <2>3. Holding(f)' = Holding(f)
    BY <2>1, <2>2 DEF Holding, Responded, Dirs
  <2> QED
    BY <1>1, <2>1, <2>2, <2>3, Keeping
<1>3. CASE EvictDirectory(f)
  <2>1. /\ partial' = partial /\ f \in evicting /\ entry[f].there
        /\ entry' = [entry EXCEPT ![f] = NoDir]
    BY <1>3 DEF EvictDirectory
  <2>2. /\ entry'[f] = NoDir
        /\ \A g \in Files \ {f} : entry'[g] = entry[g]
    BY <2>1 DEF IInv, TypeOK, DiskTypeOK
  <2>3. ~partial[f].there /\ entry[f].body = "none"
    BY <2>1 DEF IInv, Shaped, LoneEviction, Remnant
  <2>4. Holding(f) = "remnant" /\ Holding(f)' = "nothing"
    BY <2>1, <2>2, <2>3 DEF Holding, NoDir
  <2>5. Archive!Become(f, "remnant", "nothing")
    BY <1>1, <2>1, <2>2, <2>4, Becoming
  <2> QED
    BY <2>5 DEF Archived, Archive!Next, Archive!Evict
<1>4. CASE EvictMarker(f)
  BY <1>1, <1>4, Unmoved DEF EvictMarker, Archived
<1> QED
  BY <1>2, <1>3, <1>4 DEF EvictOn, EvictStep

(* Each file goes through the life ReferenceArchive promises: it is paid for *)
(* only while nothing of it is held and once per invocation, a response that *)
(* arrived in full ends published, and only an eviction makes it go away.    *)
THEOREM ArchiveKept == Spec => LivesAsPromised
<1>1. Init => Archive!Init
  <2> SUFFICES ASSUME Init PROVE Archive!Init
    OBVIOUS
  <2>1. \A f \in Files : Holding(f) = "nothing"
    BY DEF Init, DiskInit, NoDir, Holding
  <2> QED
    BY <2>1 DEF Init, Archive!Init
<1>2. IInv /\ [Next]_vars => [Archive!Next]_<<Held, posts>>
  <2> SUFFICES ASSUME IInv, [Next]_vars PROVE Archived
    BY DEF Archived
  <2>1. ASSUME UNCHANGED <<entry, partial, posts>> PROVE Archived
    BY <2>1, Unmoved DEF Archived
  <2>2. CASE Start
    BY <2>2, BeginArchived DEF Start
  <2>3. CASE Running
    <3>1. CASE Open \/ Recover \/ FirstPassDone \/ SecondPassDone \/ Prepare
               \/ Quota \/ Loop \/ Reserve \/ Fetch \/ Finish \/ References
      BY <3>1, <2>1 DEF Open, Recover, FirstPassDone, SecondPassDone, Prepare,
             Quota, Loop, Reserve, Fetch, Finish, References, diskVars, history
    <3>2. CASE RemoveOldMarker \/ WriteMarker
      BY <3>2, <2>1 DEF RemoveOldMarker, WriteMarker
    <3> QED
      BY <2>3, <3>1, <3>2, PostArchived, StageArchived, WriteReceiptArchived,
         WriteBodyArchived, WriteProvenanceArchived, RemoveReceiptArchived,
         PublishArchived DEF Running
  <2>4. CASE Die
    BY <2>4, <2>1 DEF Die
  <2>5. CASE Evicting
    BY <2>5, EvictOnArchived DEF Evicting
  <2>6. ASSUME NEW f \in Files, Evict(f) \/ EvictDies(f) PROVE Archived
    BY <2>6, <2>1, EvictArchived DEF EvictDies, EvictStops
  <2>7. CASE UNCHANGED vars
    BY <2>7, <2>1 DEF vars, diskVars, history
  <2> QED
    BY <2>2, <2>3, <2>4, <2>5, <2>6, <2>7 DEF Next
<1> QED
  BY <1>1, <1>2, Invariance, PTL DEF Spec, LivesAsPromised, Archive!Spec, Held

-----------------------------------------------------------------------------
(* What covers a POST: a marker, and a counter that pays for all that is     *)
(* still to be fetched.                                                      *)
Buying == {"loop", "reserve", "unmark", "mark", "post"}
Funded == \A n \in remaining : Cardinality(todo) <= n
Paid == /\ IsFiniteSet(selected)
        /\ pc \in Buying => Funded
        /\ pc = "post" => \A f \in at : marker[f] = "whole"

LEMMA InitPaid == Init => Paid
BY FS_EmptySet DEF Init, Paid, Buying

(* Fewer files cost no more, and what is not lacking is enough.              *)
LEMMA Fewer ==
    ASSUME TypeOK, IsFiniteSet(selected), todo \subseteq selected, NEW n \in remaining
    PROVE  /\ n \in Nat /\ Cardinality(todo) \in Nat /\ Cardinality(todo \ at) \in Nat
           /\ Cardinality(todo) <= n => Cardinality(todo \ at) <= n
           /\ ~Lacks(n, todo \ at) => Cardinality(todo \ at) <= n
<1>1. n \in Nat
  BY DEF TypeOK, RunTypeOK
<1>2. IsFiniteSet(todo) /\ IsFiniteSet(todo \ at)
  BY FS_Subset
<1>3. Cardinality(todo) \in Nat /\ Cardinality(todo \ at) \in Nat /\ Cardinality(todo \ at) <= Cardinality(todo)
  BY <1>2, FS_CardinalityType, FS_Subset
<1> QED
  BY <1>1, <1>3 DEF Lacks

(* The quota is looked at again after every file.                            *)
LEMMA LeavePaid ==
    ASSUME IInv, Paid, pc # "off", Leave
    PROVE  UNCHANGED selected /\ (pc' \in Buying => Funded' /\ pc' # "post")
<1>1. TypeOK /\ IsFiniteSet(selected) /\ todo \subseteq selected
  BY DEF IInv, Owned, Paid
<1>2. CASE pass = 3
  BY <1>1, <1>2, Fewer DEF Leave, Proceed, End, Goto, Buying, Funded
<1>3. CASE pass # 3
  BY <1>3 DEF Leave, Goto, Buying
<1> QED
  BY <1>2, <1>3

LEMMA SkipPaid ==
    ASSUME IInv, Paid, pc \in Buying, Skip
    PROVE  UNCHANGED selected /\ Funded' /\ pc' = "loop"
<1>1. TypeOK /\ IsFiniteSet(selected) /\ todo \subseteq selected
  BY DEF IInv, Owned, Paid, Buying
<1> QED
  BY <1>1, Fewer DEF Skip, Goto, Paid, Funded

LEMMA QuotaPaid ==
    ASSUME IInv, Paid, Quota
    PROVE  UNCHANGED selected /\ (pc' \in Buying => Funded' /\ pc' # "post")
<1>1. CASE pc' = "off" /\ UNCHANGED selected
  BY <1>1 DEF Buying
<1>2. ASSUME NEW known \in {{}} \union {{n} : n \in 0..MaxQuota},
             ~ \E n \in known : Lacks(n, pending),
             pc' = "loop", todo' = pending, remaining' = known, UNCHANGED selected
      PROVE  UNCHANGED selected /\ (pc' \in Buying => Funded' /\ pc' # "post")
  <2>1. IsFiniteSet(pending)
    BY FS_Subset DEF IInv, Owned, Paid, Quota, TypeOK
  <2>2. Cardinality(pending) \in Nat
    BY <2>1, FS_CardinalityType
  <2>3. Quota => pc = "quota"
    BY DEF Quota
  <2> QED
    BY <1>2, <2>2 DEF Lacks, Funded
<1> QED
  BY <1>1, <1>2 DEF Quota, End, Goto

LEMMA NextPaid == ASSUME IInv, Paid, [Next]_vars PROVE Paid'
<1> DEFINE Still == UNCHANGED selected /\ (pc' \in Buying => Funded' /\ pc' # "post")
<1>a. Still => Paid'
  BY DEF Paid, Buying
<1>1. CASE Start
  <2>1. PICK S \in Selections : Begin(S)
    BY <1>1 DEF Start
  <2> QED
    BY <2>1, FrozenFinite DEF Begin, Goto, Paid, Buying
<1>2. CASE Open \/ Recover \/ FirstPassDone \/ SecondPassDone \/ Prepare \/ References \/ Die
  BY <1>2, <1>a DEF Open, Recover, FirstPassDone, SecondPassDone, Prepare, References, Die, Goto, End, Buying
<1>3. CASE Quota
  BY <1>3, <1>a, QuotaPaid
<1>4. CASE Loop
  BY <1>4, <1>a DEF Loop, Goto, End, Buying, Paid, Funded
<1>5. CASE Reserve
  <2>1. CASE Skip
    BY <1>5, <1>a, <2>1, SkipPaid DEF Reserve, Buying
  <2>2. CASE ~Skip
    BY <1>5, <1>a, <2>2 DEF Reserve, Goto, Marking, Buying, Paid, Funded
  <2> QED
    BY <2>1, <2>2
<1>6. CASE RemoveOldMarker
  <2>1. CASE Skip
    BY <1>6, <1>a, <2>1, SkipPaid DEF RemoveOldMarker, Buying
  <2>2. CASE ~Skip
    BY <1>6, <1>a, <2>2 DEF RemoveOldMarker, Goto, Buying, Paid, Funded
  <2> QED
    BY <2>1, <2>2
<1>7. CASE WriteMarker
  <2>1. CASE Skip
    BY <1>7, <1>a, <2>1, SkipPaid DEF WriteMarker, Buying
  <2>2. CASE ~Skip
    <3>1. PICK f \in at : marker' = [marker EXCEPT ![f] = "whole"] /\ pc' = "post"
                          /\ UNCHANGED <<selected, todo, at, remaining>>
      BY <1>7, <2>2 DEF WriteMarker, Goto
    <3>2. at = {f} /\ f \in Files /\ marker'[f] = "whole"
      BY <3>1 DEF IInv, LoneWork, TypeOK, RunTypeOK, DiskTypeOK
    <3>3. Funded
      BY <1>7 DEF WriteMarker, Paid, Buying
    <3> QED
      BY <3>1, <3>2, <3>3 DEF Paid, Funded
  <2> QED
    BY <2>1, <2>2
<1>8. CASE Post
  BY <1>8, <1>a DEF Post, Goto, End, Buying
<1>9. CASE Fetch \/ Stage \/ WriteReceipt \/ WriteBody \/ Finish \/ WriteProvenance \/ RemoveReceipt \/ Publish
  <2>1. pc # "off"
    BY <1>9 DEF Fetch, Stage, WriteReceipt, WriteBody, Finish, WriteProvenance, RemoveReceipt, Publish
  <2>2. CASE Leave
    BY <1>a, <2>1, <2>2, LeavePaid
  <2>3. CASE ~Leave
    <3>1. UNCHANGED selected /\ pc' \notin Buying
      BY <1>9, <2>3 DEF Fetch, Stage, WriteReceipt, WriteBody, Finish, WriteProvenance, RemoveReceipt,
         Publish, GiveUp, Goto, End, Checked, Buying
    <3> QED
      BY <1>a, <3>1
  <2> QED
    BY <2>2, <2>3
<1>10. CASE Evicting \/ \E f \in Files : Evict(f) \/ EvictDies(f)
  <2>1. UNCHANGED runVars
    BY <1>10 DEF Evicting, EvictOn, Evict, EvictDies
  <2>2. \A g \in Files : marker'[g] = marker[g] \/ g \in evicting
    BY <1>10 DEF Evicting, EvictOn, EvictStep, EvictProvenance, EvictDirectory, EvictMarker, Evict, EvictBegin,
       EvictDies, EvictStops, IInv, TypeOK, DiskTypeOK
  <2>3. pc = "post" => \A f \in at : f \notin evicting /\ f \in Files
    BY DEF IInv, Owned, TypeOK, RunTypeOK
  <2>4. pc = "post" => \A f \in at : marker'[f] = "whole"
    BY <2>2, <2>3 DEF Paid
  <2> QED
    BY <2>1, <2>4 DEF runVars, Paid, Funded
<1>11. CASE UNCHANGED vars
  BY <1>11 DEF vars, runVars, diskVars, Paid, Funded
<1> QED
  BY <1>1, <1>2, <1>3, <1>4, <1>5, <1>6, <1>7, <1>8, <1>9, <1>10, <1>11 DEF Next, Running

(* For any files, quota and faults, no POST is sent without its marker on    *)
(* disk, nor one that the counter, once known, does not pay for together     *)
(* with the rest.                                                            *)
THEOREM ChargesCovered == Spec => PostsAreCovered
<1> DEFINE Marked == \A f \in Files : posts'[f] > posts[f] => marker[f] = "whole"
           Paying == \A f \in Files : posts'[f] > posts[f] =>
                        \A n \in remaining : n >= Cardinality(todo)
<1>1. IInv /\ Paid /\ [Next]_vars => [Marked /\ Paying]_vars
  <2> SUFFICES ASSUME IInv, Paid, Next, NEW f \in Files, posts'[f] > posts[f]
               PROVE  marker[f] = "whole" /\ \A n \in remaining : n >= Cardinality(todo)
    BY DEF vars
  <2>1. posts \in [Files -> Nat]
    BY DEF IInv, TypeOK, RunTypeOK
  <2>2. Post
    <3>1. posts' # posts
      BY <2>1
    <3>2. ~ Start
      BY <2>1 DEF Start, Begin
    <3> QED
      BY <3>1, <3>2 DEF Next, Running, Open, Recover, FirstPassDone, SecondPassDone, Prepare, Quota, Loop,
         Reserve, RemoveOldMarker, WriteMarker, Fetch, Stage, WriteReceipt, WriteBody, Finish,
         WriteProvenance, RemoveReceipt, Publish, References, Die, Evicting, EvictOn, Evict, EvictDies, history
  <2>3. pc = "post" /\ f \in at
    BY <2>1, <2>2 DEF Post
  <2>4. \A n \in remaining : n \in Nat /\ Cardinality(todo) \in Nat /\ Cardinality(todo) <= n
    BY <2>3, Fewer DEF IInv, Owned, Paid, Buying, Funded
  <2> QED
    BY <2>3, <2>4 DEF Paid
<1>2. Spec => [](IInv /\ Paid)
  BY InitIInv, NextIInv, InitPaid, NextPaid, PTL DEF Spec
<1> QED
  BY <1>1, <1>2, PTL DEF Spec, PostsAreCovered, ChargeNeedsMarker, QuotaHonoured

-----------------------------------------------------------------------------
(* A selected file is there, still to be looked at, to be downloaded, or     *)
(* among the failures, and remains so to the end of the run.                 *)
Noticed(f) == Contained(f) \/ f \in todo \/ f \in failures \/ (pass # 3 /\ f \in pending)
Tried == /\ pc \notin {"off", "open", "references"} => \A f \in selected : Noticed(f)
         /\ pc = "open" => todo = selected
         /\ pc \in {"prepare", "quota"} => todo = {}
         /\ pc \in {"open", "scan"} => pass # 3
         /\ pc \in Buying \union {"fetch", "stage", "receipt", "body"} => pass = 3
         /\ pc = "references" => \A f \in selected : Contained(f)

(* Whoever gives up a file names it, and whoever publishes one has it.       *)
Handled == \A f \in at : Contained(f)' \/ f \in failures'

(* What the running invocation selected is there as long as it runs.         *)
LEMMA Remaining ==
    ASSUME TypeOK, NEW f \in Files, Contained(f), entry'[f] = entry[f], usable' = usable
    PROVE  Contained(f)'
BY DEF Contained, Loads, Parses

LEMMA LeaveTried ==
    ASSUME IInv, Tried, pc \notin {"off", "open", "references"}, Leave, Handled,
           \A f \in selected : Contained(f) => Contained(f)', failures \subseteq failures'
    PROVE  Tried'
<1>1. CASE pass = 3
  BY <1>1 DEF Leave, Proceed, End, Goto, Tried, Buying, Noticed, Handled
<1>2. CASE pass # 3
  BY <1>2 DEF Leave, Goto, Tried, Buying, Noticed, Handled
<1> QED
  BY <1>1, <1>2

LEMMA NextTried == ASSUME IInv, Tried, [Next]_vars PROVE Tried'
<1>0. selected \subseteq Files /\ TypeOK
  BY DEF IInv, TypeOK, RunTypeOK
<1>1. CASE Start
  BY <1>1 DEF Start, Begin, Goto, Tried, Buying
<1>a. ASSUME UNCHANGED <<entry, usable>>
      PROVE  \A f \in Files : Contained(f)' = Contained(f)
  BY <1>a DEF Contained, Loads, Parses
<1>b. CASE End("failed") \/ End("incomplete") \/ End("quota") \/ End("stopped") \/ End("died") \/ End("ready")
  BY <1>b DEF End, Tried, Buying
<1>2. CASE Open
  <2>1. UNCHANGED <<entry, usable>>
    BY <1>2 DEF Open, diskVars
  <2> QED
    BY <1>2, <1>b, <2>1 DEF Open, Tried, Buying, Noticed, Goto
<1>3. CASE Recover
  <2>1. UNCHANGED <<entry, usable>>
    BY <1>3 DEF Recover, diskVars
  <2> QED
    BY <1>0, <1>3, <1>a, <2>1 DEF Recover, Tried, Buying, Noticed, Goto
<1>4. CASE FirstPassDone
  <2>1. UNCHANGED <<entry, usable>>
    BY <1>4 DEF FirstPassDone, diskVars
  <2> QED
    <3>1. CASE /\ \A f \in selected : Contained(f)
               /\ Goto("references")
               /\ UNCHANGED <<selected, pass, todo, pending, failures, at, remaining, attempted, verdict, faults>>
      BY <1>0, <1>a, <2>1, <3>1 DEF Tried, Buying, Goto
    <3>2. CASE pass' = 2 /\ todo' = selected /\ UNCHANGED <<pc, selected>>
      BY <1>4, <3>2 DEF FirstPassDone, Tried, Buying, Noticed
    <3> QED
      BY <1>4, <1>b, <3>1, <3>2 DEF FirstPassDone
<1>5. CASE SecondPassDone
  <2>1. UNCHANGED <<entry, usable>>
    BY <1>5 DEF SecondPassDone, diskVars
  <2> QED
    BY <1>0, <1>5, <1>a, <1>b, <2>1 DEF SecondPassDone, Tried, Buying, Noticed, Goto, Covered
<1>6. CASE Prepare \/ Loop
  <2>1. UNCHANGED <<entry, usable>>
    BY <1>6 DEF Prepare, Loop, diskVars
  <2> QED
    BY <1>0, <1>6, <1>a, <1>b, <2>1 DEF Prepare, Loop, Tried, Buying, Noticed, Goto, Covered
<1>7. CASE Quota
  <2>1. UNCHANGED <<entry, usable>>
    BY <1>7 DEF Quota, diskVars
  <2> QED
    BY <1>0, <1>7, <1>a, <1>b, <2>1 DEF Quota, Tried, Buying, Noticed, Goto
<1>8. CASE Reserve \/ RemoveOldMarker \/ WriteMarker \/ Post
  <2>1. UNCHANGED <<entry, usable>> /\ pc \in Buying /\ pc \notin {"off", "open", "references"}
    BY <1>8 DEF Reserve, RemoveOldMarker, WriteMarker, Post, diskVars, Buying
  <2>2. CASE Skip
    BY <1>0, <1>8, <1>a, <2>1, <2>2 DEF Skip, Tried, Buying, Noticed, Goto
  <2>3. CASE End("failed")
    BY <1>b, <2>3
  <2>4. CASE ~Skip /\ ~End("failed")
    <3>1. UNCHANGED <<selected, pass, todo, pending, failures>> /\ pc' \in {"unmark", "mark", "post", "fetch"}
      BY <1>8, <2>4 DEF Reserve, RemoveOldMarker, WriteMarker, Post, Goto, Marking
    <3> QED
      BY <1>0, <1>a, <2>1, <3>1 DEF Tried, Buying, Noticed
  <2> QED
    BY <2>2, <2>3, <2>4
<1>9. CASE Fetch \/ Stage \/ WriteReceipt \/ WriteBody \/ Finish \/ WriteProvenance \/ RemoveReceipt
  <2>1. UNCHANGED <<entry, usable>> /\ pc \notin {"off", "open", "references"}
    BY <1>9 DEF Fetch, Stage, WriteReceipt, WriteBody, Finish, WriteProvenance, RemoveReceipt, diskVars
  <2>2. CASE GiveUp
    <3>1. Handled /\ failures \subseteq failures'
      BY <2>2 DEF GiveUp, Handled
    <3> QED
      BY <1>0, <1>a, <2>1, <2>2, <3>1, LeaveTried DEF GiveUp
  <2>3. CASE End("stopped")
    BY <1>b, <2>3
  <2>4. CASE ~GiveUp /\ ~End("stopped")
    <3>1. /\ UNCHANGED <<selected, pass, todo, pending, failures>>
          /\ pc' \in {"stage", "receipt", "body", "finish", "provenance", "unreceipt", "rename"}
          /\ pc' \in {"stage", "receipt", "body"} => pc \in {"fetch", "stage", "receipt"}
      BY <1>9, <2>4 DEF Fetch, Stage, WriteReceipt, WriteBody, Finish, WriteProvenance, RemoveReceipt,
         Goto, Checked, history
    <3>2. \A f \in selected : Noticed(f)
      BY <2>1 DEF Tried
    <3>3. \A f \in selected' : Noticed(f)'
      BY <1>0, <1>a, <2>1, <3>1, <3>2 DEF Noticed
    <3> QED
      BY <3>1, <3>3 DEF Tried, Buying
  <2> QED
    BY <2>2, <2>3, <2>4
<1>10. CASE Publish
  <2>1. pc = "rename" /\ UNCHANGED usable
    BY <1>10 DEF Publish
  <2>2. CASE GiveUp /\ UNCHANGED entry
    <3>1. Handled /\ failures \subseteq failures'
      BY <2>2 DEF GiveUp, Handled
    <3> QED
      BY <1>0, <1>a, <2>1, <2>2, <3>1, LeaveTried DEF GiveUp
  <2>3. CASE ~(GiveUp /\ UNCHANGED entry)
    <3>1. PICK f \in at : entry' = [entry EXCEPT ![f] = partial[f]] /\ Leave /\ UNCHANGED failures
      BY <1>10, <2>3 DEF Publish
    <3>2. f \in Files /\ at = {f}
      BY <3>1 DEF IInv, LoneWork, TypeOK, RunTypeOK
    <3>3. Whole(partial[f]) /\ usable[f]
      BY <2>1, <3>1 DEF IInv, AtWork
    <3>4. entry'[f] = partial[f] /\ usable'[f] = usable[f]
      BY <2>1, <3>1, <3>2 DEF IInv, TypeOK, DiskTypeOK
    <3>5. Contained(f)'
      BY <3>3, <3>4 DEF Contained, Loads, Parses, Whole
    <3>6. \A g \in selected : Contained(g) => Contained(g)'
      <4> SUFFICES ASSUME NEW g \in selected, Contained(g), g # f PROVE Contained(g)'
        BY <3>5
      <4>1. entry'[g] = entry[g]
        BY <1>0, <3>1, <3>2 DEF IInv, TypeOK, DiskTypeOK
      <4> QED
        BY <1>0, <2>1, <4>1, Remaining
    <3>7. Handled
      BY <3>2, <3>5 DEF Handled
    <3> QED
      BY <2>1, <3>1, <3>6, <3>7, LeaveTried
  <2> QED
    BY <2>2, <2>3
<1>11. CASE References \/ Die
  BY <1>11, <1>b DEF References, Die
<1>12. CASE Evicting \/ \E f \in Files : Evict(f) \/ EvictDies(f)
  <2>1. UNCHANGED <<runVars, usable>>
    BY <1>12 DEF Evicting, EvictOn, EvictStep, EvictProvenance, EvictDirectory, EvictMarker, Evict, EvictBegin,
       EvictDies, EvictStops
  <2>2. pc # "off" => \A g \in selected : entry'[g] = entry[g]
    <3> SUFFICES ASSUME pc # "off", NEW g \in selected PROVE entry'[g] = entry[g]
      OBVIOUS
    <3>1. g \in Files /\ g \notin evicting
      BY <1>0 DEF IInv, Owned
    <3>2. ASSUME NEW f \in Files, EvictOn(f) PROVE entry'[g] = entry[g]
      BY <3>1, <3>2 DEF EvictOn, EvictStep, EvictProvenance, EvictDirectory, EvictMarker, IInv, TypeOK, DiskTypeOK
    <3>3. ASSUME NEW f \in Files, Evict(f) PROVE entry'[g] = entry[g]
      BY <3>1, <3>3 DEF Evict, EvictBegin, Protected, IInv, TypeOK, DiskTypeOK
    <3>4. ASSUME NEW f \in Files, EvictDies(f) PROVE entry'[g] = entry[g]
      BY <3>4 DEF EvictDies, EvictStops
    <3> QED
      BY <1>12, <3>2, <3>3, <3>4 DEF Evicting
  <2>3. pc # "off" => \A g \in selected : Contained(g) => Contained(g)'
    BY <1>0, <2>1, <2>2, Remaining
  <2> QED
    BY <2>1, <2>3 DEF runVars, Tried, Buying, Noticed
<1>13. CASE UNCHANGED vars
  <2>1. UNCHANGED <<entry, usable, runVars>>
    BY <1>13 DEF vars, diskVars
  <2> QED
    BY <1>0, <1>a, <2>1 DEF runVars, Tried, Buying, Noticed
<1> QED
  BY <1>1, <1>2, <1>3, <1>4, <1>5, <1>6, <1>7, <1>8, <1>9, <1>10, <1>11, <1>12, <1>13 DEF Next, Running

(* For any files and faults, an invocation that goes on to its references    *)
(* has them all, and one that ends as incomplete has tried every file.       *)
THEOREM CoverageHolds == Spec => CoverageIsTrue
<1> DEFINE Untried == verdict # "incomplete" /\ verdict' = "incomplete" =>
                          \A f \in selected : Contained(f) \/ f \in failures
<1>1. IInv /\ Tried => ReadyIsComplete
  BY DEF Tried, Buying, ReadyIsComplete
<1>2. IInv /\ Tried /\ [Next]_vars => [Untried]_vars
  <2> SUFFICES ASSUME IInv, Tried, Next, verdict # "incomplete", verdict' = "incomplete",
                      NEW f \in selected
               PROVE  Contained(f) \/ f \in failures
    BY DEF vars
  <2>1. CASE /\ FirstPassDone \/ SecondPassDone
             /\ pending = {}
    BY <2>1 DEF FirstPassDone, SecondPassDone, Tried, Buying, Noticed
  <2>2. CASE Loop
    BY <2>2 DEF Loop, Tried, Buying, Noticed, End, Goto
  <2>3. FirstPassDone \/ SecondPassDone => pending = {}
    BY DEF FirstPassDone, SecondPassDone, End, Goto
  <2>4. ~(Start \/ Open \/ Recover \/ Prepare \/ Quota)
    BY DEF Start, Begin, Open, Recover, Prepare, Quota, End, Goto
  <2>5. ~(Reserve \/ RemoveOldMarker \/ WriteMarker \/ Post)
    BY DEF Reserve, RemoveOldMarker, WriteMarker, Post, Skip, End, Goto
  <2>6. ~(Fetch \/ Stage \/ WriteReceipt \/ WriteBody \/ Finish \/ WriteProvenance \/ RemoveReceipt \/ Publish)
    <3>1. Leave => verdict' # "incomplete"
      BY DEF Leave, Proceed, End, Goto
    <3> QED
      BY <3>1 DEF Fetch, Stage, WriteReceipt, WriteBody, Finish, WriteProvenance, RemoveReceipt, Publish,
         GiveUp, End, Goto
  <2>7. ~(References \/ Die)
    BY DEF References, Die, End
  <2>8. ~(Evicting \/ \E g \in Files : Evict(g) \/ EvictDies(g))
    BY DEF Evicting, EvictOn, Evict, EvictDies, runVars
  <2> QED
    BY <2>1, <2>2, <2>3, <2>4, <2>5, <2>6, <2>7, <2>8 DEF Next, Running
<1>3. Init => Tried
  BY DEF Init, Tried, Buying
<1>4. Spec => [](IInv /\ Tried)
  BY InitIInv, NextIInv, <1>3, NextTried, PTL DEF Spec
<1> QED
  BY <1>1, <1>2, <1>4, PTL DEF Spec, CoverageIsTrue, NoneLeftUntried

-----------------------------------------------------------------------------
(* A staging directory that was not cut short has a response to publish, or  *)
(* is the one at work.                                                       *)
Answered(f) == \/ Complete(partial[f]) /\ partial[f].prov = "none"
               \/ usable[f] /\ Complete(partial[f]) /\ partial[f].prov = "full"
               \/ usable[f] /\ Whole(partial[f])
AtStaging(f) == pc \in {"receipt", "body"} /\ f \in at
Excused(f) == wounded[f] # {} \/ AtStaging(f) \/ (marker[f] # "torn" /\ Answered(f))

(* A torn marker is a wound, and no file that is published or about to be    *)
(* has one.                                                                  *)
Healed ==
    /\ \A f \in Files : marker[f] = "torn" => wounded[f] # {}
    /\ \A f \in Files : entry[f].there => marker[f] # "torn"
    /\ \A f \in at : /\ pc \in {"post", "fetch", "stage", "receipt", "body"} => marker[f] = "whole"
                     /\ pc \in {"provenance", "unreceipt", "rename"} => marker[f] # "torn"
    /\ \A f \in Files : partial[f].there => Excused(f)

LEMMA InitHealed == Init => Healed
BY DEF Init, DiskInit, Healed, NoDir

(* What a finished file leaves for the next step.                            *)
LEMMA Leaving == Leave => pc' \in {"off", "loop", "scan"}
BY DEF Leave, Proceed, End, Goto

LEMMA Undamaged ==
    ASSUME IInv, Healed, UNCHANGED <<marker, partial, entry, usable, wounded>>,
           pc' \in {"post", "fetch", "stage", "receipt", "body", "provenance", "unreceipt", "rename"} =>
               /\ at' \subseteq at
               /\ \A f \in at : \/ marker[f] = "whole"
                                \/ /\ marker[f] # "torn"
                                   /\ pc' \in {"provenance", "unreceipt", "rename"},
           pc \notin {"receipt", "body"}
    PROVE  Healed'
<1>1. \A f \in Files : Excused(f) => Excused(f)'
  BY DEF Excused, AtStaging, Answered, Complete, Whole
<1> QED
  BY <1>1 DEF Healed

(* A change of the directory of one file, the only one at work.              *)
LEMMA Restaged ==
    ASSUME IInv, Healed, NEW f \in at, NEW dir, Restage(f, dir),
           UNCHANGED <<marker, entry, usable>>,
           \A g \in Files : wounded[g] \subseteq wounded'[g],
           dir.there => Excused(f)',
           pc' \in {"post", "fetch", "stage", "receipt", "body"} => at' \subseteq at /\ marker[f] = "whole",
           pc' \in {"provenance", "unreceipt", "rename"} => at' \subseteq at /\ marker[f] # "torn"
    PROVE  Healed'
<1>1. f \in Files /\ at = {f}
  BY DEF IInv, LoneWork, TypeOK, RunTypeOK
<1>2. partial'[f] = dir /\ \A g \in Files \ {f} : partial'[g] = partial[g]
  BY <1>1 DEF Restage, IInv, TypeOK, DiskTypeOK
<1>3. ASSUME NEW g \in Files, g # f, Excused(g) PROVE Excused(g)'
  BY <1>1, <1>2, <1>3 DEF Excused, AtStaging, Answered
<1>4. \A g \in Files : partial'[g].there => Excused(g)'
  BY <1>2, <1>3 DEF Healed
<1>5. \A g \in Files : marker'[g] = "torn" => wounded'[g] # {}
  BY DEF Healed
<1>6. \A g \in Files : entry'[g].there => marker'[g] # "torn"
  BY DEF Healed
<1>7. \A g \in at' : /\ pc' \in {"post", "fetch", "stage", "receipt", "body"} => marker'[g] = "whole"
                     /\ pc' \in {"provenance", "unreceipt", "rename"} => marker'[g] # "torn"
  BY <1>1
<1> QED
  BY <1>4, <1>5, <1>6, <1>7 DEF Healed

LEMMA Wounding ==
    ASSUME TypeOK, NEW f \in Files, NEW torn, Damage(f, torn)
    PROVE  torn => wounded'[f] # {}
  BY DEF TypeOK, DiskTypeOK, Damage, Wounds

LEMMA WriteMarkerHealed == ASSUME IInv, Healed, WriteMarker PROVE Healed'
<1>1. PICK f \in at, m \in Marks :
        /\ marker' = [marker EXCEPT ![f] = m]
        /\ m = "torn" => wounded' = [wounded EXCEPT ![f] = @ \union {"staging"}]
        /\ m # "torn" => wounded' = wounded
        /\ \/ pc' = "post" /\ at' = at /\ m = "whole"
           \/ pc' = "loop"
        /\ UNCHANGED <<partial, entry, usable>>
  BY DEF WriteMarker, Goto, Skip, Marks
<1>2. f \in Files /\ at = {f} /\ ~entry[f].there /\ ~partial[f].there
  BY DEF IInv, LoneWork, TypeOK, RunTypeOK, WriteMarker, AtWork, Bare
<1>3. /\ marker'[f] = m /\ \A g \in Files \ {f} : marker'[g] = marker[g] /\ wounded'[g] = wounded[g]
      /\ m = "torn" => wounded'[f] # {}
  BY <1>1, <1>2 DEF IInv, TypeOK, DiskTypeOK
<1>4. \A g \in Files : partial'[g].there => Excused(g)'
  BY <1>1, <1>2, <1>3 DEF Healed, Excused, AtStaging, Answered, Complete, Whole, WriteMarker
<1> QED
  BY <1>1, <1>2, <1>3, <1>4 DEF Healed

LEMMA RemoveOldMarkerHealed == ASSUME IInv, Healed, RemoveOldMarker PROVE Healed'
<1>1. PICK f \in at : marker' = [marker EXCEPT ![f] = "none"] \/ UNCHANGED marker
  BY DEF RemoveOldMarker
<1>2. \A g \in Files : marker'[g] = "torn" => marker[g] = "torn"
  BY <1>1 DEF IInv, TypeOK, DiskTypeOK
<1>3. UNCHANGED <<partial, entry, usable, wounded>> /\ pc = "unmark" /\ pc' \in {"mark", "loop"}
  BY DEF RemoveOldMarker, Goto, Skip
<1>4. \A g \in Files : Excused(g) => Excused(g)'
  BY <1>2, <1>3 DEF Excused, AtStaging, Answered, Complete, Whole
<1> QED
  BY <1>2, <1>3, <1>4 DEF Healed

LEMMA StageHealed == ASSUME IInv, Healed, Stage PROVE Healed'
<1>1. pc = "stage" /\ UNCHANGED <<marker, entry, usable, wounded>>
      /\ \A f \in at : marker[f] = "whole"
  BY DEF Stage, Healed
<1>2. CASE UNCHANGED partial /\ Leave
  BY <1>1, <1>2, Leaving, Undamaged
<1>3. CASE \E f \in at : Restage(f, EmptyDir) /\ Goto("receipt") /\ UNCHANGED at
  <2> PICK f \in at : Restage(f, EmptyDir) /\ Goto("receipt") /\ UNCHANGED at
    BY <1>3
  <2>1. Excused(f)'
    BY DEF Excused, AtStaging, Goto
  <2> QED
    BY <1>1, <2>1, Restaged DEF Goto
<1> QED
  BY <1>2, <1>3 DEF Stage, GiveUp

LEMMA WriteReceiptHealed == ASSUME IInv, Healed, WriteReceipt PROVE Healed'
<1>1. PICK f \in at, r \in {"none", "torn", "full"} :
        /\ Restage(f, [partial[f] EXCEPT !.receipt = r])
        /\ \/ pc' = "body" /\ UNCHANGED <<at, wounded>>
           \/ Damage(f, TRUE) /\ Leave
  BY DEF WriteReceipt, Goto, GiveUp
<1>2. pc = "receipt" /\ UNCHANGED <<marker, entry, usable>> /\ marker[f] = "whole" /\ f \in Files /\ TypeOK
  BY DEF WriteReceipt, Healed, IInv, TypeOK, RunTypeOK
<1>3. Excused(f)' /\ \A g \in Files : wounded[g] \subseteq wounded'[g]
  BY <1>1, <1>2, Damaged, Wounding DEF Excused, AtStaging
<1>4. pc' \in {"off", "loop", "scan"} \/ (pc' = "body" /\ at' \subseteq at)
  BY <1>1, Leaving
<1> QED
  BY <1>1, <1>2, <1>3, <1>4, Restaged

LEMMA WriteBodyHealed == ASSUME IInv, Healed, WriteBody PROVE Healed'
<1>1. PICK f \in at, b \in Bodies :
        /\ Restage(f, [partial[f] EXCEPT !.body = b])
        /\ \/ pc' = "finish" /\ UNCHANGED <<at, wounded>> /\ b = "full"
           \/ Damage(f, b # "full") /\ Leave
  BY DEF WriteBody, Goto, GiveUp, Bodies
<1>2. pc = "body" /\ UNCHANGED <<marker, entry, usable>> /\ marker[f] = "whole" /\ f \in Files /\ TypeOK
  BY DEF WriteBody, Healed, IInv, TypeOK, RunTypeOK
<1>3. \A g \in Files : wounded[g] \subseteq wounded'[g]
  BY <1>1, <1>2, Damaged
<1>4. Excused(f)'
  <2>1. CASE b # "full"
    BY <1>1, <1>2, <2>1, Wounding DEF Excused
  <2>2. CASE b = "full"
    <3>1. partial'[f] = [partial[f] EXCEPT !.body = b] /\ partial[f] \in Dirs
      BY <1>1, <1>2 DEF Restage, TypeOK, DiskTypeOK
    <3>2. partial[f].there /\ partial[f].receipt = "full" /\ partial[f].prov = "none"
      BY <1>2 DEF IInv, AtWork
    <3>3. Complete(partial'[f]) /\ partial'[f].prov = "none"
      BY <2>2, <3>1, <3>2 DEF Complete, Dirs
    <3> QED
      BY <1>2, <3>3 DEF Excused, Answered
  <2> QED
    BY <2>1, <2>2
<1>5. pc' \in {"off", "loop", "scan", "finish"}
  BY <1>1, Leaving
<1> QED
  BY <1>1, <1>2, <1>3, <1>4, <1>5, Restaged

LEMMA WriteProvenanceHealed == ASSUME IInv, Healed, WriteProvenance PROVE Healed'
<1>1. pc = "provenance" /\ UNCHANGED <<marker, entry, usable>> /\ TypeOK
      /\ \A f \in at : f \in Files /\ marker[f] # "torn"
  BY DEF WriteProvenance, Healed, IInv, TypeOK, RunTypeOK
<1>2. CASE UNCHANGED <<partial, wounded>> /\ Leave
  BY <1>1, <1>2, Leaving, Undamaged
<1>3. ASSUME NEW f \in at, NEW p \in {"none", "torn", "full"},
             Restage(f, [partial[f] EXCEPT !.prov = p]),
             \/ pc' = "unreceipt" /\ UNCHANGED <<at, wounded>> /\ p = "full"
             \/ Damage(f, p = "torn") /\ Leave
      PROVE  Healed'
  <2>1. \A g \in Files : wounded[g] \subseteq wounded'[g]
    BY <1>1, <1>3, Damaged
  <2>2. Excused(f)'
    <3>1. CASE p = "torn"
      BY <1>1, <1>3, <3>1, Wounding DEF Excused
    <3>2. CASE p # "torn"
      <4>1. partial'[f] = [partial[f] EXCEPT !.prov = p] /\ partial[f] \in Dirs
        BY <1>1, <1>3 DEF Restage, TypeOK, DiskTypeOK
      <4>2. usable[f] /\ Complete(partial[f])
        BY <1>1 DEF IInv, AtWork
      <4>3. Complete(partial'[f]) /\ partial'[f].prov = p
        BY <4>1, <4>2 DEF Complete, Dirs
      <4> QED
        BY <1>1, <1>3, <3>2, <4>2, <4>3 DEF Excused, Answered
    <3> QED
      BY <3>1, <3>2
  <2>3. pc' \in {"off", "loop", "scan"} \/ (pc' = "unreceipt" /\ at' \subseteq at)
    BY <1>3, Leaving
  <2> QED
    BY <1>1, <1>3, <2>1, <2>2, <2>3, Restaged
<1>4. \A f \in at : partial[f].body = "full"
  BY <1>1 DEF IInv, AtWork, Complete
<1> QED
  BY <1>2, <1>3, <1>4 DEF WriteProvenance, GiveUp, Goto

LEMMA RemoveReceiptHealed == ASSUME IInv, Healed, RemoveReceipt PROVE Healed'
<1>1. pc = "unreceipt" /\ UNCHANGED <<marker, entry, usable, wounded>> /\ TypeOK
      /\ \A f \in at : f \in Files /\ marker[f] # "torn"
  BY DEF RemoveReceipt, Healed, IInv, TypeOK, RunTypeOK
<1>2. CASE UNCHANGED partial /\ Leave
  BY <1>1, <1>2, Leaving, Undamaged
<1>3. ASSUME NEW f \in at, Restage(f, [partial[f] EXCEPT !.receipt = "none"]),
             pc' = "rename", UNCHANGED at
      PROVE  Healed'
  <2>1. partial'[f] = [partial[f] EXCEPT !.receipt = "none"] /\ partial[f] \in Dirs
    BY <1>1, <1>3 DEF Restage, TypeOK, DiskTypeOK
  <2>2. usable[f] /\ partial[f].there /\ partial[f].body = "full" /\ partial[f].prov = "full"
    BY <1>1 DEF IInv, AtWork, Complete, Whole
  <2>3. Whole(partial'[f])
    BY <2>1, <2>2 DEF Whole, Dirs
  <2>4. Excused(f)'
    BY <1>1, <2>2, <2>3 DEF Excused, Answered
  <2> QED
    BY <1>1, <1>3, <2>4, Restaged
<1> QED
  BY <1>2, <1>3 DEF RemoveReceipt, GiveUp, Goto

LEMMA PublishHealed == ASSUME IInv, Healed, Publish PROVE Healed'
<1>1. /\ pc = "rename" /\ UNCHANGED <<marker, usable, wounded>> /\ pc' \in {"off", "loop", "scan"}
      /\ \A f \in at : f \in Files /\ marker[f] # "torn"
  BY Leaving DEF Publish, GiveUp, Healed, IInv, TypeOK, RunTypeOK
<1>2. CASE UNCHANGED <<entry, partial>>
  BY <1>1, <1>2, Undamaged
<1>3. ASSUME NEW f \in at, entry' = [entry EXCEPT ![f] = partial[f]], Restage(f, NoDir)
      PROVE  Healed'
  <2>1. \A g \in Files : /\ g # f => entry'[g] = entry[g] /\ partial'[g] = partial[g]
                         /\ g = f => ~partial'[g].there
    BY <1>1, <1>3 DEF Restage, IInv, TypeOK, DiskTypeOK, NoDir
  <2>2. ASSUME NEW g \in Files, partial'[g].there PROVE Excused(g)'
    <3>1. g # f /\ Excused(g)
      BY <2>1, <2>2 DEF Healed
    <3> QED
      BY <1>1, <2>1, <3>1 DEF Excused, AtStaging, Answered
  <2> QED
    BY <1>1, <2>1, <2>2 DEF Healed
<1> QED
  BY <1>2, <1>3 DEF Publish

LEMMA DieHealed == ASSUME IInv, Healed, Die PROVE Healed'
<1>1. UNCHANGED <<marker, partial, entry, usable>> /\ pc' = "off"
  BY DEF Die, End
<1>2. \A g \in Files : wounded[g] \subseteq wounded'[g] /\ (AtStaging(g) => wounded'[g] # {})
  <2>1. CASE pc \in {"receipt", "body"}
    <3>1. PICK f \in at : Damage(f, TRUE)
      BY <2>1 DEF Die
    <3>2. f \in Files /\ at = {f} /\ TypeOK
      BY DEF IInv, LoneWork, TypeOK, RunTypeOK
    <3> QED
      BY <3>1, <3>2, Damaged, Wounding DEF AtStaging
  <2>2. CASE pc \notin {"receipt", "body"}
    BY <2>2 DEF Die, AtStaging
  <2> QED
    BY <2>1, <2>2
<1>3. \A g \in Files : Excused(g) => Excused(g)'
  BY <1>1, <1>2 DEF Excused, Answered, Complete, Whole
<1> QED
  BY <1>1, <1>2, <1>3 DEF Healed

LEMMA EvictionHealed ==
    ASSUME IInv, Healed, Evicting \/ \E f \in Files : Evict(f) \/ EvictDies(f)
    PROVE  Healed'
<1>1. UNCHANGED <<runVars, usable, partial>>
  BY DEF Evicting, EvictOn, EvictStep, EvictProvenance, EvictDirectory, EvictMarker, Evict, EvictBegin,
     EvictDies, EvictStops
<1>2. \A g \in Files : /\ entry'[g].there => entry[g].there
                       /\ marker'[g] = marker[g] \/ (marker'[g] = "none" /\ g \in evicting)
                       /\ wounded[g] \subseteq wounded'[g]
  <2>1. ASSUME NEW f \in Files, NEW g \in Files, EvictOn(f)
        PROVE  /\ entry'[g].there => entry[g].there
               /\ marker'[g] = marker[g] \/ (marker'[g] = "none" /\ g \in evicting)
               /\ wounded[g] \subseteq wounded'[g]
    <3>1. CASE EvictProvenance(f)
      BY <3>1 DEF EvictProvenance, IInv, TypeOK, DiskTypeOK, Dirs
    <3>2. CASE EvictDirectory(f)
      BY <3>2 DEF EvictDirectory, IInv, TypeOK, DiskTypeOK, NoDir
    <3>3. CASE EvictMarker(f)
      BY <3>3 DEF EvictMarker, IInv, TypeOK, DiskTypeOK
    <3> QED
      BY <2>1, <3>1, <3>2, <3>3 DEF EvictOn, EvictStep
  <2>2. ASSUME NEW f \in Files, NEW g \in Files, Evict(f)
        PROVE  (entry'[g].there => entry[g].there) /\ marker' = marker /\ wounded' = wounded
    BY <2>2 DEF Evict, EvictBegin, IInv, TypeOK, DiskTypeOK, Dirs
  <2>3. ASSUME NEW f \in Files, NEW g \in Files, EvictDies(f)
        PROVE  entry' = entry /\ marker' = marker /\ wounded[g] \subseteq wounded'[g]
    BY <2>3 DEF EvictDies, EvictStops, IInv, TypeOK, DiskTypeOK
  <2> QED
    BY <2>1, <2>2, <2>3 DEF Evicting
<1>3. pc # "off" => \A f \in at : marker'[f] = marker[f]
  BY <1>2 DEF IInv, Owned, TypeOK, RunTypeOK
<1>4. \A g \in Files : Excused(g) => Excused(g)'
  BY <1>1, <1>2 DEF runVars, Excused, AtStaging, Answered, Complete, Whole
<1> QED
  BY <1>1, <1>2, <1>3, <1>4 DEF runVars, Healed

LEMMA NextHealed == ASSUME IInv, Healed, [Next]_vars PROVE Healed'
<1>1. CASE Start \/ Open \/ Recover \/ FirstPassDone \/ SecondPassDone \/ Prepare \/ Quota
           \/ Loop \/ Reserve \/ References
  <2>1. UNCHANGED <<marker, partial, entry, usable, wounded>> /\ pc \notin {"receipt", "body"}
        /\ pc' \notin {"post", "fetch", "stage", "receipt", "body", "provenance", "unreceipt", "rename"}
    BY <1>1 DEF Start, Begin, Open, Recover, FirstPassDone, SecondPassDone, Prepare, Quota, Loop, Reserve,
       References, Goto, End, Skip, Marking, diskVars
  <2> QED
    BY <2>1, Undamaged
<1>2. CASE Post \/ Fetch \/ Finish
  <2>1. UNCHANGED <<marker, partial, entry, usable, wounded>> /\ pc \in {"post", "fetch", "finish"}
    BY <1>2 DEF Post, Fetch, Finish, diskVars
  <2>2. CASE Leave
    BY <2>1, <2>2, Leaving, Undamaged
  <2>3. CASE pc' = "off"
    BY <2>1, <2>3, Undamaged
  <2>4. CASE ~Leave /\ pc' # "off"
    <3>1. CASE pc # "finish"
      <4>1. pc' \in {"fetch", "stage"} /\ at' = at
        BY <1>2, <2>1, <2>4, <3>1 DEF Post, Fetch, Finish, GiveUp, End, Goto
      <4>2. \A f \in at : marker[f] = "whole"
        BY <2>1, <3>1 DEF Healed
      <4> QED
        BY <2>1, <4>1, <4>2, Undamaged
    <3>2. CASE pc = "finish"
      <4>1. PICK f \in at : Publishable(f) /\ pc' \in {"provenance", "unreceipt"} /\ at' = at
        BY <1>2, <2>4, <3>2 DEF Post, Fetch, Finish, GiveUp, Goto, Checked
      <4>2. marker[f] # "torn" /\ at = {f}
        BY <4>1 DEF Publishable, Attested, IInv, LoneWork
      <4> QED
        BY <2>1, <4>1, <4>2, Undamaged
    <3> QED
      BY <3>1, <3>2
  <2> QED
    BY <2>2, <2>3, <2>4
<1>3. CASE UNCHANGED vars
  BY <1>3 DEF vars, diskVars, runVars, Healed, Excused, AtStaging, Answered
<1> QED
  BY <1>1, <1>2, <1>3, RemoveOldMarkerHealed, WriteMarkerHealed, StageHealed, WriteReceiptHealed,
     WriteBodyHealed, WriteProvenanceHealed, RemoveReceiptHealed, PublishHealed, DieHealed, EvictionHealed
     DEF Next, Running

(* For any files, quota, faults and deaths: what needs an owner's review was *)
(* cut short in a write or an eviction, or came without captions; and no     *)
(* download makes the rest of the cache unreadable.                          *)
THEOREM OnlyWoundsRemain == Spec => []InterruptionsHeal
<1>1. IInv /\ Healed => InterruptionsHeal
  <2> SUFFICES ASSUME IInv, Healed, NEW f \in Files
               PROVE  /\ ~Intact(f) => f \in evicting \/ "eviction" \in wounded[f]
                      /\ NeedsReview(f) => \/ f \in evicting
                                           \/ wounded[f] # {}
                                           \/ ~usable[f] /\ Holding(f) = "response"
                                           \/ pc \in {"receipt", "body"} /\ f \in at
    BY DEF InterruptionsHeal, ReviewHasCause, DownloadsPoisonNothing
  <2>1. ASSUME ~Intact(f) PROVE f \in evicting \/ "eviction" \in wounded[f]
    <3>1. entry[f].there /\ marker[f] # "torn"
      BY <2>1 DEF Intact, Healed
    <3>2. Whole(entry[f]) => Intact(f)
      BY <3>1 DEF Intact, Whole, Loads, Parses, IInv, Shaped
    <3> QED
      BY <2>1, <3>1, <3>2 DEF IInv, Shaped
  <2>2. ASSUME partial[f].there, ~Publishable(f), marker[f] # "torn", Answered(f)
        PROVE  ~usable[f] /\ Holding(f) = "response"
    <3>1. ~entry[f].there
      BY <2>2 DEF IInv, Shaped
    <3>2. ~usable[f]
      BY <2>2 DEF Answered, Publishable, Attested, Loads, Parses, Complete, Whole
    <3>3. Responded(partial[f])
      BY <2>2 DEF Answered, Complete, Whole, Responded
    <3> QED
      BY <2>2, <3>1, <3>2, <3>3 DEF Holding
  <2> QED
    BY <2>1, <2>2 DEF NeedsReview, Healed, Excused, AtStaging
<1>2. Spec => [](IInv /\ Healed)
  BY InitIInv, NextIInv, InitHealed, NextHealed, PTL DEF Spec
<1> QED
  BY <1>1, <1>2, PTL

-----------------------------------------------------------------------------
(* Progress                                                                  *)

Data == INSTANCE Sums

(* How far an invocation is: the part of its course ...                      *)
Part == CASE pc = "open" -> 7
          [] pc = "prepare" -> 4
          [] pc = "quota" -> 3
          [] pc = "references" -> 1
          [] pc = "off" -> 0
          [] OTHER -> IF pass = 3 THEN 2 ELSE 7 - pass

(* ... the files which that pass has still to look at, and the steps of the  *)
(* file at work.                                                             *)
Turn == CASE pc \in {"scan", "loop"} -> 12
          [] pc = "reserve" -> 11
          [] pc = "unmark" -> 10
          [] pc = "mark" -> 9
          [] pc = "post" -> 8
          [] pc = "fetch" -> 7
          [] pc = "stage" -> 6
          [] pc = "receipt" -> 5
          [] pc = "body" -> 4
          [] pc = "finish" -> 3
          [] pc = "provenance" -> 2
          [] pc = "unreceipt" -> 1
          [] OTHER -> 0

Width == Cardinality(selected) + 1
Count(width, part, files, turn) == (part * width + files) * 13 + turn

(* The steps the invocation can take yet, at most.                           *)
Left == Count(Width, Part, Cardinality(todo), Turn)
Longest == 8 * Width * 13

(* The file at work is one that the pass has still to look at, and what is   *)
(* bought is bought in the third pass.                                       *)
Ordering == {"reserve", "unmark", "mark", "post", "fetch", "stage", "receipt", "body"}
Storing == {"finish", "provenance", "unreceipt", "rename"}
Course ==
    /\ at \subseteq todo
    /\ pc \in {"unmark", "mark", "post", "fetch", "stage", "receipt", "body"} \cup Storing =>
          at # {}
    /\ pc \notin Ordering \cup Storing => at = {}
    /\ pc \in {"open", "scan"} => pass # 3
    /\ pc \in Ordering \cup {"loop"} => pass = 3

(* A step of the invocation brings it on.                                    *)
Onward == \/ Part' < Part
          \/ Part' = Part /\ \E f \in todo : todo' = todo \ {f}
          \/ Part' = Part /\ todo' = todo /\ Turn' < Turn
Steady == Course' /\ selected' = selected /\ Onward

LEMMA PartAndTurn ==
    ASSUME TypeOK
    PROVE  Part \in 0..7 /\ Turn \in 0..12
<1>1. pass \in 1..3
  BY DEF TypeOK, RunTypeOK
<1>2. Part \in 0..7
  BY <1>1 DEF Part
<1>3. Turn \in 0..12
  BY DEF Turn
<1> QED
  BY <1>2, <1>3

(* However the invocation ends, it is behind it.                             *)
LEMMA Ended ==
    ASSUME IInv, Course, pc # "off", NEW v, End(v)
    PROVE  Steady
<1>1. pc' = "off" /\ at' = {} /\ todo' = {} /\ UNCHANGED selected
  BY DEF End
<1>2. Part' = 0
  BY <1>1 DEF Part
<1>3. Part > 0
  <2>1. pass \in 1..3
    BY DEF IInv, TypeOK, RunTypeOK
  <2> QED
    BY <2>1 DEF Part
<1>4. Course'
  BY <1>1 DEF Course, Ordering, Storing
<1> QED
  BY <1>1, <1>2, <1>3, <1>4 DEF Steady, Onward

(* The file at work is done with, be it provided or given up.                *)
LEMMA LeaveSteady ==
    ASSUME IInv, Course, at # {}, pc \in Ordering \cup Storing, Leave
    PROVE  Steady
<1>1. pass \in 1..3 /\ pc # "off"
  BY DEF IInv, TypeOK, RunTypeOK, Ordering, Storing
<1>2. \E f \in todo : todo \ at = todo \ {f}
  <2>1. PICK f \in at : TRUE
    OBVIOUS
  <2>2. at = {f} /\ f \in todo
    BY <2>1 DEF IInv, LoneWork, Course
  <2> QED
    BY <2>2
<1>3. CASE pass = 3
  <2>1. CASE End("quota")
    BY <1>1, <2>1, Ended
  <2>2. CASE ~End("quota")
    <3>1. pc' = "loop" /\ todo' = todo \ at /\ at' = {} /\ UNCHANGED <<selected, pass>>
      BY <1>3, <2>2 DEF Leave, Proceed, Goto
    <3>2. Part = 2 /\ Part' = 2
      BY <1>3, <3>1 DEF Part, Ordering, Storing
    <3>3. Course'
      BY <1>3, <3>1 DEF Course, Ordering, Storing
    <3> QED
      BY <1>2, <3>1, <3>2, <3>3 DEF Steady, Onward
  <2> QED
    BY <2>1, <2>2
<1>4. CASE pass # 3
  <2>1. pc' = "scan" /\ todo' = todo \ at /\ at' = {} /\ UNCHANGED <<selected, pass>>
    BY <1>4 DEF Leave, Goto
  <2>2. Part = 7 - pass /\ Part' = 7 - pass
    BY <1>4, <2>1 DEF Part, Ordering, Storing
  <2>3. Course'
    BY <1>4, <2>1 DEF Course, Ordering, Storing
  <2> QED
    BY <1>2, <2>1, <2>2, <2>3 DEF Steady, Onward
<1> QED
  BY <1>3, <1>4

LEMMA SkipSteady ==
    ASSUME IInv, Course, at # {}, pc \in Ordering, Skip
    PROVE  Steady
<1>1. pass = 3
  BY DEF Course, Ordering
<1>2. \E f \in todo : todo \ at = todo \ {f}
  <2>1. PICK f \in at : TRUE
    OBVIOUS
  <2>2. at = {f} /\ f \in todo
    BY <2>1 DEF IInv, LoneWork, Course
  <2> QED
    BY <2>2
<1>3. pc' = "loop" /\ todo' = todo \ at /\ at' = {} /\ UNCHANGED <<selected, pass>>
  BY DEF Skip, Goto
<1>4. Part = 2 /\ Part' = 2
  BY <1>1, <1>3 DEF Part, Ordering
<1>5. Course'
  BY <1>1, <1>3 DEF Course, Ordering, Storing
<1> QED
  BY <1>2, <1>3, <1>4, <1>5 DEF Steady, Onward

(* The next step of the file at work.                                        *)
LEMMA OnSteady ==
    ASSUME IInv, Course, at # {}, pc \in Ordering \cup Storing,
           pc' \in Ordering \cup Storing, pc' # "reserve",
           pc' \in Ordering => pc \in Ordering, Turn' < Turn,
           UNCHANGED <<selected, pass, todo, at>>
    PROVE  Steady
<1>1. Part' = Part
  BY DEF Part, Ordering, Storing
<1>2. Course'
  BY DEF Course, Ordering, Storing
<1> QED
  BY <1>1, <1>2 DEF Steady, Onward

LEMMA OpeningSteady ==
    ASSUME IInv, Course, Open \/ Prepare \/ Quota \/ References \/ Die
    PROVE  Steady
<1>1. pc # "off"
  BY DEF Open, Prepare, Quota, References, Die
<1>2. CASE \E v \in Verdicts : End(v)
  BY <1>1, <1>2, Ended
<1>3. CASE ~ \E v \in Verdicts : End(v)
  <2>1. CASE Open
    <3>1. pc = "open" /\ pc' = "scan" /\ UNCHANGED <<selected, pass, todo, at>>
      BY <1>3, <2>1 DEF Open, Goto, Verdicts
    <3>2. pass \in 1..3 /\ pass # 3
      BY <3>1 DEF Course, IInv, TypeOK, RunTypeOK
    <3>3. Course'
      BY <3>1, <3>2 DEF Course, Ordering, Storing
    <3>4. Part = 7 /\ Part' = 7 - pass
      BY <3>1, <3>2 DEF Part
    <3> QED
      BY <3>1, <3>2, <3>3, <3>4 DEF Steady, Onward
  <2>2. CASE Prepare
    <3>1. pc = "prepare" /\ pc' = "quota" /\ UNCHANGED <<selected, pass, todo, at>>
      BY <1>3, <2>2 DEF Prepare, Goto, Verdicts
    <3>2. Course'
      BY <3>1 DEF Course, Ordering, Storing
    <3> QED
      BY <3>1, <3>2 DEF Steady, Onward, Part
  <2>3. CASE Quota
    <3>1. /\ pc = "quota" /\ pc' = "loop" /\ pass' = 3 /\ todo' = pending
          /\ UNCHANGED <<selected, at>>
      BY <1>3, <2>3 DEF Quota, Goto, Verdicts
    <3>2. Course'
      BY <3>1 DEF Course, Ordering, Storing
    <3> QED
      BY <3>1, <3>2 DEF Steady, Onward, Part
  <2>4. CASE References \/ Die
    BY <1>3, <2>4 DEF References, Die, Verdicts
  <2> QED
    BY <2>1, <2>2, <2>3, <2>4
<1> QED
  BY <1>2, <1>3

LEMMA RecoverSteady ==
    ASSUME IInv, Course, Recover
    PROVE  Steady
<1>1. pc = "scan" /\ at = {} /\ pass \in 1..3 /\ pass # 3 /\ UNCHANGED <<selected, pass>>
  BY DEF Recover, Course, Ordering, Storing, IInv, TypeOK, RunTypeOK
<1>2. CASE \E f \in todo : todo' = todo \ {f} /\ UNCHANGED <<pc, at>>
  <2>1. Part' = Part
    BY <1>1, <1>2 DEF Part
  <2>2. Course'
    BY <1>1, <1>2 DEF Course, Ordering, Storing
  <2> QED
    BY <1>1, <1>2, <2>1, <2>2 DEF Steady, Onward
<1>3. CASE \E f \in todo : at' = {f} /\ pc' = "finish" /\ todo' = todo
  <2>1. Part' = Part
    BY <1>1, <1>3 DEF Part
  <2>2. Turn' < Turn
    BY <1>1, <1>3 DEF Turn
  <2>3. Course'
    BY <1>1, <1>3 DEF Course, Ordering, Storing
  <2> QED
    BY <1>1, <1>3, <2>1, <2>2, <2>3 DEF Steady, Onward
<1> QED
  BY <1>2, <1>3 DEF Recover, Goto

LEMMA PassSteady ==
    ASSUME IInv, Course, FirstPassDone \/ SecondPassDone
    PROVE  Steady
<1>1. /\ pc = "scan" /\ at = {} /\ pass \in 1..2
      /\ (FirstPassDone => pass = 1)
  BY DEF FirstPassDone, SecondPassDone, Course, Ordering, Storing, IInv, TypeOK, RunTypeOK
<1>2. CASE \E v \in Verdicts : End(v)
  BY <1>1, <1>2, Ended
<1>3. CASE ~ \E v \in Verdicts : End(v)
  <2>1. \/ pc' = "references" /\ UNCHANGED <<selected, pass, todo, at>>
        \/ pc' = "prepare" /\ UNCHANGED <<selected, pass, todo, at>>
        \/ pc' = "scan" /\ pass = 1 /\ pass' = 2 /\ UNCHANGED <<selected, at>>
    BY <1>1, <1>3 DEF FirstPassDone, SecondPassDone, Goto, Verdicts
  <2>2. Course'
    BY <1>1, <2>1 DEF Course, Ordering, Storing
  <2>3. Part = 7 - pass
    BY <1>1 DEF Part
  <2>4. Part' < Part
    BY <1>1, <2>1, <2>3 DEF Part
  <2> QED
    BY <2>1, <2>2, <2>4 DEF Steady, Onward
<1> QED
  BY <1>2, <1>3

LEMMA LoopSteady ==
    ASSUME IInv, Course, Loop
    PROVE  Steady
<1>1. pc = "loop" /\ at = {} /\ pass = 3
  BY DEF Loop, Course, Ordering, Storing
<1>2. CASE \E v \in Verdicts : End(v)
  BY <1>1, <1>2, Ended
<1>3. CASE ~ \E v \in Verdicts : End(v)
  <2>1. CASE pc' = "references" /\ UNCHANGED <<selected, todo, at>>
    <3>1. Course'
      BY <1>1, <2>1 DEF Course, Ordering, Storing
    <3>2. Part = 2 /\ Part' = 1
      BY <1>1, <2>1 DEF Part
    <3> QED
      BY <2>1, <3>1, <3>2 DEF Steady, Onward
  <2>2. CASE pc' = "reserve" /\ at' \subseteq todo /\ UNCHANGED <<selected, pass, todo>>
    <3>1. Course'
      BY <1>1, <2>2 DEF Course, Ordering, Storing
    <3>2. Part' = Part /\ Turn' < Turn
      BY <1>1, <2>2 DEF Part, Turn
    <3> QED
      BY <2>2, <3>1, <3>2 DEF Steady, Onward
  <2> QED
    BY <1>3, <2>1, <2>2 DEF Loop, Goto, Verdicts
<1> QED
  BY <1>2, <1>3

(* An order: the marker, the POST, the response, and its first two files.    *)
LEMMA OrderSteady ==
    ASSUME IInv, Course,
           Reserve \/ RemoveOldMarker \/ WriteMarker \/ Post \/ Fetch \/ Stage \/ WriteReceipt \/ WriteBody
    PROVE  Steady
<1>1. pc \in Ordering /\ pc # "off" /\ at # {}
  BY DEF Reserve, RemoveOldMarker, WriteMarker, Post, Fetch, Stage, WriteReceipt, WriteBody,
     Course, Ordering
<1>2. CASE Skip \/ Leave \/ \E v \in Verdicts : End(v)
  BY <1>1, <1>2, SkipSteady, LeaveSteady, Ended DEF Ordering
<1>3. CASE ~(Skip \/ Leave \/ \E v \in Verdicts : End(v))
  <2>1. /\ \/ pc = "reserve" /\ pc' \in {"unmark", "mark"}
           \/ pc = "unmark" /\ pc' = "mark"
           \/ pc = "mark" /\ pc' = "post"
           \/ pc = "post" /\ pc' = "fetch"
           \/ pc = "fetch" /\ pc' = "stage"
           \/ pc = "stage" /\ pc' = "receipt"
           \/ pc = "receipt" /\ pc' = "body"
           \/ pc = "body" /\ pc' = "finish"
        /\ UNCHANGED <<selected, pass, todo, at>>
    <3>1. CASE Reserve
      BY <1>3, <3>1 DEF Reserve, Goto, Marking
    <3>2. CASE RemoveOldMarker
      BY <1>3, <3>2 DEF RemoveOldMarker, Goto
    <3>3. CASE WriteMarker
      BY <1>3, <3>3 DEF WriteMarker, Goto
    <3>4. CASE Post
      BY <1>3, <3>4 DEF Post, Goto, Verdicts
    <3>5. CASE Fetch
      BY <1>3, <3>5 DEF Fetch, Goto, GiveUp, Verdicts
    <3>6. CASE Stage
      BY <1>3, <3>6 DEF Stage, Goto, GiveUp
    <3>7. CASE WriteReceipt
      BY <1>3, <3>7 DEF WriteReceipt, Goto, GiveUp
    <3>8. CASE WriteBody
      BY <1>3, <3>8 DEF WriteBody, Goto, GiveUp
    <3> QED
      BY <3>1, <3>2, <3>3, <3>4, <3>5, <3>6, <3>7, <3>8
  <2>2. Turn' < Turn
    BY <2>1 DEF Turn
  <2>3. pc' \in Ordering \cup Storing /\ pc' # "reserve"
    BY <2>1 DEF Ordering, Storing
  <2> QED
    BY <1>1, <2>1, <2>2, <2>3, OnSteady
<1> QED
  BY <1>2, <1>3

(* finish_staging: the provenance, the receipt removed, the rename.          *)
LEMMA StoreSteady ==
    ASSUME IInv, Course, Finish \/ WriteProvenance \/ RemoveReceipt \/ Publish
    PROVE  Steady
<1>1. pc \in Storing /\ pc # "off" /\ at # {}
  BY DEF Finish, WriteProvenance, RemoveReceipt, Publish, Course, Storing
<1>2. CASE Leave
  BY <1>1, <1>2, LeaveSteady
<1>3. CASE ~Leave
  <2>1. /\ \/ pc = "finish" /\ pc' \in {"provenance", "unreceipt"}
           \/ pc = "provenance" /\ pc' = "unreceipt"
           \/ pc = "unreceipt" /\ pc' = "rename"
        /\ UNCHANGED <<selected, pass, todo, at>>
    <3>1. CASE Finish
      BY <1>3, <3>1 DEF Finish, Goto, Checked, GiveUp
    <3>2. CASE WriteProvenance
      BY <1>3, <3>2 DEF WriteProvenance, Goto, GiveUp
    <3>3. CASE RemoveReceipt
      BY <1>3, <3>3 DEF RemoveReceipt, Goto, GiveUp
    <3>4. CASE Publish
      BY <1>3, <3>4 DEF Publish, GiveUp
    <3> QED
      BY <3>1, <3>2, <3>3, <3>4
  <2>2. Turn' < Turn
    BY <2>1 DEF Turn
  <2>3. pc' \in Storing
    BY <2>1 DEF Storing
  <2>4. pc' # "reserve" /\ pc' \notin Ordering
    BY <2>1 DEF Ordering
  <2> QED
    BY <1>1, <2>1, <2>2, <2>3, <2>4, OnSteady
<1> QED
  BY <1>2, <1>3

LEMMA WorkSteady ==
    ASSUME IInv, Course, Running \/ Die
    PROVE  Steady
  BY OpeningSteady, RecoverSteady, PassSteady, LoopSteady, OrderSteady, StoreSteady DEF Running

(* Evictions leave the invocation where it is.                               *)
LEMMA OtherSteady ==
    ASSUME Evicting \/ \E f \in Files : Evict(f) \/ EvictDies(f)
    PROVE  UNCHANGED runVars
  BY DEF Evicting, EvictOn, Evict, EvictDies

LEMMA NextCourse == ASSUME IInv, Course, [Next]_vars PROVE Course'
<1>1. CASE Start
  <2>1. pc = "off" /\ pc' = "open" /\ pass' = 1 /\ at = {} /\ at' = {}
    BY <1>1 DEF Start, Begin, Goto, Course, Ordering, Storing
  <2> QED
    BY <2>1 DEF Course, Ordering, Storing
<1>2. CASE Running \/ Die
  BY <1>2, WorkSteady DEF Steady
<1>3. CASE UNCHANGED runVars
  BY <1>3 DEF runVars, Course
<1> QED
  BY <1>1, <1>2, <1>3, OtherSteady DEF Next, vars

LEMMA Falling ==
    ASSUME NEW w \in Nat,
           NEW a \in Nat, NEW b \in 0..(w - 1), NEW c \in 0..12,
           NEW h \in Nat, NEW i \in 0..(w - 1), NEW j \in 0..12,
           a < h \/ (a = h /\ b < i) \/ (a = h /\ b = i /\ c < j)
    PROVE  Count(w, a, b, c) < Count(w, h, i, j) /\ Count(w, a, b, c) <= Count(w, h, i, j)
<1> DEFINE p == a * w + b
           q == h * w + i
<1>1. p \in Nat /\ q \in Nat
  <2>1. a * w \in Nat /\ h * w \in Nat /\ b \in Nat /\ i \in Nat
    OBVIOUS
  <2> QED
    BY <2>1
<1>2. p < q \/ (p = q /\ c < j)
  <2>1. CASE a < h \/ (a = h /\ b < i)
    BY <2>1, Data!Digits
  <2>2. CASE a = h /\ b = i /\ c < j
    BY <2>2
  <2> QED
    BY <2>1, <2>2
<1> HIDE DEF p, q
<1>3. p * 13 + c < q * 13 + j /\ p * 13 + c <= q * 13 + j
  BY <1>1, <1>2
<1> QED
  BY <1>3 DEF p, q, Count

LEMMA Sized ==
    ASSUME IInv, Paid
    PROVE  /\ Width \in Nat /\ Cardinality(todo) \in 0..(Width - 1) /\ IsFiniteSet(todo)
           /\ Left \in 0..Longest
<1>1. IsFiniteSet(selected) /\ todo \subseteq selected
  BY DEF IInv, Owned, Paid
<1>2. /\ IsFiniteSet(todo) /\ Cardinality(todo) <= Cardinality(selected)
      /\ Cardinality(todo) \in Nat /\ Cardinality(selected) \in Nat
  BY <1>1, FS_Subset, FS_CardinalityType
<1>3. Width \in Nat /\ Cardinality(todo) \in 0..(Width - 1)
  BY <1>2 DEF Width
<1>4. Part \in 0..7 /\ Turn \in 0..12
  BY PartAndTurn DEF IInv
<1> DEFINE k == Cardinality(todo)
<1> HIDE DEF k
<1>5. Left \in 0..Longest
  <2>1. Left = (Part * Width + k) * 13 + Turn
    BY DEF Left, k, Count
  <2>2. k \in 0..(Width - 1)
    BY <1>3 DEF k
  <2>3. Part * Width \in Nat /\ Part * Width + k \in Nat
    BY <1>3, <1>4, <2>2
  <2>4. Left \in Nat
    BY <1>4, <2>1, <2>3
  <2>5. (Part * Width + k) * 13 + Turn < (8 * Width + 0) * 13 + 0
    <3>1. /\ Width \in Nat /\ Part \in Nat /\ 8 \in Nat /\ Turn \in 0..12 /\ 0 \in 0..12
          /\ Part < 8 /\ 0 \in 0..(Width - 1)
      BY <1>3, <1>4, <2>2
    <3>2. Count(Width, Part, k, Turn) < Count(Width, 8, 0, 0)
      BY <2>2, <3>1, Falling
    <3> QED
      BY <3>2 DEF Count
  <2>6. 8 * Width + 0 = 8 * Width /\ 8 * Width * 13 \in Nat
    BY <1>3
  <2> QED
    BY <2>1, <2>4, <2>5, <2>6 DEF Longest
<1> QED
  BY <1>2, <1>3, <1>5

LEMMA Lowered ==
    ASSUME IInv, Paid, Course, IInv', Paid', Running \/ Die
    PROVE  Left' < Left /\ Left' <= Left
<1>1. selected' = selected /\ Onward
  BY WorkSteady DEF Steady
<1>2. /\ Width \in Nat /\ Cardinality(todo) \in 0..(Width - 1) /\ IsFiniteSet(todo)
      /\ Part \in 0..7 /\ Turn \in 0..12
  BY Sized, PartAndTurn DEF IInv
<1>3. Part' \in 0..7 /\ Turn' \in 0..12 /\ Cardinality(todo') \in 0..(Width - 1)
  <2>1. TypeOK' /\ todo' \subseteq selected' /\ IsFiniteSet(selected)
    BY DEF IInv, Owned, Paid
  <2>2. Part' \in 0..7 /\ Turn' \in 0..12
    <3>1. pass' \in 1..3
      BY <2>1 DEF TypeOK, RunTypeOK
    <3>2. Part' \in 0..7
      BY <3>1 DEF Part
    <3>3. Turn' \in 0..12
      BY DEF Turn
    <3> QED
      BY <3>2, <3>3
  <2>3. Cardinality(todo') <= Cardinality(selected) /\ Cardinality(todo') \in Nat /\ Cardinality(selected) \in Nat
    BY <1>1, <2>1, FS_Subset, FS_CardinalityType
  <2> QED
    BY <2>2, <2>3 DEF Width
<1>4. \/ Part' < Part
      \/ Part' = Part /\ Cardinality(todo') < Cardinality(todo)
      \/ Part' = Part /\ Cardinality(todo') = Cardinality(todo) /\ Turn' < Turn
  <2>1. CASE \E f \in todo : todo' = todo \ {f}
    <3>1. PICK f \in todo : todo' = todo \ {f}
      BY <2>1
    <3>2. Cardinality(todo') = Cardinality(todo) - 1 /\ Cardinality(todo) \in Nat
      BY <1>2, <3>1, FS_RemoveElement, FS_CardinalityType
    <3>3. Cardinality(todo') < Cardinality(todo)
      BY <3>2
    <3> QED
      BY <1>1, <3>3 DEF Onward
  <2> QED
    BY <1>1, <2>1 DEF Onward
<1> DEFINE k == Cardinality(todo)
           l == Cardinality(todo')
<1> HIDE DEF k, l
<1>5. k \in 0..(Width - 1) /\ l \in 0..(Width - 1)
  BY <1>2, <1>3 DEF k, l
<1>6. Part' < Part \/ (Part' = Part /\ l < k) \/ (Part' = Part /\ l = k /\ Turn' < Turn)
  BY <1>4 DEF k, l
<1>7. /\ Count(Width, Part', l, Turn') < Count(Width, Part, k, Turn)
      /\ Count(Width, Part', l, Turn') <= Count(Width, Part, k, Turn)
  <2>1. Width \in Nat /\ Part \in Nat /\ Part' \in Nat /\ Turn \in 0..12 /\ Turn' \in 0..12
    BY <1>2, <1>3
  <2> QED
    BY <2>1, <1>5, <1>6, Falling
<1>8. Width' = Width
  BY <1>1 DEF Width
<1> QED
  BY <1>7, <1>8 DEF Left, Count, k, l

(* Whatever fails and whoever evicts what, every step of an invocation       *)
(* brings it nearer to its end, and no step of another takes it back: no     *)
(* file is recovered, charged or staged twice in a pass, and an invocation   *)
(* takes no more steps than a bound fixed by the number of files selected.   *)
THEOREM RunAdvances ==
    Spec => /\ [](Left \in 0..Longest)
            /\ [][/\ Running \/ Die => Left' < Left
                  /\ pc # "off" => Left' <= Left]_vars
<1> DEFINE Falls == /\ Running \/ Die => Left' < Left
                    /\ pc # "off" => Left' <= Left
<1>1. Init => Course
  BY DEF Init, Course, Ordering, Storing
<1>2. IInv /\ Course /\ [Next]_vars => Course'
  BY NextCourse
<1>3. IInv /\ Paid => Left \in 0..Longest
  BY Sized
<1>4. IInv /\ IInv' /\ Paid /\ Paid' /\ Course /\ [Next]_vars => [Falls]_vars
  <2> SUFFICES ASSUME IInv, IInv', Paid, Paid', Course, Next
               PROVE  Falls \/ UNCHANGED vars
    OBVIOUS
  <2>1. CASE Running \/ Die
    BY <2>1, Lowered
  <2>2. CASE Start /\ ~(Running \/ Die)
    BY <2>2 DEF Start, Begin
  <2>3. CASE UNCHANGED runVars /\ ~(Running \/ Die)
    <3>1. Left' = Left
      BY <2>3 DEF runVars, Left, Part, Turn, Width
    <3>2. Left \in Nat
      BY Sized
    <3> QED
      BY <2>3, <3>1, <3>2
  <2> QED
    BY <2>1, <2>2, <2>3, OtherSteady DEF Next
<1>5. Spec => [](IInv /\ Paid /\ Course)
  <2>1. IInv /\ Paid /\ Course /\ [Next]_vars => IInv' /\ Paid' /\ Course'
    BY NextIInv, NextPaid, <1>2
  <2> QED
    BY <2>1, <1>1, InitIInv, InitPaid, PTL DEF Spec
<1> QED
  BY <1>3, <1>4, <1>5, PTL DEF Spec
=============================================================================
