----------------------------- MODULE Media_proofs -----------------------------
(* Theorems about reading one file: the versions and the cues an outcome     *)
(* rests on (Reading), what a picture is drawn from (Pgs), what the walk of  *)
(* a Matroska file emits and refuses (Matroska), and where and when the      *)
(* samples and captions of an MP4 file lie (Mp4).                            *)
EXTENDS MCScan, Matching_proofs, FunctionTheorems

-----------------------------------------------------------------------------
(* Reading                                                                   *)

(* Versions only grow: what was read, and what is open, lies between the     *)
(* snapshot and the file now at the path.                                    *)
Versioned == disk \in Nat /\ opened \in Nat /\ linked \in BOOLEAN /\ seen \subseteq Nat
Working == {"before", "open", "packet", "display", "assess", "after", "final"}
Between ==
    /\ stage = "start" => seen = {}
    /\ stage \in {"start", "probe"} => outcome = "none"
    /\ stage \in Working \union {"probe"} =>
          /\ snapshot \in Nat /\ snapshot <= disk
          /\ \A v \in seen : snapshot <= v /\ v <= disk
    /\ stage \in Working => seen # {} /\ outcome # "failed"
    /\ stage \in {"packet", "display", "assess", "after"} => snapshot <= opened /\ opened <= disk
Growing == Versioned /\ Between /\ kept # "failed" /\ OutcomeOfSnapshot

LEMMA ReadingStarts == ReadingInit => Growing
<1> SUFFICES ASSUME ReadingInit PROVE Growing
  OBVIOUS
<1>1. Versioned
  BY DEF ReadingInit, Versioned
<1>2. Between /\ kept # "failed" /\ OutcomeOfSnapshot
  BY DEF ReadingInit, Between, Working, OutcomeOfSnapshot
<1> QED
  BY <1>1, <1>2 DEF Growing

(* The end of an attempt, after which the next one begins or the file's      *)
(* outcome is known, and final but for one verification.                     *)
LEMMA Concluding ==
    ASSUME Growing, stage \in Working, NEW v, Conclude(v), UNCHANGED <<disk, opened>>,
           linked' \in BOOLEAN, seen' = seen \/ (stage = "packet" /\ seen' = seen \union {opened})
    PROVE  Growing'
<1>1. Versioned'
  BY DEF Growing, Versioned
<1>2. kept' # "failed"
  BY DEF Growing, Conclude, Kept
<1>3. stage' \in {"before", "final", "done"} /\ (stage' # "done" => outcome' # "failed")
      /\ (stage' = "done" => outcome' = "failed") /\ snapshot' = snapshot
  BY <1>2 DEF Growing, Between, Conclude
<1>4. snapshot \in Nat /\ snapshot <= disk /\ seen' # {}
      /\ \A x \in seen' : snapshot <= x /\ x <= disk
  BY DEF Growing, Between, Working
<1>5. Between'
  BY <1>3, <1>4 DEF Between, Working
<1>6. OutcomeOfSnapshot'
  BY <1>3 DEF OutcomeOfSnapshot
<1> QED
  BY <1>1, <1>2, <1>5, <1>6 DEF Growing

(* Steps of an attempt that leave the file and the outcome as they are.      *)
LEMMA ReadingOn ==
    ASSUME Growing, stage \in {"packet", "display", "assess"}, UNCHANGED <<fileVars, scanVars>>,
           stage' \in {"packet", "display", "assess", "after"},
           seen' = seen \/ seen' = seen \union {opened}
    PROVE  Growing'
<1>1. Versioned'
  BY DEF Growing, Versioned, fileVars
<1>2. \A x \in seen' : snapshot <= x /\ x <= disk
  BY DEF Growing, Between, Working
<1>3. Between'
  BY <1>2 DEF Growing, Between, Working, fileVars, scanVars
<1>4. OutcomeOfSnapshot' /\ kept' # "failed"
  BY DEF Growing, OutcomeOfSnapshot, scanVars
<1> QED
  BY <1>1, <1>3, <1>4 DEF Growing

LEMMA ReadingGoesOn == Growing /\ [ReadingNext]_readingVars => Growing'
<1> SUFFICES ASSUME Growing, [ReadingNext]_readingVars PROVE Growing'
  OBVIOUS
<1>1. CASE UNCHANGED readingVars
  BY <1>1 DEF Growing, Versioned, Between, OutcomeOfSnapshot, readingVars, fileVars, scanVars
<1>2. CASE Replaced
  <2>1. /\ disk' = disk + 1 /\ (opened' = opened \/ opened' = disk + 1)
        /\ linked' \in BOOLEAN /\ stage # "done" /\ UNCHANGED <<stage, scanVars, seen>>
    BY <1>2 DEF Replaced, Growing, Versioned
  <2>2. Versioned'
    BY <2>1 DEF Growing, Versioned
  <2>3. Between'
    <3>1. disk \in Nat /\ opened \in Nat /\ seen \subseteq Nat
      BY DEF Growing, Versioned
    <3> QED
      BY <2>1, <3>1 DEF Growing, Between, Working, scanVars
  <2>4. OutcomeOfSnapshot' /\ kept' # "failed"
    BY <2>1 DEF Growing, OutcomeOfSnapshot, scanVars
  <2> QED
    BY <2>2, <2>3, <2>4 DEF Growing
<1>3. CASE TakeSnapshot
  <2>1. Versioned' /\ kept' # "failed"
    BY <1>3 DEF TakeSnapshot, Growing, Versioned, fileVars
  <2>2. Between' /\ OutcomeOfSnapshot'
    BY <1>3 DEF TakeSnapshot, Growing, Versioned, Between, Working, OutcomeOfSnapshot, fileVars
  <2> QED
    BY <2>1, <2>2 DEF Growing
<1>4. CASE Probe
  <2>1. Versioned' /\ kept' # "failed"
    BY <1>4 DEF Probe, Growing, Versioned, fileVars
  <2>2. OutcomeOfSnapshot'
    BY <1>4 DEF Probe, OutcomeOfSnapshot
  <2>3. seen' = seen \union {disk} /\ disk \in Nat /\ snapshot <= disk /\ snapshot \in Nat
    BY <1>4 DEF Probe, Growing, Versioned, Between
  <2>4. CASE stage' = "done"
    BY <2>1, <2>2, <2>4 DEF Growing, Between, Working
  <2>5. CASE stage' = "before" /\ UNCHANGED <<snapshot, disk, outcome>>
    <3>1. outcome # "failed"
      BY <1>4 DEF Probe, Growing, Between
    <3> QED
      BY <1>4, <2>1, <2>2, <2>3, <2>5, <3>1 DEF Probe, Growing, Between, Working
  <2> QED
    BY <1>4, <2>4, <2>5 DEF Probe, fileVars
<1>5. CASE VerifyBefore
  <2>1. CASE SameFile
    BY <1>5, <2>1 DEF VerifyBefore, Growing, Versioned, Between, Working, OutcomeOfSnapshot,
       fileVars, scanVars
  <2>2. CASE ~SameFile
    BY <1>5, <2>2, Concluding DEF VerifyBefore, Growing, Versioned, Working, fileVars
  <2> QED
    BY <2>1, <2>2
<1>6. CASE OpenFile
  BY <1>6 DEF OpenFile, Growing, Versioned, Between, Working, OutcomeOfSnapshot, scanVars
<1>7. CASE VerifyAgain
  BY <1>7, Concluding DEF VerifyAgain, Working
<1>8. CASE FinalVerify
  <2>1. /\ seen # {} /\ snapshot \in Nat /\ seen \subseteq Nat
        /\ \A v \in seen : snapshot <= v /\ v <= disk
    BY <1>8 DEF FinalVerify, Growing, Versioned, Between, Working
  <2>2. disk = snapshot => seen = {snapshot}
    <3>1. disk = snapshot => \A v \in seen : v = snapshot
      BY <2>1
    <3> QED
      BY <2>1, <3>1
  <2> QED
    BY <1>8, <2>2 DEF FinalVerify, SameFile, Growing, Versioned, Between, Working,
       OutcomeOfSnapshot, fileVars
<1>9. CASE TextPacket
  <2>1. CASE AttemptFails
    BY <1>9, <2>1, Concluding DEF TextPacket, AttemptFails, Working
  <2>2. CASE UNCHANGED <<fileVars, stage, scanVars, judged>>
    BY <1>9, <2>2, ReadingOn DEF TextPacket
  <2> QED
    BY <1>9, <2>1, <2>2 DEF TextPacket
<1>10. CASE PgsPacket
  BY <1>10, ReadingOn DEF PgsPacket
<1>11. CASE Display
  BY <1>11, ReadingOn DEF Display
<1>12. CASE PacketEnds \/ TrackEnds \/ Assessment
  <2>1. CASE AttemptFails
    BY <1>12, <2>1, Concluding DEF PacketEnds, TrackEnds, Assessment, AttemptFails, Working
  <2>2. CASE UNCHANGED <<fileVars, scanVars>> /\ stage' \in {"packet", "assess", "after"}
    BY <1>12, <2>2, ReadingOn DEF PacketEnds, TrackEnds, Assessment
  <2> QED
    BY <1>12, <2>1, <2>2 DEF PacketEnds, TrackEnds, Assessment
<1> QED
  BY <1>1, <1>2, <1>3, <1>4, <1>5, <1>6, <1>7, <1>8, <1>9, <1>10, <1>11, <1>12 DEF ReadingNext

(* However often and whenever the file is replaced or rewritten, an outcome  *)
(* that is not a failure rests on the version of its snapshot alone.         *)
THEOREM OutcomesBelong == ReadingSpec => []OutcomeOfSnapshot
<1>1. Growing => OutcomeOfSnapshot
  BY DEF Growing
<1> QED
  BY <1>1, ReadingStarts, ReadingGoesOn, PTL DEF ReadingSpec

-----------------------------------------------------------------------------
(* An attempt, as it goes on.                                                *)
TimedCues == [start : Nat, end : Nat]
AttemptStates ==
    [packets : Nat, left : Nat, sound : BOOLEAN, spoiled : BOOLEAN, stopped : BOOLEAN,
     failure : BOOLEAN, clock : Nat, cues : Seq(TimedCues), active : BOOLEAN, frames : Nat,
     at : Nat, assessed : {<<>>} \union (Nat \X Findings), result : Findings \union {"none"}]
Trying == {"packet", "display", "assess", "after"}
Stages == {"start", "probe", "before", "open", "final", "done"} \union Trying
Judgements == [1..MaxCues -> Findings \union {"?"}]

(* Cues come in the order of their starts; a picture that is shown ends      *)
(* provisionally, any other one before the next and before the clock.        *)
InOrder(a, pictures) ==
    /\ \A i \in DOMAIN a.cues : LET c == a.cues[i] IN
          /\ c.start < c.end /\ c.start <= Milli(a.clock)
          /\ i > 1 => a.cues[i - 1].start <= c.start
          /\ pictures /\ i < Len(a.cues) => c.end <= a.cues[i + 1].start \/ c.end = c.start + 1
          /\ pictures => \/ c.end <= Milli(a.clock) \/ c.end = c.start + 1
    /\ a.active => a.cues # <<>> /\ pictures

(* A checkpoint's assessment is of all cues if no frame was counted since.   *)
Standing(a, j) ==
    a.assessed # <<>> => /\ a.assessed[1] <= a.frames
                         /\ a.assessed[1] = a.frames =>
                               Len(a.cues) \in 1..MaxCues /\ j[Len(a.cues)] = a.assessed[2]

Proceeding(a, j, pictures) ==
    /\ a \in AttemptStates /\ j \in Judgements
    /\ InOrder(a, pictures) /\ Standing(a, j)
    /\ Len(a.cues) <= MaxCues
    /\ ~pictures => Len(a.cues) <= a.packets /\ a.assessed = <<>>

Attempted ==
    /\ stage \in Stages
    /\ stage \notin Trying => attempt = NewAttempt /\ judged \in Judgements
    /\ stage \in Trying => Proceeding(attempt, judged, Pictures)
    /\ attempt.spoiled => stage = "display" /\ ~attempt.sound
    /\ stage = "display" => Pictures
    /\ stage = "after" => JudgedWhole

LEMMA MilliGrows ==
    ASSUME NEW s \in Nat, NEW t \in Nat, s <= t
    PROVE  Milli(s) \in Nat /\ Milli(s) <= Milli(t)
BY ReadingAssumption, SMTT(20) DEF Milli

LEMMA NewAttempts == \A p \in BOOLEAN : \A j \in Judgements : Proceeding(NewAttempt, j, p)
<1>1. NewAttempt \in AttemptStates /\ NewAttempt.cues = <<>>
  BY DEF NewAttempt, AttemptStates
<1> QED
  BY <1>1, ReadingAssumption DEF Proceeding, NewAttempt, InOrder, Standing

LEMMA Replacing ==
    ASSUME NEW s \in Seq(TimedCues), NEW n \in 1..Len(s), NEW c \in TimedCues
    PROVE  /\ [s EXCEPT ![n] = c] \in Seq(TimedCues) /\ Len([s EXCEPT ![n] = c]) = Len(s)
           /\ \A i \in 1..Len(s) : [s EXCEPT ![n] = c][i] = IF i = n THEN c ELSE s[i]
  OBVIOUS

(* The picture shown, if any, ends.                                          *)
LEMMA Ending ==
    ASSUME Proceeding(attempt, judged, TRUE)
    PROVE  /\ TrackEnded \in Seq(TimedCues) /\ Len(TrackEnded) = Len(attempt.cues)
           /\ \A i \in DOMAIN TrackEnded : LET c == TrackEnded[i] IN
                 /\ c.start < c.end /\ c.start <= Milli(attempt.clock)
                 /\ i > 1 => TrackEnded[i - 1].start <= c.start
                 /\ i < Len(TrackEnded) => c.end <= TrackEnded[i + 1].start \/ c.end = c.start + 1
                 /\ c.end <= Milli(attempt.clock) \/ c.end = c.start + 1
<1> DEFINE cues == attempt.cues
           now == Milli(attempt.clock)
<1>1. cues \in Seq(TimedCues) /\ now \in Nat /\ DOMAIN cues = 1..Len(cues) /\ Len(cues) \in Nat
      /\ \A i \in 1..Len(cues) : cues[i] \in TimedCues
  <2>1. cues \in Seq(TimedCues) /\ attempt.clock \in Nat
    BY DEF Proceeding, AttemptStates
  <2>2. now \in Nat
    BY <2>1, MilliGrows
  <2> HIDE DEF cues, now
  <2> QED
    BY <2>1, <2>2
<1>2. \A i \in 1..Len(cues) : /\ cues[i].start < cues[i].end /\ cues[i].start <= now
                              /\ i > 1 => cues[i - 1].start <= cues[i].start
                              /\ i < Len(cues) => \/ cues[i].end <= cues[i + 1].start
                                                  \/ cues[i].end = cues[i].start + 1
                              /\ cues[i].end <= now \/ cues[i].end = cues[i].start + 1
  BY <1>1 DEF Proceeding, InOrder
<1>3. CASE TrackEnded = cues
  <2> HIDE DEF cues, now
  <2>1. \A i \in 1..Len(cues) : LET c == cues[i] IN
                 /\ c.start < c.end /\ c.start <= now
                 /\ i > 1 => cues[i - 1].start <= c.start
                 /\ i < Len(cues) => c.end <= cues[i + 1].start \/ c.end = c.start + 1
                 /\ c.end <= now \/ c.end = c.start + 1
    BY <1>2
  <2> QED
    BY <1>1, <1>3, <2>1 DEF cues, now
<1>4. CASE attempt.active /\ now > cues[Len(cues)].start
  <2>1. cues # <<>> /\ Len(cues) \in 1..Len(cues)
    BY <1>1, <1>4 DEF Proceeding, InOrder
  <2> DEFINE last == [cues[Len(cues)] EXCEPT !.end = now]
  <2>2. TrackEnded = [cues EXCEPT ![Len(cues)] = last]
    BY <1>4 DEF TrackEnded
  <2>3. last \in TimedCues /\ last.start = cues[Len(cues)].start /\ last.end = now
    <3> HIDE DEF cues, now
    <3> QED
      BY <1>1, <2>1 DEF TimedCues
  <2> HIDE DEF cues, now, last
  <2>4. /\ TrackEnded \in Seq(TimedCues) /\ Len(TrackEnded) = Len(cues)
        /\ \A i \in 1..Len(cues) : TrackEnded[i] = IF i = Len(cues) THEN last ELSE cues[i]
    BY <1>1, <2>1, <2>2, <2>3, Replacing
  <2>5. \A i \in 1..Len(cues) : /\ TrackEnded[i].start = cues[i].start
                                /\ i < Len(cues) => TrackEnded[i].end = cues[i].end
                                /\ i = Len(cues) => TrackEnded[i].end = now
    <3> SUFFICES ASSUME NEW i \in 1..Len(cues)
                 PROVE  /\ TrackEnded[i].start = cues[i].start
                        /\ i < Len(cues) => TrackEnded[i].end = cues[i].end
                        /\ i = Len(cues) => TrackEnded[i].end = now
      OBVIOUS
    <3>1. CASE i = Len(cues)
      <4>1. TrackEnded[i] = last
        BY <2>4, <3>1
      <4> QED
        BY <2>3, <3>1, <4>1
    <3>2. CASE i # Len(cues)
      <4>1. TrackEnded[i] = cues[i]
        BY <2>4, <3>2
      <4> QED
        BY <3>2, <4>1
    <3> QED
      BY <3>1, <3>2
  <2>6. \A i \in 1..Len(cues) : LET c == TrackEnded[i] IN
                 /\ c.start < c.end /\ c.start <= now
                 /\ i > 1 => TrackEnded[i - 1].start <= c.start
                 /\ i < Len(cues) => c.end <= TrackEnded[i + 1].start \/ c.end = c.start + 1
                 /\ c.end <= now \/ c.end = c.start + 1
    <3> SUFFICES ASSUME NEW i \in 1..Len(cues)
                 PROVE  LET c == TrackEnded[i] IN
                 /\ c.start < c.end /\ c.start <= now
                 /\ i > 1 => TrackEnded[i - 1].start <= c.start
                 /\ i < Len(cues) => c.end <= TrackEnded[i + 1].start \/ c.end = c.start + 1
                 /\ c.end <= now \/ c.end = c.start + 1
      OBVIOUS
    <3>1. cues[i].start \in Nat /\ cues[i].end \in Nat
      BY <1>1 DEF TimedCues
    <3>7. Len(cues) \in Nat /\ i \in Nat
      BY <1>1
    <3>8. (i > 1 => i - 1 \in 1..Len(cues)) /\ (i < Len(cues) => i + 1 \in 1..Len(cues))
      BY <3>7
    <3>2. i > 1 => TrackEnded[i - 1].start = cues[i - 1].start
      BY <3>8, <2>5
    <3>3. i < Len(cues) => TrackEnded[i + 1].start = cues[i + 1].start
      BY <3>8, <2>5
    <3>9. /\ TrackEnded[i].start = cues[i].start
          /\ i < Len(cues) => TrackEnded[i].end = cues[i].end
          /\ i = Len(cues) => TrackEnded[i].end = now
      BY <2>5
    <3>10. /\ cues[i].start < cues[i].end /\ cues[i].start <= now
           /\ i > 1 => cues[i - 1].start <= cues[i].start
           /\ i < Len(cues) => \/ cues[i].end <= cues[i + 1].start
                                \/ cues[i].end = cues[i].start + 1
           /\ cues[i].end <= now \/ cues[i].end = cues[i].start + 1
      BY <1>2
    <3>4. now > cues[Len(cues)].start
      BY <1>4 DEF cues, now
    <3>5. CASE i < Len(cues)
      BY <3>2, <3>3, <3>5, <3>7, <3>9, <3>10
    <3>6. CASE i = Len(cues)
      <4>1. now \in Nat /\ cues[i].start < now
        BY <1>1, <3>4, <3>6
      <4> QED
        BY <3>1, <3>2, <3>6, <3>7, <3>9, <3>10, <4>1
    <3> QED
      BY <3>5, <3>6, <3>7
  <2> QED
    BY <1>1, <2>4, <2>6 DEF cues, now
<1> QED
  BY <1>3, <1>4 DEF TrackEnded

(* One cue more, that starts at the clock.                                   *)
LEMMA Appending ==
    ASSUME NEW s \in Seq(TimedCues), NEW c \in TimedCues
    PROVE  /\ Append(s, c) \in Seq(TimedCues) /\ Len(Append(s, c)) = Len(s) + 1
           /\ DOMAIN Append(s, c) = 1..(Len(s) + 1) /\ Len(s) \in Nat
           /\ \A i \in 1..Len(s) : Append(s, c)[i] = s[i] /\ s[i] \in TimedCues
           /\ Append(s, c)[Len(s) + 1] = c
  OBVIOUS

LEMMA Pushed ==
    ASSUME Proceeding(attempt, judged, TRUE), attempt.left > 0,
           NEW d \in {"unchanged", "clear", "blank", "text", "unreadable"},
           NEW a, a = [Push(d) EXCEPT !.left = @ - 1], Len(a.cues) <= MaxCues
    PROVE  /\ Proceeding(a, judged, TRUE) /\ a.spoiled = attempt.spoiled /\ a.sound = attempt.sound
<1>1. attempt \in AttemptStates /\ Milli(attempt.clock) \in Nat
  BY MilliGrows DEF Proceeding, AttemptStates
<1>2. attempt.left - 1 \in Nat /\ attempt.frames + 1 \in Nat
  BY <1>1 DEF AttemptStates
<1>a. TrackEnded \in Seq(TimedCues)
  BY Ending
<1>3. CASE d = "unchanged"
  <2>1. a = [attempt EXCEPT !.left = @ - 1]
    BY <1>3 DEF Push
  <2> QED
    BY <1>1, <1>2, <2>1 DEF Proceeding, InOrder, Standing, AttemptStates
<1>4. CASE d \in {"clear", "blank", "unreadable"}
  <2>1. /\ a \in AttemptStates /\ a.cues = TrackEnded /\ ~a.active /\ a.clock = attempt.clock
        /\ a.assessed = attempt.assessed /\ a.frames \in {attempt.frames, attempt.frames + 1}
        /\ a.spoiled = attempt.spoiled /\ a.sound = attempt.sound
    <3>1. CASE d = "clear"
      <4>1. a = [attempt EXCEPT !.cues = TrackEnded, !.active = FALSE, !.left = @ - 1]
        BY <3>1 DEF Push
      <4>2. a \in AttemptStates
        BY <1>1, <1>2, <1>a, <4>1, ZenonT(60) DEF AttemptStates
      <4> QED
        BY <1>1, <4>1, <4>2, ZenonT(60) DEF AttemptStates
    <3>2. CASE d = "blank"
      <4>1. a = [attempt EXCEPT !.cues = TrackEnded, !.active = FALSE, !.frames = @ + 1,
                                !.left = @ - 1]
        BY <3>2 DEF Push
      <4>2. a \in AttemptStates
        BY <1>1, <1>2, <1>a, <4>1, ZenonT(60) DEF AttemptStates
      <4> QED
        BY <1>1, <4>1, <4>2, ZenonT(60) DEF AttemptStates
    <3>3. CASE d = "unreadable"
      <4>1. a = [attempt EXCEPT !.cues = TrackEnded, !.active = FALSE, !.stopped = TRUE,
                                !.failure = TRUE, !.left = @ - 1]
        BY <3>3 DEF Push
      <4>2. a \in AttemptStates
        BY <1>1, <1>2, <1>a, <4>1, ZenonT(60) DEF AttemptStates
      <4> QED
        BY <1>1, <4>1, <4>2, ZenonT(60) DEF AttemptStates
    <3> QED
      BY <1>4, <3>1, <3>2, <3>3
  <2>2. InOrder(a, TRUE)
    BY <2>1, Ending DEF InOrder
  <2>3. Standing(a, judged)
    <3>1. attempt.frames \in Nat /\ Len(a.cues) = Len(attempt.cues) /\ Standing(attempt, judged)
          /\ (attempt.assessed # <<>> => attempt.assessed[1] \in Nat)
      BY <1>1, <2>1, Ending DEF Proceeding, AttemptStates
    <3> QED
      BY <2>1, <3>1 DEF Standing
  <2> QED
    BY <2>1, <2>2, <2>3 DEF Proceeding
<1>5. CASE d = "text"
  <2> DEFINE now == Milli(attempt.clock)
             new == [start |-> now, end |-> now + 1]
  <2>1. Captions(attempt.clock, NoValue) = new
    BY DEF Captions
  <2>2. new \in TimedCues
    BY <1>1 DEF TimedCues
  <2>7. a = [attempt EXCEPT !.active = TRUE, !.frames = @ + 1, !.cues = Append(TrackEnded, new),
                            !.left = @ - 1]
    BY <1>5, <2>1 DEF Push
  <2>8. Append(TrackEnded, new) \in Seq(TimedCues)
    BY <2>2, Ending, Appending, Zenon
  <2> HIDE DEF new
  <2>3. /\ a.cues = Append(TrackEnded, new) /\ a.active /\ a.clock = attempt.clock
        /\ a.assessed = attempt.assessed /\ a.frames = attempt.frames + 1
        /\ a.spoiled = attempt.spoiled /\ a.sound = attempt.sound /\ a.cues \in Seq(TimedCues)
    BY <1>1, <2>7, <2>8 DEF AttemptStates
  <2>4. a \in AttemptStates
    BY <1>1, <1>2, <2>7, <2>8, ZenonT(60) DEF AttemptStates
  <2> USE DEF new
  <2>5. InOrder(a, TRUE)
    <3> DEFINE s == TrackEnded
    <3>1. /\ s \in Seq(TimedCues) /\ Len(s) \in Nat /\ DOMAIN s = 1..Len(s)
          /\ \A i \in 1..Len(s) : s[i] \in TimedCues
      BY Ending
    <3>2. \A i \in 1..Len(s) : LET c == s[i] IN
                 /\ c.start < c.end /\ c.start <= now
                 /\ i > 1 => s[i - 1].start <= c.start
                 /\ i < Len(s) => c.end <= s[i + 1].start \/ c.end = c.start + 1
                 /\ c.end <= now \/ c.end = c.start + 1
      BY Ending, <3>1
    <3>3. /\ Len(a.cues) = Len(s) + 1 /\ DOMAIN a.cues = 1..(Len(s) + 1)
          /\ \A i \in 1..Len(s) : a.cues[i] = s[i]
          /\ a.cues[Len(s) + 1].start = now /\ a.cues[Len(s) + 1].end = now + 1
      BY <2>2, <2>3, <3>1, Appending
    <3> HIDE DEF s, now
    <3>4. \A i \in 1..(Len(s) + 1) : LET c == a.cues[i] IN
                 /\ c.start < c.end /\ c.start <= now
                 /\ i > 1 => a.cues[i - 1].start <= c.start
                 /\ i < Len(s) + 1 => c.end <= a.cues[i + 1].start \/ c.end = c.start + 1
                 /\ c.end <= now \/ c.end = c.start + 1
      <4> SUFFICES ASSUME NEW i \in 1..(Len(s) + 1)
                   PROVE  LET c == a.cues[i] IN
                 /\ c.start < c.end /\ c.start <= now
                 /\ i > 1 => a.cues[i - 1].start <= c.start
                 /\ i < Len(s) + 1 => c.end <= a.cues[i + 1].start \/ c.end = c.start + 1
                 /\ c.end <= now \/ c.end = c.start + 1
        OBVIOUS
      <4>1. now \in Nat
        BY <1>1 DEF now
      <4>2. CASE i = Len(s) + 1
        BY <3>1, <3>2, <3>3, <4>1, <4>2
      <4>3. CASE i = Len(s)
        <5>1. /\ s[i].start < s[i].end /\ s[i].start <= now
              /\ i > 1 => s[i - 1].start <= s[i].start
              /\ s[i].end <= now \/ s[i].end = s[i].start + 1
          <6>1. i \in 1..Len(s)
            BY <3>1, <4>3
          <6> QED
            BY <3>2, <6>1
        <5>2. a.cues[i] = s[i] /\ a.cues[i + 1].start = now /\ (i > 1 => a.cues[i - 1] = s[i - 1])
          BY <3>1, <3>3, <4>3
        <5> QED
          BY <5>1, <5>2
      <4>4. CASE i < Len(s)
        <5>1. /\ s[i].start < s[i].end /\ s[i].start <= now
              /\ i > 1 => s[i - 1].start <= s[i].start
              /\ s[i].end <= s[i + 1].start \/ s[i].end = s[i].start + 1
              /\ s[i].end <= now \/ s[i].end = s[i].start + 1
          BY <3>1, <3>2, <4>4
        <5>2. /\ a.cues[i] = s[i] /\ a.cues[i + 1] = s[i + 1]
              /\ i > 1 => a.cues[i - 1] = s[i - 1]
          BY <3>1, <3>3, <4>4
        <5> QED
          BY <5>1, <5>2
      <4> QED
        BY <3>1, <4>2, <4>3, <4>4
    <3> QED
      <4>1. a.cues # <<>> /\ Milli(a.clock) = now
        BY <2>3, <3>1, <3>3 DEF now
      <4> DEFINE n == Len(s) + 1
      <4>2. Len(a.cues) = n /\ DOMAIN a.cues = 1..n
        BY <3>3
      <4>3. \A i \in 1..n : LET c == a.cues[i] IN
                 /\ c.start < c.end /\ c.start <= now
                 /\ i > 1 => a.cues[i - 1].start <= c.start
                 /\ i < n => c.end <= a.cues[i + 1].start \/ c.end = c.start + 1
                 /\ c.end <= now \/ c.end = c.start + 1
        BY <3>4, Zenon
      <4> HIDE DEF n
      <4> QED
        BY <4>1, <4>2, <4>3, Zenon DEF InOrder
  <2>6. Standing(a, judged)
    <3>1. /\ attempt.frames \in Nat
          /\ attempt.assessed # <<>> => /\ attempt.assessed[1] \in Nat
                                       /\ attempt.assessed[1] <= attempt.frames
      BY <1>1 DEF Standing, Proceeding, AttemptStates
    <3>2. a.assessed = attempt.assessed /\ a.frames = attempt.frames + 1
      BY <2>3
    <3> QED
      BY <3>1, <3>2 DEF Standing
  <2> QED
    BY <2>3, <2>4, <2>5, <2>6 DEF Proceeding
<1> QED
  BY <1>3, <1>4, <1>5

(* The next packet: a later clock, and the cue it brings in a text track.    *)
LEMMA ClockAdvances ==
    ASSUME Proceeding(attempt, judged, TRUE), NEW t \in attempt.clock..TrackTime, NEW n \in Nat,
           NEW sound \in BOOLEAN,
           ReadsPacket([clock |-> t, cues |-> attempt.cues, left |-> n, sound |-> sound])
    PROVE  Proceeding(attempt', judged, TRUE) /\ (attempt'.spoiled => attempt.spoiled \/ ~attempt'.sound)
<1>1. attempt \in AttemptStates /\ attempt.clock \in Nat /\ attempt.packets + 1 \in Nat /\ t \in Nat
      /\ attempt.clock <= t
  BY ReadingAssumption DEF Proceeding, AttemptStates
<1>2. Milli(attempt.clock) \in Nat /\ Milli(t) \in Nat /\ Milli(attempt.clock) <= Milli(t)
  BY <1>1, MilliGrows
<1>3. attempt' = [attempt EXCEPT !.packets = @ + 1, !.clock = t, !.cues = attempt.cues, !.left = n,
                                 !.sound = sound, !.spoiled = @ \/ ~sound]
  BY DEF ReadsPacket
<1>4. /\ attempt' \in AttemptStates /\ attempt'.cues = attempt.cues /\ attempt'.clock = t
      /\ attempt'.active = attempt.active /\ attempt'.assessed = attempt.assessed
      /\ attempt'.frames = attempt.frames
      /\ attempt'.spoiled = (attempt.spoiled \/ ~sound) /\ attempt'.sound = sound
  <2>1. attempt' \in AttemptStates
    BY <1>1, <1>3, ZenonT(60) DEF AttemptStates
  <2> QED
    BY <1>1, <1>3, <2>1 DEF AttemptStates
<1>5. InOrder(attempt', TRUE)
  <2>1. ASSUME NEW i \in DOMAIN attempt.cues
        PROVE  /\ attempt.cues[i].start <= Milli(t)
               /\ attempt.cues[i].end <= Milli(t) \/ attempt.cues[i].end = attempt.cues[i].start + 1
    <3>1. attempt.cues[i] \in TimedCues
      BY <1>1 DEF AttemptStates
    <3>2. /\ attempt.cues[i].start <= Milli(attempt.clock)
          /\ \/ attempt.cues[i].end <= Milli(attempt.clock)
             \/ attempt.cues[i].end = attempt.cues[i].start + 1
      BY DEF Proceeding, InOrder
    <3> QED
      BY <1>2, <3>1, <3>2 DEF TimedCues
  <2> QED
    BY <1>4, <2>1 DEF Proceeding, InOrder
<1>6. Standing(attempt', judged)
  BY <1>4 DEF Proceeding, Standing
<1> QED
  BY <1>4, <1>5, <1>6 DEF Proceeding

LEMMA CaptionTimes ==
    ASSUME NEW t \in Nat, NEW d \in {0, PerMilli, NoValue}
    PROVE  Captions(t, d) \in TimedCues /\ Captions(t, d).start = Milli(t)
           /\ Captions(t, d).start < Captions(t, d).end
<1>1. Milli(t) \in Nat
  BY MilliGrows
<1>2. Milli(t + d) \in Nat
  BY MilliGrows, ReadingAssumption DEF NoValue
<1> DEFINE new == [start |-> Milli(t),
                   end |-> IF d = NoValue \/ Milli(t + d) <= Milli(t) THEN Milli(t) + 1
                           ELSE Milli(t + d)]
<1>3. new \in TimedCues /\ new.start = Milli(t) /\ new.start < new.end
  BY <1>1, <1>2 DEF TimedCues
<1> QED
  BY <1>3 DEF Captions

LEMMA TextGoesOn ==
    ASSUME Proceeding(attempt, judged, FALSE), attempt.packets < TrackPackets, ~attempt.spoiled,
           NEW t \in 0..TrackTime, NEW d \in {0, PerMilli, NoValue}, ~Untimed(t, d),
           ReadsPacket([clock |-> t, cues |-> Append(attempt.cues, Captions(t, d)), left |-> 0,
                        sound |-> TRUE])
    PROVE  Proceeding(attempt', judged, FALSE) /\ ~attempt'.spoiled
<1> DEFINE s == attempt.cues
           new == Captions(t, d)
<1>1. /\ attempt \in AttemptStates /\ attempt.clock \in Nat /\ attempt.packets \in Nat /\ t \in Nat
      /\ s \in Seq(TimedCues)
  BY ReadingAssumption DEF Proceeding, AttemptStates
<1>2. attempt.clock <= t
  BY <1>1 DEF Untimed
<1>3. Milli(attempt.clock) \in Nat /\ Milli(t) \in Nat /\ Milli(attempt.clock) <= Milli(t)
  <2>1. attempt.clock \in Nat /\ t \in Nat /\ attempt.clock <= t /\ t <= t
    BY <1>1, <1>2
  <2> QED
    BY <2>1, MilliGrows
<1>4. new \in TimedCues /\ new.start = Milli(t) /\ new.start < new.end
  BY <1>1, CaptionTimes
<1>5. attempt' = [attempt EXCEPT !.packets = @ + 1, !.clock = t, !.cues = Append(s, new), !.left = 0,
                                 !.sound = TRUE, !.spoiled = @ \/ ~TRUE]
  BY DEF ReadsPacket
<1> HIDE DEF new
<1>6. /\ attempt'.cues = Append(s, new) /\ attempt'.clock = t /\ attempt'.active = attempt.active
      /\ attempt'.assessed = attempt.assessed /\ attempt'.packets = attempt.packets + 1
      /\ ~attempt'.spoiled
  BY <1>1, <1>5 DEF AttemptStates
<1>7. attempt' \in AttemptStates
  <2>1. Append(s, new) \in Seq(TimedCues) /\ attempt.packets + 1 \in Nat
    BY <1>1, <1>4, Appending
  <2> QED
    BY <1>1, <1>5, <2>1 DEF AttemptStates
<1>8. /\ Len(attempt'.cues) = Len(s) + 1 /\ Len(s) \in Nat /\ DOMAIN attempt'.cues = 1..(Len(s) + 1)
      /\ DOMAIN s = 1..Len(s)
      /\ \A i \in 1..Len(s) : attempt'.cues[i] = s[i] /\ s[i] \in TimedCues
      /\ attempt'.cues[Len(s) + 1] = new
  BY <1>1, <1>4, <1>6, Appending
<1>9. InOrder(attempt', FALSE)
  <2>1. ASSUME NEW i \in 1..(Len(s) + 1)
        PROVE  LET c == attempt'.cues[i] IN
                  /\ c.start < c.end /\ c.start <= Milli(t)
                  /\ i > 1 => attempt'.cues[i - 1].start <= c.start
    <3>1. \A k \in 1..Len(s) : /\ s[k].start < s[k].end /\ s[k].start <= Milli(attempt.clock)
                               /\ k > 1 => s[k - 1].start <= s[k].start
                               /\ s[k].start \in Nat
      BY <1>8 DEF Proceeding, InOrder, TimedCues
    <3>2. i - 1 \in 1..Len(s) \/ i = 1
      BY <1>8
    <3>3. CASE i \in 1..Len(s)
      <4>1. i > 1 => attempt'.cues[i - 1] = s[i - 1]
        BY <1>8, <3>2, <3>3
      <4> QED
        <5>1. /\ s[i].start < s[i].end /\ s[i].start <= Milli(attempt.clock) /\ s[i].start \in Nat
              /\ i > 1 => s[i - 1].start <= s[i].start
          BY <3>1, <3>3
        <5>2. attempt'.cues[i] = s[i]
          BY <1>8, <3>3
        <5>3. s[i].start <= Milli(t)
          BY <1>3, <5>1
        <5> QED
          BY <4>1, <5>1, <5>2, <5>3
    <3>4. CASE i = Len(s) + 1
      <4>1. i > 1 => /\ attempt'.cues[i - 1] = s[i - 1] /\ s[i - 1].start <= Milli(attempt.clock)
                     /\ s[i - 1].start \in Nat
        BY <1>8, <3>1, <3>2
      <4>2. attempt'.cues[i] = new
        BY <1>8, <3>4
      <4> QED
        BY <1>3, <1>4, <4>1, <4>2
    <3> QED
      BY <1>8, <3>3, <3>4
  <2>2. ~attempt'.active
    BY <1>6 DEF Proceeding, InOrder
  <2> QED
    BY <1>6, <1>8, <2>1, <2>2 DEF InOrder
<1>10. Len(attempt'.cues) <= attempt'.packets /\ Len(attempt'.cues) <= MaxCues
  BY <1>1, <1>6, <1>8, ReadingAssumption DEF Proceeding
<1>11. attempt'.assessed = <<>>
  BY <1>6 DEF Proceeding
<1> QED
  BY <1>6, <1>7, <1>9, <1>10, <1>11 DEF Proceeding, Standing

(* Matching is a function of the cues: what was once said of them is said    *)
(* again.                                                                    *)
LEMMA Judging ==
    ASSUME judged \in Judgements, NEW n \in 1..MaxCues, NEW v \in Findings, Judge(n, v)
    PROVE  /\ judged' \in Judgements /\ judged'[n] = v
           /\ \A m \in 1..MaxCues : judged[m] # "?" => judged'[m] = judged[m]
BY DEF Judge, Judgements, Findings

LEMMA Checked ==
    ASSUME NEW a, Proceeding(a, judged, TRUE), AtCheckpoint(a)
    PROVE  Proceeding(attempt', judged', TRUE) /\ attempt'.spoiled = a.spoiled /\ attempt'.sound = a.sound
<1>1. a \in AttemptStates /\ judged \in Judgements /\ a.at + 1 \in Nat
  BY DEF Proceeding, AttemptStates
<1>2. ASSUME NEW stop \in BOOLEAN, NEW failure \in BOOLEAN, UNCHANGED judged,
             attempt' = [a EXCEPT !.failure = failure, !.stopped = stop, !.at = @ + 1]
      PROVE  Proceeding(attempt', judged', TRUE) /\ attempt'.spoiled = a.spoiled
             /\ attempt'.sound = a.sound
  <2>1. /\ attempt' \in AttemptStates /\ attempt'.cues = a.cues /\ attempt'.clock = a.clock
        /\ attempt'.active = a.active /\ attempt'.assessed = a.assessed /\ attempt'.frames = a.frames
        /\ attempt'.spoiled = a.spoiled /\ attempt'.sound = a.sound
    BY <1>1, <1>2 DEF AttemptStates
  <2> QED
    BY <1>2, <2>1 DEF Proceeding, InOrder, Standing
<1>3. ASSUME a.cues # <<>>, NEW v \in Findings, Judge(Len(a.cues), v), NEW stop \in BOOLEAN,
             NEW failure \in BOOLEAN,
             attempt' = [a EXCEPT !.at = @ + 1, !.failure = failure, !.stopped = stop,
                                  !.assessed = IF v = "failed" THEN @ ELSE <<a.frames, v>>]
      PROVE  Proceeding(attempt', judged', TRUE) /\ attempt'.spoiled = a.spoiled
             /\ attempt'.sound = a.sound
  <2>1. Len(a.cues) \in 1..MaxCues
    BY <1>1, <1>3, ReadingAssumption DEF Proceeding, AttemptStates
  <2>2. /\ judged' \in Judgements /\ judged'[Len(a.cues)] = v
        /\ \A m \in 1..MaxCues : judged[m] # "?" => judged'[m] = judged[m]
    BY <1>1, <1>3, <2>1, Judging
  <2>3. /\ attempt' \in AttemptStates /\ attempt'.cues = a.cues /\ attempt'.clock = a.clock
        /\ attempt'.active = a.active /\ attempt'.frames = a.frames
        /\ attempt'.assessed = IF v = "failed" THEN a.assessed ELSE <<a.frames, v>>
        /\ attempt'.spoiled = a.spoiled /\ attempt'.sound = a.sound
    <3> DEFINE w == IF v = "failed" THEN a.assessed ELSE <<a.frames, v>>
    <3>1. w \in {<<>>} \union (Nat \X Findings)
      BY <1>1, <1>3 DEF AttemptStates
    <3>2. attempt' = [a EXCEPT !.at = @ + 1, !.failure = failure, !.stopped = stop, !.assessed = w]
      BY <1>3
    <3> HIDE DEF w
    <3>3. attempt' \in AttemptStates
      BY <1>1, <1>3, <3>1, <3>2 DEF AttemptStates
    <3>4. /\ attempt'.cues = a.cues /\ attempt'.clock = a.clock
          /\ attempt'.active = a.active /\ attempt'.frames = a.frames
          /\ attempt'.assessed = w
          /\ attempt'.spoiled = a.spoiled /\ attempt'.sound = a.sound
      BY <1>1, <3>2 DEF AttemptStates
    <3> QED
      BY <3>3, <3>4 DEF w
  <2>4. Standing(attempt', judged')
    <3>1. CASE v = "failed"
      <4>1. ASSUME a.assessed # <<>> PROVE a.assessed[2] # "?"
        BY <1>1, <4>1 DEF AttemptStates, Findings
      <4> QED
        BY <2>1, <2>2, <2>3, <3>1, <4>1 DEF Proceeding, Standing
    <3>2. CASE v # "failed"
      <4>1. a.frames \in Nat
        BY <1>1 DEF AttemptStates
      <4> QED
        BY <2>1, <2>2, <2>3, <3>2, <4>1 DEF Standing
    <3> QED
      BY <3>1, <3>2
  <2> QED
    BY <2>2, <2>3, <2>4 DEF Proceeding, InOrder
<1>4. CASE a.at < Len(Checkpoints)
           /\ attempt' = [a EXCEPT !.failure = TRUE, !.stopped = TRUE, !.at = @ + 1]
           /\ UNCHANGED judged
  BY <1>2, <1>4
<1>5. CASE a.cues = <<>> /\ UNCHANGED judged
           /\ attempt' = [a EXCEPT !.at = @ + 1, !.stopped = (a.at = Len(Checkpoints))]
  <2>1. attempt' = [a EXCEPT !.failure = a.failure, !.stopped = (a.at = Len(Checkpoints)), !.at = @ + 1]
    BY <1>1, <1>5 DEF AttemptStates
  <2> QED
    BY <1>1, <1>2, <1>5, <2>1 DEF AttemptStates
<1>6. CASE /\ a.cues # <<>>
           /\ \E v \in Findings :
             /\ Judge(Len(a.cues), v)
             /\ attempt' = [a EXCEPT !.at = @ + 1, !.failure = (v = "failed"),
                   !.stopped = v \in {"identified", "failed"} \/ a.at = Len(Checkpoints),
                   !.assessed = IF v = "failed" THEN @ ELSE <<a.frames, v>>]
  BY <1>3, <1>6
<1> QED
  BY <1>4, <1>5, <1>6 DEF AtCheckpoint

LEMMA AttemptsStart == ReadingInit => Attempted
<1> SUFFICES ASSUME ReadingInit PROVE Attempted
  OBVIOUS
<1>1. judged \in Judgements
  BY DEF ReadingInit, Judgements
<1>2. ~attempt.spoiled
  BY DEF ReadingInit, NewAttempt
<1> QED
  BY <1>1, <1>2 DEF ReadingInit, Attempted, Stages, Trying

LEMMA AttemptEnds == ASSUME NEW v, Conclude(v) PROVE Attempted'
<1>1. judged' \in Judgements /\ attempt' = NewAttempt /\ stage' \in {"before", "final", "done"}
  BY DEF Conclude, Judgements
<1>2. ~attempt'.spoiled
  BY <1>1 DEF NewAttempt
<1> QED
  BY <1>1, <1>2 DEF Attempted, Stages, Trying

LEMMA AttemptsGoOn == Attempted /\ [ReadingNext]_readingVars => Attempted'
<1> SUFFICES ASSUME Attempted, [ReadingNext]_readingVars PROVE Attempted'
  OBVIOUS
<1>1. CASE UNCHANGED <<stage, scanVars, attempt, judged>>
  BY <1>1 DEF Attempted, Pictures, JudgedWhole, scanVars
<1>2. CASE UNCHANGED <<attempt, judged>> /\ stage \notin Trying /\ stage' \in Stages \ Trying
  BY <1>2 DEF Attempted, Trying
<1>3. CASE OpenFile
  <2>1. attempt = NewAttempt /\ judged \in Judgements /\ Pictures \in BOOLEAN
        /\ UNCHANGED <<attempt, judged>> /\ Pictures' = Pictures /\ stage' = "packet"
    BY <1>3 DEF OpenFile, Attempted, Trying, Pictures, scanVars
  <2>2. Proceeding(attempt', judged', Pictures') /\ ~attempt'.spoiled
    BY <2>1, NewAttempts DEF NewAttempt
  <2> QED
    BY <2>1, <2>2 DEF Attempted, Stages, Trying
<1>4. ASSUME stage \in Trying, stage' \in {"packet", "display", "assess"}, UNCHANGED scanVars,
             Proceeding(attempt', judged', Pictures), attempt'.spoiled => stage' = "display" /\ ~attempt'.sound,
             stage' = "display" => Pictures
      PROVE  Attempted'
  BY <1>4 DEF Attempted, Stages, Trying, Pictures, scanVars
<1>5. CASE TextPacket
  <2>1. CASE AttemptFails
    BY <2>1, AttemptEnds DEF AttemptFails
  <2>2. CASE ~AttemptFails
    <3>1. stage = "packet" /\ ~Pictures /\ attempt.packets < TrackPackets
          /\ UNCHANGED <<stage, scanVars, judged>>
      BY <1>5, <2>2 DEF TextPacket
    <3>2. PICK t \in 0..TrackTime, d \in {0, PerMilli, NoValue} :
             ~Untimed(t, d) /\ ReadsPacket([clock |-> t, cues |-> Append(attempt.cues, Captions(t, d)),
                                          left |-> 0, sound |-> TRUE])
      BY <1>5, <2>2 DEF TextPacket
    <3>3. Pictures = FALSE /\ Proceeding(attempt, judged, FALSE) /\ ~attempt.spoiled
      <4>1. Pictures = FALSE
        BY <3>1 DEF Pictures
      <4> QED
        BY <3>1, <4>1 DEF Attempted, Trying
    <3>4. Proceeding(attempt', judged, FALSE) /\ ~attempt'.spoiled
      BY <3>1, <3>2, <3>3, TextGoesOn
    <3> QED
      BY <1>4, <3>1, <3>3, <3>4 DEF Trying
  <2> QED
    BY <2>1, <2>2
<1>6. ASSUME stage \in {"packet", "display"}, Pictures PROVE Proceeding(attempt, judged, TRUE)
  BY <1>6 DEF Attempted, Trying, Pictures
<1>7. ASSUME UNCHANGED scanVars, Pictures, Proceeding(attempt', judged', TRUE), stage' = "display",
             attempt'.spoiled => ~attempt'.sound, stage \in Trying
      PROVE  Attempted'
  <2>1. Pictures = TRUE
    BY <1>7 DEF Pictures
  <2> QED
    BY <1>4, <1>7, <2>1
<1>8. CASE PgsPacket
  <2>1. PICK t \in attempt.clock..TrackTime, n \in 0..PerPacket, sound \in BOOLEAN :
           ReadsPacket([clock |-> t, cues |-> attempt.cues, left |-> n, sound |-> sound])
    BY <1>8 DEF PgsPacket
  <2>2. /\ stage = "packet" /\ Pictures /\ stage' = "display" /\ UNCHANGED <<scanVars, judged>>
        /\ ~attempt.spoiled
    BY <1>8 DEF PgsPacket, Attempted
  <2>3. n \in Nat
    BY ReadingAssumption
  <2>4. Proceeding(attempt', judged, TRUE) /\ (attempt'.spoiled => ~attempt'.sound)
    BY <1>6, <2>1, <2>2, <2>3, ClockAdvances
  <2> QED
    BY <1>7, <2>2, <2>4 DEF Trying
<1>9. CASE Display
  <2>1. /\ stage = "display" /\ stage' = stage /\ Pictures /\ UNCHANGED scanVars /\ attempt.left > 0
        /\ Proceeding(attempt, judged, TRUE) /\ (attempt.spoiled => ~attempt.sound)
    BY <1>6, <1>9 DEF Display, Attempted
  <2>2. CASE attempt.stopped
    <3>1. attempt' = [attempt EXCEPT !.left = @ - 1] /\ UNCHANGED judged
      BY <1>9, <2>2 DEF Display
    <3>2. attempt \in AttemptStates /\ attempt.left - 1 \in Nat
      BY <2>1 DEF Proceeding, AttemptStates
    <3>3. /\ attempt' \in AttemptStates /\ attempt'.cues = attempt.cues
          /\ attempt'.clock = attempt.clock /\ attempt'.active = attempt.active
          /\ attempt'.assessed = attempt.assessed /\ attempt'.frames = attempt.frames
          /\ attempt'.spoiled = attempt.spoiled /\ attempt'.sound = attempt.sound
      BY <3>1, <3>2 DEF AttemptStates
    <3>4. Proceeding(attempt', judged', TRUE)
      BY <2>1, <3>1, <3>3 DEF Proceeding, InOrder, Standing
    <3> QED
      BY <1>7, <2>1, <3>3, <3>4 DEF Trying
  <2>3. CASE ~attempt.stopped
    <3>1. PICK d \in {"unchanged", "clear", "blank", "text", "unreadable"} :
             LET a == [Push(d) EXCEPT !.left = @ - 1]
             IN /\ Len(a.cues) <= MaxCues
                /\ IF Due(a) THEN AtCheckpoint(a) ELSE attempt' = a /\ UNCHANGED judged
      BY <1>9, <2>3 DEF Display
    <3> DEFINE a == [Push(d) EXCEPT !.left = @ - 1]
    <3>2. /\ Len(a.cues) <= MaxCues
          /\ AtCheckpoint(a) \/ (attempt' = a /\ UNCHANGED judged)
      BY <3>1
    <3>3. Proceeding(a, judged, TRUE) /\ a.spoiled = attempt.spoiled /\ a.sound = attempt.sound
      BY <2>1, <3>2, Pushed
    <3> HIDE DEF a
    <3>4. CASE AtCheckpoint(a)
      <4>1. Proceeding(attempt', judged', TRUE) /\ attempt'.spoiled = a.spoiled /\ attempt'.sound = a.sound
        BY <3>3, <3>4, Checked
      <4> QED
        BY <1>7, <2>1, <3>3, <4>1 DEF Trying
    <3>5. CASE attempt' = a /\ UNCHANGED judged
      <4>1. Proceeding(attempt', judged', TRUE) /\ attempt'.spoiled = attempt.spoiled
            /\ attempt'.sound = attempt.sound
        BY <3>3, <3>5
      <4> QED
        BY <1>7, <2>1, <4>1 DEF Trying
    <3> QED
      BY <3>2, <3>4, <3>5
  <2> QED
    BY <2>2, <2>3
<1>10. CASE PacketEnds \/ TrackEnds
  <2>1. CASE AttemptFails
    BY <2>1, AttemptEnds DEF AttemptFails
  <2>2. CASE ~AttemptFails
    <3>1. /\ stage \in {"packet", "display"} /\ stage' \in {"packet", "assess"}
          /\ UNCHANGED <<scanVars, attempt, judged>> /\ ~attempt.spoiled
      BY <1>10, <2>2 DEF PacketEnds, TrackEnds, Attempted
    <3>2. Proceeding(attempt, judged, Pictures)
      BY <3>1 DEF Attempted, Trying
    <3> QED
      BY <1>4, <3>1, <3>2 DEF Trying
  <2> QED
    BY <2>1, <2>2
<1>11. CASE Assessment
  <2>1. CASE AttemptFails
    BY <2>1, AttemptEnds DEF AttemptFails
  <2>2. CASE ~AttemptFails
    <3>1. PICK v \in Findings :
             /\ IF Reusable THEN v = attempt.assessed[2] /\ UNCHANGED judged
                ELSE Judge(Len(attempt.cues), v)
             /\ attempt' = [attempt EXCEPT !.result = v]
      BY <1>11, <2>2 DEF Assessment
    <3>2. /\ stage = "assess" /\ stage' = "after" /\ UNCHANGED scanVars /\ attempt.cues # <<>>
          /\ ~attempt.spoiled /\ Proceeding(attempt, judged, Pictures)
      BY <1>11, <2>2 DEF Assessment, Attempted, Trying
    <3>3. /\ attempt \in AttemptStates /\ judged \in Judgements /\ Len(attempt.cues) \in 1..MaxCues
      BY <3>2, ReadingAssumption DEF Proceeding, AttemptStates
    <3>4. /\ judged' \in Judgements /\ judged'[Len(attempt.cues)] = v
          /\ \A m \in 1..MaxCues : judged[m] # "?" => judged'[m] = judged[m]
      <4>1. CASE Reusable
        BY <3>1, <3>2, <3>3, <4>1 DEF Reusable, Proceeding, Standing
      <4>2. CASE ~Reusable
        BY <3>1, <3>3, <4>2, Judging
      <4> QED
        BY <4>1, <4>2
    <3>5. /\ attempt' \in AttemptStates /\ attempt'.cues = attempt.cues /\ attempt'.result = v
          /\ attempt'.clock = attempt.clock /\ attempt'.active = attempt.active
          /\ attempt'.assessed = attempt.assessed /\ attempt'.frames = attempt.frames
          /\ attempt'.packets = attempt.packets /\ attempt'.spoiled = attempt.spoiled
      BY <3>1, <3>3 DEF AttemptStates
    <3>6. Standing(attempt', judged')
      <4>1. attempt.assessed # <<>> => attempt.assessed[2] # "?"
        BY <3>3 DEF AttemptStates, Findings
      <4> QED
        BY <3>2, <3>3, <3>4, <3>5, <4>1 DEF Proceeding, Standing
    <3>7. Proceeding(attempt', judged', Pictures)
      BY <3>2, <3>4, <3>5, <3>6 DEF Proceeding, InOrder
    <3>8. JudgedWhole'
      BY <3>4, <3>5 DEF JudgedWhole
    <3>9. Pictures' = Pictures
      BY <3>2 DEF Pictures, scanVars
    <3> QED
      BY <3>2, <3>5, <3>7, <3>8, <3>9 DEF Attempted, Stages, Trying
  <2> QED
    BY <2>1, <2>2
<1>12. CASE TakeSnapshot \/ Probe \/ FinalVerify
  BY <1>2, <1>12 DEF TakeSnapshot, Probe, FinalVerify, Stages, Trying
<1>13. CASE VerifyBefore \/ VerifyAgain
  <2>1. CASE \E v : Conclude(v)
    BY <2>1, AttemptEnds
  <2>2. CASE ~\E v : Conclude(v)
    BY <1>2, <1>13, <2>2 DEF VerifyBefore, VerifyAgain, Stages, Trying
  <2> QED
    BY <2>1, <2>2
<1>14. CASE Replaced \/ UNCHANGED readingVars
  BY <1>1, <1>14 DEF Replaced, readingVars
<1> QED
  BY <1>3, <1>5, <1>8, <1>9, <1>10, <1>11, <1>12, <1>13, <1>14 DEF ReadingNext

(* Whatever a track holds and however often it is judged on the way: what an *)
(* attempt reports is the verdict on all cues collected, from packets sound  *)
(* to their end, and every cue has its proper time.                          *)
THEOREM AssessmentsFinal == ReadingSpec => []AssessmentIsFinal
<1>1. Attempted => AssessmentIsFinal
  <2> SUFFICES ASSUME Attempted, stage = "after" PROVE JudgedWhole /\ ~attempt.spoiled /\ CuesTimed
    BY DEF AssessmentIsFinal
  <2>1. JudgedWhole /\ ~attempt.spoiled /\ InOrder(attempt, Pictures)
    BY DEF Attempted, Trying, Proceeding
  <2> QED
    BY <2>1 DEF InOrder, CuesTimed
<1> QED
  BY <1>1, AttemptsStart, AttemptsGoOn, PTL DEF ReadingSpec

(* The variables of a scan by themselves; what matching says of each number  *)
(* of cues is typed with the attempt.                                        *)
Scanning ==
    /\ disk \in 0..MaxChanges /\ opened \in 0..MaxChanges /\ linked \in BOOLEAN
    /\ snapshot \in 0..MaxChanges \union {NoValue}
    /\ tracks \in Films \union {<<>>} /\ track \in Nat
    /\ kept \in {"none", "ambiguous", "unknown"} /\ outcome \in Findings \union {"none"}
    /\ seen \subseteq 0..MaxChanges

LEMMA ScanningStarts == ReadingInit => Scanning
<1> SUFFICES ASSUME ReadingInit PROVE Scanning
  OBVIOUS
<1>1. 0 \in 0..MaxChanges
  BY ReadingAssumption
<1>2. disk = 0 /\ opened = 0 /\ linked = FALSE /\ snapshot = NoValue /\ seen = {}
  BY DEF ReadingInit
<1>3. tracks = <<>> /\ track = 1 /\ kept = "none" /\ outcome = "none"
  BY DEF ReadingInit
<1> QED
  BY <1>1, <1>2, <1>3 DEF Scanning

LEMMA ConcludingTyped ==
    ASSUME Scanning, NEW v, Conclude(v), UNCHANGED disk, opened' \in 0..MaxChanges,
           linked' \in BOOLEAN, seen' \subseteq 0..MaxChanges
    PROVE  Scanning'
<1>1. kept' \in {"none", "ambiguous", "unknown"}
  BY DEF Scanning, Conclude, Kept
<1>2. UNCHANGED <<snapshot, tracks>> /\ track' \in Nat
  BY DEF Scanning, Conclude
<1>3. outcome' \in Findings \union {"none"}
  BY <1>1 DEF Scanning, Conclude, Findings
<1> QED
  BY <1>1, <1>2, <1>3 DEF Scanning

LEMMA ScanningGoesOn == Scanning /\ [ReadingNext]_readingVars => Scanning'
<1> SUFFICES ASSUME Scanning, [ReadingNext]_readingVars PROVE Scanning'
  OBVIOUS
<1>1. ASSUME UNCHANGED <<fileVars, scanVars>>, seen' \subseteq 0..MaxChanges PROVE Scanning'
  BY <1>1 DEF Scanning, fileVars, scanVars
<1>2. ASSUME AttemptFails, seen' \subseteq 0..MaxChanges PROVE Scanning'
  BY <1>2, ConcludingTyped DEF AttemptFails, Scanning
<1>3. (seen \union {opened}) \subseteq 0..MaxChanges /\ seen \subseteq 0..MaxChanges
  BY DEF Scanning
<1>4. CASE Replaced
  <2>1. disk + 1 \in 0..MaxChanges
    BY <1>4, ReadingAssumption DEF Replaced, Scanning
  <2>2. opened' \in {opened, disk + 1} /\ linked' \in {FALSE, linked} /\ disk' = disk + 1
    BY <1>4 DEF Replaced
  <2>3. UNCHANGED <<scanVars, seen>>
    BY <1>4 DEF Replaced
  <2> QED
    BY <2>1, <2>2, <2>3 DEF Scanning, scanVars
<1>5. CASE TakeSnapshot
  BY <1>5 DEF TakeSnapshot, Scanning, fileVars, Findings
<1>6. CASE Probe
  BY <1>6 DEF Probe, Scanning, fileVars, Findings
<1>7. CASE VerifyBefore
  <2>1. CASE Conclude("failed")
    BY <1>7, <2>1, ConcludingTyped DEF VerifyBefore, fileVars, Scanning
  <2>2. CASE ~Conclude("failed")
    BY <1>1, <1>3, <1>7, <2>2 DEF VerifyBefore
  <2> QED
    BY <2>1, <2>2
<1>8. CASE OpenFile
  BY <1>8 DEF OpenFile, Scanning, scanVars
<1>9. CASE VerifyAgain
  BY <1>9, ConcludingTyped DEF VerifyAgain, Scanning
<1>10. CASE FinalVerify
  BY <1>10 DEF FinalVerify, Scanning, fileVars, Findings
<1>11. CASE TextPacket
  <2>1. CASE AttemptFails
    BY <1>2, <1>3, <1>11, <2>1 DEF TextPacket
  <2>2. CASE ~AttemptFails
    BY <1>1, <1>3, <1>11, <2>2 DEF TextPacket
  <2> QED
    BY <2>1, <2>2
<1>12. CASE PgsPacket \/ Display \/ UNCHANGED readingVars
  BY <1>1, <1>3, <1>12 DEF PgsPacket, Display, readingVars
<1>13. CASE PacketEnds \/ TrackEnds \/ Assessment
  <2>1. CASE AttemptFails
    BY <1>2, <1>3, <1>13, <2>1 DEF PacketEnds, TrackEnds, Assessment
  <2>2. CASE ~AttemptFails
    BY <1>1, <1>3, <1>13, <2>2 DEF PacketEnds, TrackEnds, Assessment
  <2> QED
    BY <2>1, <2>2
<1> QED
  BY <1>4, <1>5, <1>6, <1>7, <1>8, <1>9, <1>10, <1>11, <1>12, <1>13 DEF ReadingNext

(* The variables of a scan keep their types, for any files, checkpoints and  *)
(* number of changes: versions are those the file had, an outcome is one of  *)
(* the findings, and what is kept of several verdicts is never a failure.    *)
THEOREM ReadingTyped == ReadingSpec => []ReadingTypeOK
<1>1. Scanning /\ Attempted => ReadingTypeOK
  BY DEF Scanning, Attempted, Proceeding, ReadingTypeOK, Stages, Trying, Judgements
<1> QED
  BY <1>1, ScanningStarts, ScanningGoesOn, AttemptsStart, AttemptsGoOn, PTL DEF ReadingSpec

-----------------------------------------------------------------------------
(* Pgs                                                                       *)

(* The composition at hand, and what it waits for.                           *)
Composed ==
    /\ pending # Nothing => pending.time <= clock
    /\ pending = Nothing /\ shown # Nothing => shown.since = refreshed
    /\ decoding = "ended" => pending = Nothing
Few == Cardinality(Live) <= MaxObjects
Light == /\ IsFiniteSet(objects) /\ IsFiniteSet(fragments)
         /\ StateBytes(fragments) <= MaxState
PgsInv == PgsTypeOK /\ Composed /\ OnlyThisRefresh /\ NothingHeldBack /\ Few /\ Light

(* How sums over sets grow.                                                  *)
LEMMA Heavier ==
    ASSUME NEW S, IsFiniteSet(S), NEW F, NEW y, \A x \in S \union {y} : F[x] \in Nat
    PROVE  /\ IsFiniteSet(S \union {y})
           /\ SumFunctionOnSet(F, S \union {y}) <= SumFunctionOnSet(F, S) + F[y]
           /\ SumFunctionOnSet(F, S) \in Nat
           /\ \A T \in SUBSET S : SumFunctionOnSet(F, T) <= SumFunctionOnSet(F, S)
<1> DEFINE Sum(T) == SumFunctionOnSet(F, T)
           U == S \union {y}
<1>1. IsFiniteSet(U)
  BY FS_AddElement
<1>2. Sum(U) = F[y] + Sum(U \ {y})
  BY <1>1, SumSplit
<1>3. \A T \in SUBSET S : Sum(T) <= Sum(S)
  BY SumFewer
<1>4. Sum(U \ {y}) <= Sum(S)
  BY <1>3
<1>5. Sum(S) \in Nat
  BY SumNatural
<1>6. Sum(U \ {y}) \in Nat
  <2>1. IsFiniteSet(U \ {y})
    BY <1>1, FS_Subset
  <2> QED
    BY <2>1, SumNatural
<1>7. F[y] \in Nat
  OBVIOUS
<1>8. Sum(U) <= Sum(S) + F[y]
  <2> HIDE DEF Sum, U
  <2> QED
    BY <1>2, <1>4, <1>5, <1>6, <1>7
<1> QED
  BY <1>1, <1>3, <1>5, <1>8

Pixels(S) == SumFunction([o \in S |-> o.pixels])
Expected(S) == SumFunction([f \in S |-> f.expected])

LEMMA PixelsSpec ==
    ASSUME NEW S \in SUBSET Object, IsFiniteSet(S), NEW y \in Object
    PROVE  /\ IsFiniteSet(S \union {y}) /\ Pixels(S) \in Nat
           /\ Pixels(S \union {y}) <= Pixels(S) + y.pixels
           /\ \A T \in SUBSET S : Pixels(T) <= Pixels(S)
<1> DEFINE F == [o \in Object |-> o.pixels]
<1>1. \A x \in Object : F[x] \in Nat
  BY PgsAssumption DEF Object
<1>2. ASSUME NEW T \in SUBSET Object, IsFiniteSet(T)
      PROVE  Pixels(T) = SumFunctionOnSet(F, T)
  <2> DEFINE e == [o \in T |-> o.pixels]
  <2>1. \A x \in T : e[x] = F[x] /\ e[x] \in Int
    BY <1>1
  <2>2. DOMAIN e = T
    OBVIOUS
  <2> HIDE DEF F
  <2>3. SumFunctionOnSet(e, T) = SumFunctionOnSet(F, T)
    <3> HIDE DEF e
    <3> QED
      BY <1>2, <2>1, SumSame
  <2> QED
    BY <2>2, <2>3 DEF Pixels, SumFunction
<1>3. F[y] = y.pixels
  OBVIOUS
<1>4. \A x \in S \union {y} : F[x] \in Nat
  BY <1>1
<1> HIDE DEF F
<1>5. /\ IsFiniteSet(S \union {y})
      /\ SumFunctionOnSet(F, S \union {y}) <= SumFunctionOnSet(F, S) + F[y]
      /\ SumFunctionOnSet(F, S) \in Nat
      /\ \A T \in SUBSET S : SumFunctionOnSet(F, T) <= SumFunctionOnSet(F, S)
  BY <1>4, Heavier
<1>6. \A T \in SUBSET S : IsFiniteSet(T)
  BY FS_Subset
<1> QED
  BY <1>2, <1>3, <1>5, <1>6

LEMMA ExpectedSpec ==
    ASSUME NEW S \in SUBSET Fragment, IsFiniteSet(S), NEW y \in Fragment
    PROVE  /\ IsFiniteSet(S \union {y}) /\ Expected(S) \in Nat
           /\ Expected(S \union {y}) <= Expected(S) + y.expected
           /\ \A T \in SUBSET S : Expected(T) <= Expected(S)
<1> DEFINE F == [o \in Fragment |-> o.expected]
<1>1. \A x \in Fragment : F[x] \in Nat
  BY PgsAssumption DEF Fragment
<1>2. ASSUME NEW T \in SUBSET Fragment, IsFiniteSet(T)
      PROVE  Expected(T) = SumFunctionOnSet(F, T)
  <2> DEFINE e == [o \in T |-> o.expected]
  <2>1. \A x \in T : e[x] = F[x] /\ e[x] \in Int
    BY <1>1
  <2>2. DOMAIN e = T
    OBVIOUS
  <2> HIDE DEF F
  <2>3. SumFunctionOnSet(e, T) = SumFunctionOnSet(F, T)
    <3> HIDE DEF e
    <3> QED
      BY <1>2, <2>1, SumSame
  <2> QED
    BY <2>2, <2>3 DEF Expected, SumFunction
<1>3. F[y] = y.expected
  OBVIOUS
<1>4. \A x \in S \union {y} : F[x] \in Nat
  BY <1>1
<1> HIDE DEF F
<1>5. /\ IsFiniteSet(S \union {y})
      /\ SumFunctionOnSet(F, S \union {y}) <= SumFunctionOnSet(F, S) + F[y]
      /\ SumFunctionOnSet(F, S) \in Nat
      /\ \A T \in SUBSET S : SumFunctionOnSet(F, T) <= SumFunctionOnSet(F, S)
  BY <1>4, Heavier
<1>6. \A T \in SUBSET S : IsFiniteSet(T)
  BY FS_Subset
<1> QED
  BY <1>2, <1>3, <1>5, <1>6

(* What a boundary of the stream leaves behind.                              *)
Cleared == objects = {} /\ fragments = {}

LEMMA NothingWeighs ==
    ASSUME Cleared
    PROVE  Light
<1>1. SumFunction([o \in {} |-> o.pixels]) = 0 /\ SumFunction([f \in {} |-> f.expected]) = 0
  BY SumEmpty DEF SumFunction
<1>2. StateBytes(fragments) = 0
  BY <1>1 DEF StateBytes, Cleared
<1> QED
  BY <1>2, PgsAssumption, FS_EmptySet DEF Light, Cleared

LEMMA NothingWeighsThen == Cleared' => Light'
<1>1. Cleared => Light
  BY NothingWeighs
<1> QED
  BY <1>1, PTL

LEMMA PgsStarts == PgsInit => PgsInv
<1> SUFFICES ASSUME PgsInit PROVE PgsInv
  OBVIOUS
<1>1. Composed /\ OnlyThisRefresh /\ NothingHeldBack /\ PgsTypeOK
  BY DEF PgsInit, Composed, OnlyThisRefresh, NothingHeldBack, PgsTypeOK
<1>2. Live = {} /\ MaxObjects \in Nat
  BY PgsAssumption DEF PgsInit, Live, IdsOf
<1>3. Few
  BY <1>2, FS_EmptySet DEF Few
<1>4. Light
  BY NothingWeighs DEF PgsInit, Cleared
<1> QED
  BY <1>1, <1>3, <1>4 DEF PgsInv

(* A composition is not nothing.                                             *)
LEMMA NotNothing ==
    /\ \A t, c, p, r, s :
          [time |-> t, canvas |-> c, palette |-> p, references |-> r, since |-> s] # Nothing
    /\ \A t, c, r, s, i, f :
          [time |-> t, canvas |-> c, references |-> r, since |-> s, image |-> i, from |-> f]
             # Nothing
BY DEF Nothing

(* The types of what is pending and shown, opened.                           *)
LEMMA Opened ==
    ASSUME PgsTypeOK
    PROVE  /\ refreshed \in Nat /\ announced \in Nat /\ displays \in Nat /\ clock \in Nat
           /\ pending # Nothing => pending \in Composition
           /\ shown # Nothing => shown \in Shown
           /\ fragments \subseteq Fragment /\ objects \subseteq Object
BY DEF PgsTypeOK

LEMMA Announcing ==
    ASSUME PgsInv, NEW state \in {0, 64, 128}, NEW c \in Canvases, NEW p \in PaletteIds,
           NEW r \in SUBSET Reference, NEW update \in BOOLEAN, Pcs(state, c, p, r, update)
    PROVE  PgsInv'
<1> DEFINE again == update /\ r = {}
<1>1. /\ decoding = "on" /\ pending = Nothing /\ clock' = clock /\ decoding' = decoding
      /\ packets' = packets /\ segments' = segments + 1
      /\ again => MayReuse(state)
      /\ refreshed' = refreshed + (IF state # 0 THEN 1 ELSE 0)
      /\ announced' = announced + 1 /\ shown' = shown /\ displays' = displays
  BY DEF Pcs, Segment, Charged, counts
<1>2. pending' = [time |-> clock, canvas |-> c, palette |-> p,
                  references |-> IF again THEN shown.references ELSE r,
                  since |-> IF again THEN shown.since ELSE refreshed']
  BY DEF Pcs
<1>3. again => shown \in Shown /\ shown.since = refreshed /\ refreshed' = refreshed
  BY <1>1, Opened DEF MayReuse, PgsInv, Composed
<1>4. refreshed' \in Nat /\ announced' \in Nat /\ clock \in Nat /\ displays \in Nat
  BY <1>1, Opened DEF PgsInv
<1>5. pending' \in Composition
  <2>1. (IF again THEN shown.references ELSE r) \in SUBSET Reference
    BY <1>3 DEF Shown
  <2>2. (IF again THEN shown.since ELSE refreshed') \in Nat
    BY <1>3, <1>4 DEF Shown
  <2> HIDE DEF again
  <2> QED
    BY <1>2, <1>4, <2>1, <2>2 DEF Composition
<1>6. pending' # Nothing /\ pending'.time = clock
      /\ pending'.since = IF again THEN shown.since ELSE refreshed'
  <2> HIDE DEF again
  <2> QED
    BY <1>2, NotNothing
<1>7. Composed'
  BY <1>1, <1>4, <1>6 DEF PgsInv, Composed
<1>8. NothingHeldBack'
  BY <1>1, <1>4, <1>6, Opened DEF PgsInv, Composed, NothingHeldBack
<1>9. CASE state = 0
  <2>1. UNCHANGED setup
    BY <1>9 DEF Pcs, Refreshes
  <2>2. PgsTypeOK'
    BY <1>1, <1>4, <1>5, <2>1 DEF PgsInv, PgsTypeOK, setup
  <2>3. OnlyThisRefresh'
    BY <1>1, <1>3, <1>4, <1>6, <1>9, <2>1, Opened DEF PgsInv, OnlyThisRefresh, setup
  <2>4. Few' /\ Light'
    BY <2>1 DEF PgsInv, Few, Light, StateBytes, Live, IdsOf, setup
  <2> QED
    BY <1>7, <1>8, <2>2, <2>3, <2>4 DEF PgsInv
<1>10. CASE state # 0
  <2>1. objects' = {} /\ fragments' = {} /\ palettes' = {} /\ windows' = {}
    BY <1>10 DEF Pcs, Refreshes
  <2>2. ~again
    BY <1>1, <1>10 DEF MayReuse
  <2>3. PgsTypeOK'
    BY <1>1, <1>4, <1>5, <2>1 DEF PgsInv, PgsTypeOK
  <2>4. OnlyThisRefresh'
    BY <1>1, <1>6, <2>1, <2>2 DEF PgsInv, OnlyThisRefresh
  <2>5. Few'
    <3>1. Live' = {} /\ MaxObjects \in Nat
      BY <2>1, PgsAssumption DEF Live, IdsOf
    <3> QED
      BY <3>1, FS_EmptySet DEF Few
  <2>6. Light'
    BY <2>1, NothingWeighsThen DEF Cleared
  <2> QED
    BY <1>7, <1>8, <2>3, <2>4, <2>5, <2>6 DEF PgsInv
<1> QED
  BY <1>9, <1>10

(* A fragment f of this refresh grows by n bytes, the others being as they   *)
(* were.                                                                     *)
LEMMA GrowingObject ==
    ASSUME PgsInv, NEW f \in Fragment, NEW others \in SUBSET fragments, NEW n \in Nat,
           NEW last \in BOOLEAN, Grown(f, others, n, last), f.since = refreshed,
           \/ /\ Cardinality(Live \union {f.id}) <= MaxObjects /\ others = fragments
              /\ StateBytes(others) + f.expected <= MaxState
           \/ f \in fragments /\ others = fragments \ {f},
           UNCHANGED <<palettes, windows, pending, shown, displays, refreshed, announced, counts,
                       decoding>>,
           segments' = segments + 1
    PROVE  PgsInv'
<1> DEFINE g == [f EXCEPT !.got = @ + n]
           whole == [id |-> f.id, pixels |-> f.pixels, since |-> f.since]
<1>1. g \in Fragment /\ g.id = f.id /\ g.since = f.since
  BY DEF Fragment
<1>2. whole \in Object /\ whole.id = f.id /\ whole.since = f.since
  BY DEF Fragment, Object
<1> HIDE DEF g, whole
<1>3. \/ fragments' = others /\ objects' = {o \in objects : o.id # f.id} \union {whole}
      \/ fragments' = others \union {g} /\ objects' = objects
  BY DEF Grown, g, whole
<1>4. PgsTypeOK'
  BY <1>1, <1>2, <1>3 DEF PgsInv, PgsTypeOK, counts
<1>5. OnlyThisRefresh'
  BY <1>1, <1>2, <1>3 DEF PgsInv, OnlyThisRefresh
<1>6. Composed' /\ NothingHeldBack'
  BY DEF PgsInv, Composed, NothingHeldBack, counts
<1>7. Few'
  <2>1. f.id \in IdsOf(objects') \union IdsOf(fragments')
    BY <1>1, <1>2, <1>3 DEF IdsOf
  <2>2. IdsOf(objects) \union IdsOf(others) \subseteq IdsOf(objects') \union IdsOf(fragments')
    BY <1>2, <1>3 DEF IdsOf
  <2>3. IdsOf(objects') \union IdsOf(fragments') \subseteq IdsOf(objects) \union IdsOf(others) \union {f.id}
    BY <1>1, <1>2, <1>3 DEF IdsOf
  <2>4. CASE Cardinality(Live \union {f.id}) <= MaxObjects /\ others = fragments
    <3>1. Live' = Live \union {f.id}
      BY <2>1, <2>2, <2>3, <2>4 DEF Live
    <3> QED
      BY <2>4, <3>1 DEF Few
  <2>5. CASE f \in fragments /\ others = fragments \ {f}
    <3>1. IdsOf(fragments) = IdsOf(others) \union {f.id}
      BY <2>5 DEF IdsOf
    <3>2. Live' = Live
      BY <2>1, <2>2, <2>3, <3>1 DEF Live
    <3> QED
      BY <3>2 DEF PgsInv, Few
  <2> QED
    BY <2>4, <2>5
<1>8. Light'
  <2>1. /\ IsFiniteSet(objects) /\ objects \subseteq Object
        /\ IsFiniteSet(fragments) /\ fragments \subseteq Fragment
        /\ others \in SUBSET Fragment /\ IsFiniteSet(others)
    BY FS_Subset DEF PgsInv, Light, PgsTypeOK
  <2>2. /\ \A S : StateBytes(S) = Pixels(objects) + Expected(S)
        /\ StateBytes(fragments)' = Pixels(objects') + Expected(fragments')
    BY DEF StateBytes, Pixels, Expected
  <2>3. /\ f.expected \in Nat /\ f.pixels \in Nat /\ MaxState \in Nat
        /\ g.expected = f.expected /\ whole.pixels = f.pixels
    BY PgsAssumption DEF Fragment, g, whole
  <2>4. /\ IsFiniteSet(others \union {g}) /\ Expected(others) \in Nat
        /\ Expected(others \union {g}) <= Expected(others) + f.expected
    BY <1>1, <2>1, <2>3, ExpectedSpec
  <2>5. Pixels(objects) \in Nat
    BY <1>2, <2>1, PixelsSpec
  <2>6. CASE last
    <3> DEFINE rest == {o \in objects : o.id # f.id}
    <3>1. /\ fragments' = others /\ objects' = rest \union {whole}
          /\ StateBytes(others \union {f}) + f.pixels <= MaxState
      BY <2>6 DEF Grown, whole
    <3>2. rest \subseteq objects /\ IsFiniteSet(rest) /\ rest \in SUBSET Object
      BY <2>1, FS_Subset
    <3> HIDE DEF rest
    <3>3. /\ IsFiniteSet(rest \union {whole}) /\ Pixels(rest) \in Nat
          /\ Pixels(rest \union {whole}) <= Pixels(rest) + f.pixels
      BY <1>2, <2>3, <3>2, PixelsSpec
    <3>4. Pixels(rest) <= Pixels(objects)
      BY <1>2, <2>1, <3>2, PixelsSpec
    <3>5. Expected(others) <= Expected(others \union {f}) /\ Expected(others \union {f}) \in Nat
      <4>1. others \union {f} \in SUBSET Fragment /\ IsFiniteSet(others \union {f})
        BY <2>1, FS_AddElement
      <4> QED
        BY <4>1, ExpectedSpec
    <3>6. Pixels(objects) + Expected(others \union {f}) + f.pixels <= MaxState
      BY <2>2, <3>1
    <3>7. Pixels(rest \union {whole}) \in Nat
      <4>1. rest \union {whole} \in SUBSET Object
        BY <1>2, <3>2
      <4> QED
        BY <1>2, <3>3, <4>1, PixelsSpec
    <3>8. Pixels(rest \union {whole}) + Expected(others) <= MaxState
      BY <2>3, <2>4, <2>5, <3>3, <3>4, <3>5, <3>6, <3>7
    <3>9. StateBytes(fragments)' <= MaxState
      BY <2>2, <3>1, <3>8
    <3> QED
      BY <2>1, <3>1, <3>3, <3>9 DEF Light
  <2>7. CASE ~last
    <3>1. fragments' = others \union {g} /\ objects' = objects
      BY <2>7 DEF Grown, g
    <3>2. Pixels(objects) + Expected(others) + f.expected <= MaxState
      <4>1. CASE StateBytes(others) + f.expected <= MaxState
        BY <2>2, <2>3, <2>4, <2>5, <4>1
      <4>2. CASE f \in fragments /\ others = fragments \ {f}
        <5> DEFINE F == [o \in fragments |-> o.expected]
        <5>1. \A x \in fragments : F[x] \in Nat
          BY <2>1, PgsAssumption DEF Fragment
        <5>2. SumFunctionOnSet(F, fragments) = F[f] + SumFunctionOnSet(F, fragments \ {f})
          <6> HIDE DEF F
          <6> QED
            BY <2>1, <4>2, <5>1, SumSplit
        <5>3. Expected(fragments) = SumFunctionOnSet(F, fragments)
          BY DEF Expected, SumFunction
        <5>4. Expected(others) = SumFunctionOnSet(F, fragments \ {f})
          <6> DEFINE e == [o \in others |-> o.expected]
          <6>1. \A x \in others : e[x] = F[x] /\ e[x] \in Int
            BY <4>2, <5>1
          <6>2. DOMAIN e = others
            OBVIOUS
          <6>3. SumFunctionOnSet(e, others) = SumFunctionOnSet(F, others)
            <7> HIDE DEF e, F
            <7> QED
              BY <2>1, <6>1, SumSame
          <6> QED
            BY <4>2, <6>2, <6>3 DEF Expected, SumFunction
        <5>5. F[f] = f.expected
          BY <4>2
        <5>6. Pixels(objects) + Expected(fragments) <= MaxState
          BY <2>2 DEF PgsInv, Light
        <5> HIDE DEF F
        <5> QED
          BY <2>3, <2>4, <2>5, <5>2, <5>3, <5>4, <5>5, <5>6
      <4> QED
        BY <4>1, <4>2
    <3>3. Expected(others \union {g}) \in Nat
      <4>1. others \union {g} \in SUBSET Fragment
        BY <1>1, <2>1
      <4> QED
        BY <2>4, <4>1, ExpectedSpec
    <3>4. Pixels(objects) + Expected(others \union {g}) <= MaxState
      BY <2>3, <2>4, <2>5, <3>2, <3>3
    <3>5. StateBytes(fragments)' <= MaxState
      BY <2>2, <3>1, <3>4
    <3> QED
      BY <2>1, <2>4, <3>1, <3>5 DEF Light
  <2> QED
    BY <2>6, <2>7
<1> QED
  BY <1>4, <1>5, <1>6, <1>7, <1>8 DEF PgsInv

LEMMA Defining ==
    ASSUME PgsInv, NEW id \in ObjectIds, NEW v \in Versions, NEW n \in Pieces, NEW last \in BOOLEAN,
           Ods(id, v, n, last)
    PROVE  PgsInv'
<1>1. /\ UNCHANGED <<palettes, windows, pending, shown, displays, refreshed, announced, counts,
                     decoding>>
      /\ segments' = segments + 1 /\ n \in Nat
  BY PgsAssumption DEF Ods, WithinSet, Charged
<1>2. CASE \E expected, pixels \in Sizes : First(id, v, expected, pixels, n, last)
  <2>1. PICK expected, pixels \in Sizes : First(id, v, expected, pixels, n, last)
    BY <1>2
  <2> DEFINE f == [id |-> id, version |-> v, expected |-> expected, got |-> 0,
                   pixels |-> pixels, since |-> refreshed]
  <2>2. f \in Fragment /\ f.since = refreshed /\ f.id = id
    BY DEF Fragment, PgsInv, PgsTypeOK
  <2>3. /\ Cardinality(Live \union {id}) <= MaxObjects /\ Grown(f, fragments, n, last)
        /\ StateBytes(fragments) + f.expected <= MaxState
    BY <2>1 DEF First
  <2> HIDE DEF f
  <2> QED
    BY <1>1, <2>2, <2>3, GrowingObject
<1>3. CASE Continuation(id, v, n, last)
  <2>1. PICK f \in fragments : Grown(f, fragments \ {f}, n, last)
    BY <1>3 DEF Continuation
  <2>2. f \in Fragment /\ f.since = refreshed
    BY DEF PgsInv, PgsTypeOK, OnlyThisRefresh
  <2> QED
    BY <1>1, <2>1, <2>2, GrowingObject
<1> QED
  BY <1>2, <1>3 DEF Ods

LEMMA Committing == ASSUME PgsInv, Commit PROVE PgsInv'
<1>1. PICK image \in BOOLEAN :
          shown' = [time |-> pending.time, canvas |-> pending.canvas,
                    references |-> pending.references, since |-> pending.since, image |-> image,
                    from |-> IF pending.references = {} THEN {} ELSE DrawnFrom]
  BY DEF Commit
<1>2. /\ pending # Nothing /\ pending \in Composition /\ pending' = Nothing
      /\ segments' = 0 /\ displays' = displays + 1
      /\ UNCHANGED <<setup, counts, decoding, refreshed, announced>>
  BY Opened DEF Commit, PgsInv
<1>3. DrawnFrom \subseteq {refreshed} /\ pending.since = refreshed /\ refreshed \in Nat
  BY <1>2, Opened DEF PgsInv, OnlyThisRefresh, DrawnFrom
<1> DEFINE drawn == IF pending.references = {} THEN {} ELSE DrawnFrom
<1>4. drawn \subseteq {refreshed}
  BY <1>3
<1> HIDE DEF drawn
<1>5. shown' = [time |-> pending.time, canvas |-> pending.canvas,
                references |-> pending.references, since |-> pending.since, image |-> image,
                from |-> drawn]
  BY <1>1 DEF drawn
<1>6. /\ shown' # Nothing /\ shown'.since = refreshed /\ shown'.from = drawn
      /\ shown'.time = pending.time
  BY <1>3, <1>5, NotNothing
<1>7. shown' \in Shown
  BY <1>2, <1>3, <1>4, <1>5 DEF Composition, Shown
<1>8. PgsTypeOK'
  BY <1>2, <1>7 DEF PgsInv, PgsTypeOK, setup, counts
<1>9. Composed'
  BY <1>2, <1>6 DEF PgsInv, Composed, counts
<1>10. OnlyThisRefresh'
  BY <1>2, <1>4, <1>6 DEF PgsInv, OnlyThisRefresh, setup
<1>11. NothingHeldBack'
  <2>1. decoding # "ended" /\ displays \in Nat /\ announced \in Nat
    BY Opened DEF Commit, Segment, PgsInv
  <2> QED
    BY <1>2, <1>6, <2>1 DEF PgsInv, Composed, NothingHeldBack, counts
<1>12. Few' /\ Light'
  BY <1>2 DEF PgsInv, Few, Light, StateBytes, Live, IdsOf, setup
<1> QED
  BY <1>8, <1>9, <1>10, <1>11, <1>12 DEF PgsInv

LEMMA PgsGoesOn == PgsInv /\ [PgsNext]_pgsVars => PgsInv'
<1> SUFFICES ASSUME PgsInv, [PgsNext]_pgsVars PROVE PgsInv'
  OBVIOUS
<1> DEFINE Steady == UNCHANGED <<objects, fragments>>
<1>1. CASE UNCHANGED pgsVars
  <2>1. PgsTypeOK' /\ Composed'
    BY <1>1 DEF PgsInv, PgsTypeOK, Composed, pgsVars, setup, counts
  <2>2. OnlyThisRefresh' /\ NothingHeldBack' /\ Few' /\ Light'
    BY <1>1 DEF PgsInv, OnlyThisRefresh, NothingHeldBack, Few, Light, StateBytes, Live, IdsOf, pgsVars, setup, counts
  <2> QED
    BY <2>1, <2>2 DEF PgsInv
<1>2. CASE Poison
  <2>1. PgsTypeOK' /\ Composed'
    BY <1>2 DEF PgsInv, Poison, PgsTypeOK, Composed, setup, counts
  <2>2. OnlyThisRefresh' /\ NothingHeldBack' /\ Few' /\ Light'
    BY <1>2 DEF PgsInv, Poison, OnlyThisRefresh, NothingHeldBack, Few, Light, StateBytes, Live, IdsOf, setup, counts
  <2> QED
    BY <2>1, <2>2 DEF PgsInv
<1>3. CASE NextPacket /\ ~Poison
  <2>1. /\ clock' \in Nat /\ clock' >= clock /\ packets' = packets + 1 /\ clock \in Nat
        /\ UNCHANGED <<setup, pending, shown, segments, displays, decoding, refreshed, announced>>
    BY <1>3, PgsAssumption, Opened DEF NextPacket, PgsInv
  <2>2. PgsTypeOK'
    BY <2>1 DEF PgsInv, PgsTypeOK, setup
  <2>3. pending # Nothing => pending.time \in Nat
    BY Opened DEF PgsInv, Composition
  <2>4. shown # Nothing => shown.time \in Nat
    BY Opened DEF PgsInv, Shown
  <2>5. Composed' /\ NothingHeldBack'
    BY <2>1, <2>3, <2>4 DEF PgsInv, Composed, NothingHeldBack
  <2>6. OnlyThisRefresh' /\ Few' /\ Light'
    BY <2>1 DEF PgsInv, OnlyThisRefresh, Few, Light, StateBytes, Live, IdsOf, setup
  <2> QED
    BY <2>2, <2>5, <2>6 DEF PgsInv
<1>4. CASE Finish /\ ~Poison
  <2>1. /\ pending = Nothing /\ decoding' = "ended"
        /\ UNCHANGED <<setup, pending, shown, counts, segments, displays, refreshed, announced>>
    BY <1>4 DEF Finish, Complete
  <2>2. PgsTypeOK' /\ Composed'
    BY <2>1 DEF PgsInv, PgsTypeOK, Composed, setup, counts
  <2>3. announced = displays
    BY <2>1, Opened DEF PgsInv, NothingHeldBack
  <2>4. OnlyThisRefresh' /\ NothingHeldBack' /\ Few' /\ Light'
    BY <2>1, <2>3 DEF PgsInv, OnlyThisRefresh, NothingHeldBack, Few, Light, StateBytes, Live, IdsOf, setup, counts
  <2> QED
    BY <2>2, <2>4 DEF PgsInv
<1>5. ASSUME WithinSet,
             palettes' \in SUBSET (palettes \union (PaletteIds \X {refreshed})),
             windows' \in SUBSET (windows \union (WindowIds \X {refreshed})),
             UNCHANGED <<objects, fragments, pending, shown, displays, refreshed, announced>>
      PROVE  PgsInv'
  <2>1. segments' = segments + 1 /\ UNCHANGED <<counts, decoding>>
    BY <1>5 DEF WithinSet, Charged
  <2>2. refreshed \in Nat
    BY Opened DEF PgsInv
  <2>3. palettes' \subseteq PaletteIds \X Nat /\ windows' \subseteq WindowIds \X Nat
    BY <1>5, <2>2 DEF PgsInv, PgsTypeOK
  <2>4. PgsTypeOK'
    BY <1>5, <2>1, <2>3 DEF PgsInv, PgsTypeOK, counts
  <2>5. \A x \in palettes' \union windows' : x[2] = refreshed
    BY <1>5 DEF PgsInv, OnlyThisRefresh
  <2>6. OnlyThisRefresh'
    BY <1>5, <2>5 DEF PgsInv, OnlyThisRefresh
  <2>7. Composed' /\ NothingHeldBack' /\ Few' /\ Light'
    BY <1>5, <2>1 DEF PgsInv, Composed, NothingHeldBack, Few, Light, StateBytes, Live, IdsOf, counts
  <2> QED
    BY <2>4, <2>6, <2>7 DEF PgsInv
<1>6. ASSUME NEW id \in PaletteIds, Pds(id) PROVE PgsInv'
  <2>1. palettes' \in SUBSET (palettes \union (PaletteIds \X {refreshed}))
    BY <1>6 DEF Pds
  <2> QED
    BY <1>5, <1>6, <2>1 DEF Pds
<1>7. ASSUME NEW ids \in SUBSET WindowIds, Wds(ids) PROVE PgsInv'
  <2>1. windows' \in SUBSET (windows \union (WindowIds \X {refreshed}))
    BY <1>7 DEF Wds
  <2> QED
    BY <1>5, <1>7, <2>1 DEF Wds
<1> QED
  BY <1>1, <1>2, <1>3, <1>4, <1>6, <1>7, Announcing, Defining, Committing
     DEF PgsNext, Rejected

LEMMA PgsInductive == PgsSpec => []PgsInv
BY PgsStarts, PgsGoesOn, PTL DEF PgsSpec

(* Type correctness of Pgs.                                                  *)
THEOREM PgsTyped == PgsSpec => []PgsTypeOK
BY PgsInductive, PTL DEF PgsInv

(* For any segments and limits: a picture is drawn from what its own fresh   *)
(* start set up, a track that ends well has shown all it announced, in time, *)
(* and objects are never more, nor larger, than allowed.                     *)
THEOREM PicturesWhole == PgsSpec => []PicturesAreWhole
<1>1. PgsInv => PicturesAreWhole
  BY DEF PgsInv, Few, Light, PicturesAreWhole, ObjectsBounded
<1> QED
  BY <1>1, PgsInductive, PTL
-----------------------------------------------------------------------------
(* Matroska                                                                  *)

(* Parts that are empty add nothing.                                         *)
LEMMA FlatNothing ==
    ASSUME NEW S, NEW s \in Seq(Seq(S)), NEW m \in 0..Len(s), \A i \in 1..m : s[i] = <<>>
    PROVE  Flat(s, m) = <<>>
<1> DEFINE G == {n \in Nat : n <= m => Flat(s, n) = <<>>}
<1>1. Len(s) \in Nat
  OBVIOUS
<1>2. 0 \in G
  BY DEF Flat
<1>3. ASSUME NEW n \in Nat, n \in G
      PROVE  n + 1 \in G
  <2> SUFFICES ASSUME n + 1 <= m PROVE Flat(s, n + 1) = <<>>
    OBVIOUS
  <2>1. n \in 0..(Len(s) - 1) /\ n + 1 \in 1..m /\ Flat(s, n) = <<>>
    BY <1>1, <1>3
  <2>2. Flat(s, n + 1) = Flat(s, n) \o s[n + 1]
    BY <2>1, FlatSteps
  <2> QED
    BY <2>1, <2>2
<1>4. \A n \in Nat : n \in G
  <2> HIDE DEF G
  <2> QED
    BY <1>2, <1>3, NatInduct
<1> QED
  BY <1>1, <1>4

-----------------------------------------------------------------------------
(* Sums over a run of numbers.                                               *)
LEMMA SumUp ==
    ASSUME NEW a \in Nat, NEW m \in Nat, a <= m + 1, NEW f,
           \A i \in a..(m + 1) : f[i] \in Nat
    PROVE  /\ SumFunctionOnSet(f, a..m) \in Nat
           /\ SumFunctionOnSet(f, a..(m + 1)) = SumFunctionOnSet(f, a..m) + f[m + 1]
<1>1. IsFiniteSet(a..m) /\ IsFiniteSet(a..(m + 1))
  BY FS_Interval
<1>2. m + 1 \in a..(m + 1) /\ (a..(m + 1)) \ {m + 1} = a..m /\ a..m \subseteq a..(m + 1)
  OBVIOUS
<1>3. SumFunctionOnSet(f, a..(m + 1)) = f[m + 1] + SumFunctionOnSet(f, (a..(m + 1)) \ {m + 1})
  <2>1. \A i \in a..(m + 1) : f[i] \in Int
    OBVIOUS
  <2> QED
    BY <1>1, <1>2, <2>1, SumSplit
<1>4. SumFunctionOnSet(f, a..m) \in Nat
  <2>1. \A i \in a..m : f[i] \in Nat
    OBVIOUS
  <2> QED
    BY <1>1, <2>1, SumNatural
<1>5. f[m + 1] \in Nat
  BY <1>2
<1>6. SumFunctionOnSet(f, a..(m + 1)) = f[m + 1] + SumFunctionOnSet(f, a..m)
  BY <1>2, <1>3, Zenon
<1> QED
  BY <1>4, <1>5, <1>6

LEMMA SumStarts == ASSUME NEW a \in Nat, NEW m \in Int, m < a, NEW f
                   PROVE  SumFunctionOnSet(f, a..m) = 0
<1>1. a..m = {}
  OBVIOUS
<1> QED
  BY <1>1, SumEmpty

LEMMA SumEnds ==
    ASSUME NEW a \in Nat, NEW l \in Nat, NEW m \in Int, m <= l, NEW f,
           \A i \in a..l : f[i] \in Nat
    PROVE  /\ SumFunctionOnSet(f, a..m) \in Nat /\ SumFunctionOnSet(f, a..l) \in Nat
           /\ SumFunctionOnSet(f, a..m) <= SumFunctionOnSet(f, a..l)
<1>1. IsFiniteSet(a..m) /\ IsFiniteSet(a..l) /\ a..m \subseteq a..l
  BY FS_Interval
<1>2. \A i \in a..m : f[i] \in Nat
  BY <1>1
<1> QED
  BY <1>1, <1>2, SumFewer, SumNatural

-----------------------------------------------------------------------------
(* Elements                                                                  *)
LEMMA KindOfTop ==
    ASSUME NEW e \in TopElements
    PROVE  /\ e.valid \in BOOLEAN /\ e.fields \in Nat
           /\ e.kind = "cluster" => e.children \in Seq(ChildElements)
BY DEF TopElements, Once, Opaque

LEMMA KindOfChild ==
    ASSUME NEW e \in ChildElements
    PROVE  /\ e.valid \in BOOLEAN
           /\ e.kind = "timestamp" => e.ticks \in Nat
           /\ e.kind = "block" => /\ e.track \in Nat /\ e.delta \in Int /\ e.laced \in BOOLEAN
           /\ e.kind = "group" => e.parts \in Seq(PartElements)
BY DEF ChildElements, PartElements, Opaque

LEMMA KindOfPart ==
    ASSUME NEW e \in PartElements
    PROVE  /\ e.valid \in BOOLEAN
           /\ e.kind = "duration" => e.ticks \in Nat
           /\ e.kind = "block" => /\ e.track \in Nat /\ e.delta \in Int /\ e.laced \in BOOLEAN
BY DEF PartElements, Opaque

LEMMA FirstOfClusters ==
    ASSUME NEW s \in Seq(TopElements)
    PROVE  /\ FirstCluster(s) \in 1..(Len(s) + 1)
           /\ \A i \in 1..(FirstCluster(s) - 1) : s[i].kind # "cluster"
<1>1. CASE ~\E i \in DOMAIN s : s[i].kind = "cluster"
  <2>1. FirstCluster(s) = Len(s) + 1
    BY <1>1 DEF FirstCluster
  <2> QED
    BY <1>1, <2>1
<1>2. CASE \E i \in DOMAIN s : s[i].kind = "cluster"
  <2> DEFINE Foremost(i) == s[i].kind = "cluster" /\ \A j \in 1..(i - 1) : s[j].kind # "cluster"
             G == {n \in Nat : \A i \in DOMAIN s : i <= n /\ s[i].kind = "cluster" =>
                                  \E k \in DOMAIN s : Foremost(k)}
  <2>1. 0 \in G
    OBVIOUS
  <2>2. ASSUME NEW n \in Nat, n \in G
        PROVE  n + 1 \in G
    <3>1. ASSUME NEW i \in DOMAIN s, i <= n + 1, s[i].kind = "cluster"
          PROVE  \E k \in DOMAIN s : Foremost(k)
      <4>1. CASE Foremost(i)
        BY <4>1
      <4>2. CASE ~Foremost(i)
        <5>1. PICK j \in 1..(i - 1) : s[j].kind = "cluster"
          BY <3>1, <4>2
        <5>2. DOMAIN s = 1..Len(s) /\ Len(s) \in Nat
          OBVIOUS
        <5>3. i \in 1..Len(s) /\ i <= n + 1 /\ j \in Int /\ 1 <= j /\ j <= i - 1
          BY <3>1, <5>2
        <5>4. j \in DOMAIN s /\ j <= n
          BY <5>2, <5>3
        <5> QED
          BY <2>2, <5>1, <5>4
      <4> QED
        BY <4>1, <4>2
    <3>2. n + 1 \in Nat
      OBVIOUS
    <3> HIDE DEF Foremost
    <3> QED
      BY <3>1, <3>2
  <2>3. \A n \in Nat : n \in G
    <3> HIDE DEF G
    <3> QED
      BY <2>1, <2>2, NatInduct
  <2>4. \E k \in DOMAIN s : Foremost(k)
    <3>1. PICK i \in DOMAIN s : s[i].kind = "cluster"
      BY <1>2
    <3>2. i \in Nat /\ i <= i
      OBVIOUS
    <3>3. i \in G
      BY <2>3, <3>2
    <3> HIDE DEF First
    <3> QED
      BY <3>1, <3>2, <3>3
  <2>5. FirstCluster(s) = CHOOSE k \in DOMAIN s : Foremost(k)
    BY <1>2 DEF FirstCluster
  <2>6. FirstCluster(s) \in DOMAIN s /\ Foremost(FirstCluster(s))
    <3> HIDE DEF First
    <3> QED
      BY <2>4, <2>5
  <2> QED
    BY <2>6
<1> QED
  BY <1>1, <1>2

(* The only one of a kind is the one that was met.                           *)
LEMMA SoleOne ==
    ASSUME NEW s, NEW kind, AtMostOne(s, kind), NEW i \in Among(s, kind)
    PROVE  Sole(s, kind) = s[i]
<1>1. (CHOOSE j \in Among(s, kind) : TRUE) \in Among(s, kind)
  OBVIOUS
<1>2. (CHOOSE j \in Among(s, kind) : TRUE) = i
  BY <1>1 DEF AtMostOne
<1> QED
  BY <1>2 DEF Sole

(* A product with a scale is negative if and only if the other factor is.    *)
LEMMA Signs ==
    ASSUME NEW a \in Int, NEW w \in Nat, w # 0
    PROVE  a * w < 0 <=> a < 0
<1>1. a >= 0 => a * w >= 0
  BY Z3
<1>2. a < 0 => a * w < 0
  BY Z3
<1> QED
  BY <1>1, <1>2

-----------------------------------------------------------------------------
(* What the walk knows of the elements it has passed.                        *)
PartKinds == {"block", "duration", "reference"} \union Opaque
ChildKinds == {"timestamp", "block", "group"} \union Opaque
Misplaced(t, b) == ~b.valid \/ (b.track \in Selected /\ (b.laced \/ (t + b.delta) * Scale < 0))

PartsSeen(s, n, t, b, d) ==
    /\ b \in {"none", "skipped", "selected"} /\ d \in Nat \union {Undeclared}
    /\ \A i \in 1..n : s[i].valid /\ s[i].kind \in PartKinds
    /\ \A i \in 1..n : \A j \in 1..n : s[i].kind = "block" /\ s[j].kind = "block" => i = j
    /\ \A i \in 1..n : \A j \in 1..n : s[i].kind = "duration" /\ s[j].kind = "duration" => i = j
    /\ b = "none" <=> \A i \in 1..n : s[i].kind # "block"
    /\ \A i \in 1..n : s[i].kind = "block" =>
          Playable(t, s[i]) /\ (b = "selected" <=> s[i].track \in Selected)
    /\ d = Undeclared <=> \A i \in 1..n : s[i].kind # "duration"
    /\ \A i \in 1..n : s[i].kind = "duration" => d = s[i].ticks

PartRefused(e, t, b, d) ==
    \/ ~e.valid
    \/ e.kind = "block" /\ (b # "none" \/ Misplaced(t, e))
    \/ e.kind = "duration" /\ d # Undeclared
    \/ e.kind \notin PartKinds
BlockAfter(e, b) == IF e.kind # "block" THEN b
                    ELSE IF e.track \in Selected THEN "selected" ELSE "skipped"
DurationAfter(e, d) == IF e.kind = "duration" THEN e.ticks ELSE d

LEMMA PlaceableIs ==
    ASSUME Scale # 0, NEW t \in Nat, NEW e, e.delta \in Int
    PROVE  Playable(t, e) <=> ~Misplaced(t, e)
<1>1. Scale \in Nat /\ t + e.delta \in Int
  BY MatroskaAssumption
<1>2. (t + e.delta) * Scale < 0 <=> t + e.delta < 0
  BY <1>1, Signs
<1>3. (t + e.delta) * Scale < 0 <=> ~(t + e.delta >= 0)
  BY <1>1, <1>2
<1> QED
  BY <1>3 DEF Playable, Misplaced

LEMMA PartsBegin == ASSUME NEW s, NEW t PROVE PartsSeen(s, 0, t, "none", Undeclared)
BY DEF PartsSeen, Undeclared

LEMMA PartsGoOn ==
    ASSUME NEW s \in Seq(PartElements), NEW n \in 0..(Len(s) - 1), Scale # 0, NEW t \in Nat,
           NEW b, NEW d, PartsSeen(s, n, t, b, d), ~PartRefused(s[n + 1], t, b, d)
    PROVE  PartsSeen(s, n + 1, t, BlockAfter(s[n + 1], b), DurationAfter(s[n + 1], d))
<1> DEFINE e == s[n + 1]
           c == BlockAfter(e, b)
           f == DurationAfter(e, d)
<1>1. e \in PartElements /\ n \in Nat
  OBVIOUS
<1>2. \A i \in 1..(n + 1) : i \in 1..n \/ (i = n + 1 /\ s[i] = e)
  OBVIOUS
<1>3. 1..n \subseteq 1..(n + 1) /\ n + 1 \in 1..(n + 1) /\ n + 1 \notin 1..n
  OBVIOUS
<1>4. e.valid /\ e.kind \in PartKinds
  BY DEF PartRefused
<1>5. e.kind = "block" => b = "none" /\ Playable(t, e)
  BY <1>1, KindOfPart, PlaceableIs DEF PartRefused
<1>6. e.kind = "duration" => d = Undeclared /\ e.ticks \in Nat
  BY <1>1, KindOfPart DEF PartRefused
<1>7. e.kind = "block" => e.kind # "duration"
  OBVIOUS
<1> HIDE DEF e
<1>8. /\ c \in {"none", "skipped", "selected"} /\ f \in Nat \union {Undeclared}
      /\ c = "none" <=> b = "none" /\ e.kind # "block"
      /\ f = Undeclared <=> d = Undeclared /\ e.kind # "duration"
  BY <1>5, <1>6 DEF PartsSeen, BlockAfter, DurationAfter, Undeclared
<1>9. e.kind = "block" => (c = "selected" <=> e.track \in Selected)
  BY DEF BlockAfter
<1>10. /\ e.kind # "block" => c = b
       /\ e.kind # "duration" => f = d
       /\ e.kind = "duration" => f = e.ticks
  BY DEF BlockAfter, DurationAfter
<1> HIDE DEF c, f
<1>11. /\ \A i \in 1..(n + 1) : s[i].valid /\ s[i].kind \in PartKinds
       /\ c = "none" <=> \A i \in 1..(n + 1) : s[i].kind # "block"
       /\ f = Undeclared <=> \A i \in 1..(n + 1) : s[i].kind # "duration"
  BY <1>2, <1>3, <1>4, <1>8 DEF PartsSeen, e
<1>12. \A i \in 1..(n + 1) : \A j \in 1..(n + 1) : s[i].kind = "block" /\ s[j].kind = "block" => i = j
  BY <1>2, <1>5 DEF PartsSeen
<1>13. \A i \in 1..(n + 1) : \A j \in 1..(n + 1) :
          s[i].kind = "duration" /\ s[j].kind = "duration" => i = j
  BY <1>2, <1>6 DEF PartsSeen
<1>14. \A i \in 1..(n + 1) : s[i].kind = "block" =>
          Playable(t, s[i]) /\ (c = "selected" <=> s[i].track \in Selected)
  BY <1>2, <1>5, <1>9, <1>10 DEF PartsSeen
<1>15. \A i \in 1..(n + 1) : s[i].kind = "duration" => f = s[i].ticks
  BY <1>2, <1>6, <1>10 DEF PartsSeen
<1>16. PartsSeen(s, n + 1, t, c, f)
  BY <1>8, <1>11, <1>12, <1>13, <1>14, <1>15 DEF PartsSeen
<1> QED
  BY <1>16 DEF c, f, e

LEMMA GroupIsFormed ==
    ASSUME NEW g, g.parts \in Seq(PartElements), NEW t, NEW b, NEW d,
           PartsSeen(g.parts, Len(g.parts), t, b, d), b # "none"
    PROVE  GroupFormed(t, g)
<1> DEFINE s == g.parts
<1>1. DOMAIN s = 1..Len(s)
  OBVIOUS
<1> HIDE DEF s
<1>2. PICK i \in 1..Len(s) : s[i].kind = "block"
  BY DEF PartsSeen, s
<1>3. AtMostOne(s, "block") /\ AtMostOne(s, "duration") /\ i \in Among(s, "block")
  BY <1>1, <1>2 DEF PartsSeen, AtMostOne, Among, s
<1>4. Sole(s, "block") = s[i]
  BY <1>3, SoleOne
<1>5. Playable(t, s[i])
  BY <1>2 DEF PartsSeen, s
<1>6. AllValid(s, PartKinds)
  BY <1>1 DEF PartsSeen, AllValid, s
<1> QED
  BY <1>3, <1>4, <1>5, <1>6 DEF GroupFormed, PartKinds, s

LEMMA GroupGoesOn ==
    ASSUME NEW g, g.parts \in Seq(PartElements), NEW n \in 0..(Len(g.parts) - 1), Scale # 0,
           NEW t \in Nat, NEW b, NEW d, PartsSeen(g.parts, n, t, b, d), GroupFormed(t, g)
    PROVE  ~PartRefused(g.parts[n + 1], t, b, d)
<1> DEFINE s == g.parts
           e == s[n + 1]
<1>1. DOMAIN s = 1..Len(s) /\ n + 1 \in DOMAIN s /\ 1..n \subseteq DOMAIN s /\ n + 1 \notin 1..n
  OBVIOUS
<1>2. e \in PartElements
  BY <1>1
<1>3. s \in Seq(PartElements) /\ PartsSeen(s, n, t, b, d)
  OBVIOUS
<1>4. /\ AllValid(s, PartKinds) /\ AtMostOne(s, "block") /\ AtMostOne(s, "duration")
      /\ Playable(t, Sole(s, "block"))
  BY DEF GroupFormed, PartKinds
<1> HIDE DEF s
<1>5. e.valid /\ e.kind \in PartKinds
  BY <1>1, <1>4 DEF AllValid
<1>6. ASSUME e.kind = "block"
      PROVE  b = "none" /\ ~Misplaced(t, e)
  <2>1. n + 1 \in Among(s, "block")
    BY <1>1, <1>6 DEF Among
  <2>2. \A i \in 1..n : s[i].kind # "block"
    BY <1>1, <1>4, <2>1 DEF AtMostOne, Among
  <2>3. Playable(t, e)
    BY <1>4, <2>1, SoleOne
  <2>4. e.delta \in Int
    BY <1>2, <1>6, KindOfPart
  <2> QED
    BY <1>3, <2>2, <2>3, <2>4, PlaceableIs DEF PartsSeen
<1>7. ASSUME e.kind = "duration"
      PROVE  d = Undeclared
  <2>1. n + 1 \in Among(s, "duration")
    BY <1>1, <1>7 DEF Among
  <2>2. \A i \in 1..n : s[i].kind # "duration"
    BY <1>1, <1>4, <2>1 DEF AtMostOne, Among
  <2> QED
    BY <1>3, <2>2 DEF PartsSeen
<1> QED
  BY <1>5, <1>6, <1>7 DEF PartRefused, s

ChildrenSeen(s, n, t) ==
    /\ t \in Nat \union {Undeclared}
    /\ \A i \in 1..n : s[i].valid /\ s[i].kind \in ChildKinds
    /\ \A i \in 1..n : \A j \in 1..n : s[i].kind = "timestamp" /\ s[j].kind = "timestamp" => i = j
    /\ t = Undeclared <=> \A i \in 1..n : s[i].kind # "timestamp"
    /\ \A i \in 1..n : s[i].kind = "timestamp" => t = s[i].ticks
    /\ \A i \in 1..n : s[i].kind \in {"block", "group"} =>
          \E j \in 1..n : j < i /\ s[j].kind = "timestamp"
    /\ \A i \in 1..n : s[i].kind = "block" => Playable(t, s[i])
    /\ \A i \in 1..n : s[i].kind = "group" => GroupFormed(t, s[i])

ChildRefused(e, t) ==
    \/ ~e.valid
    \/ e.kind = "timestamp" /\ t # Undeclared
    \/ e.kind \in {"block", "group"} /\ t = Undeclared
    \/ e.kind = "block" /\ Misplaced(t, e)
    \/ e.kind \notin ChildKinds
TimeAfter(e, t) == IF e.kind = "timestamp" THEN e.ticks ELSE t

LEMMA ChildrenBegin == ASSUME NEW s PROVE ChildrenSeen(s, 0, Undeclared)
BY DEF ChildrenSeen, Undeclared

LEMMA ChildrenGoOn ==
    ASSUME NEW s \in Seq(ChildElements), NEW n \in 0..(Len(s) - 1), Scale # 0, NEW t,
           ChildrenSeen(s, n, t), ~ChildRefused(s[n + 1], t),
           s[n + 1].kind = "group" => GroupFormed(t, s[n + 1])
    PROVE  ChildrenSeen(s, n + 1, TimeAfter(s[n + 1], t))
<1> DEFINE e == s[n + 1]
           u == TimeAfter(e, t)
<1>1. e \in ChildElements /\ n \in Nat
  OBVIOUS
<1>2. \A i \in 1..(n + 1) : i \in 1..n \/ (i = n + 1 /\ s[i] = e)
  OBVIOUS
<1>3. 1..n \subseteq 1..(n + 1) /\ n + 1 \in 1..(n + 1) /\ \A j \in 1..n : j < n + 1
  OBVIOUS
<1>4. e.valid /\ e.kind \in ChildKinds
  BY DEF ChildRefused
<1>5. e.kind \in {"block", "group"} => t \in Nat
  BY DEF ChildRefused, ChildrenSeen
<1>6. e.kind = "block" => Playable(t, e)
  BY <1>1, <1>5, KindOfChild, PlaceableIs DEF ChildRefused
<1>7. e.kind = "timestamp" => t = Undeclared /\ e.ticks \in Nat
  BY <1>1, KindOfChild DEF ChildRefused
<1>8. e.kind = "group" => GroupFormed(t, e)
  OBVIOUS
<1> HIDE DEF e
<1>9. /\ u \in Nat \union {Undeclared}
      /\ u = Undeclared <=> t = Undeclared /\ e.kind # "timestamp"
      /\ e.kind = "timestamp" => u = e.ticks
      /\ e.kind # "timestamp" => u = t
  BY <1>7 DEF ChildrenSeen, TimeAfter, Undeclared
<1> HIDE DEF u
<1>10. u = t \/ (t = Undeclared /\ e.kind = "timestamp")
  BY <1>7, <1>9
<1>11. \A i \in 1..n : s[i].kind \in {"block", "group"} => u = t
  <2> SUFFICES ASSUME NEW i \in 1..n, s[i].kind \in {"block", "group"}
               PROVE  u = t
    OBVIOUS
  <2>1. t # Undeclared
    BY DEF ChildrenSeen
  <2> QED
    BY <2>1, <1>10
<1>12. /\ \A i \in 1..(n + 1) : s[i].valid /\ s[i].kind \in ChildKinds
       /\ u = Undeclared <=> \A i \in 1..(n + 1) : s[i].kind # "timestamp"
  BY <1>2, <1>3, <1>4, <1>9 DEF ChildrenSeen, e
<1>13. \A i \in 1..(n + 1) : \A j \in 1..(n + 1) :
          s[i].kind = "timestamp" /\ s[j].kind = "timestamp" => i = j
  BY <1>2, <1>7 DEF ChildrenSeen
<1>14. \A i \in 1..(n + 1) : s[i].kind = "timestamp" => u = s[i].ticks
  <2> SUFFICES ASSUME NEW i \in 1..(n + 1), s[i].kind = "timestamp"
               PROVE  u = s[i].ticks
    OBVIOUS
  <2>1. CASE i \in 1..n
    BY <1>10, <2>1 DEF ChildrenSeen
  <2>2. CASE i = n + 1 /\ s[i] = e
    BY <1>9, <2>2
  <2> QED
    BY <1>2, <2>1, <2>2
<1>15. \A i \in 1..(n + 1) : s[i].kind \in {"block", "group"} =>
          \E j \in 1..(n + 1) : j < i /\ s[j].kind = "timestamp"
  <2> SUFFICES ASSUME NEW i \in 1..(n + 1), s[i].kind \in {"block", "group"}
               PROVE  \E j \in 1..n : j < i /\ s[j].kind = "timestamp"
    BY <1>3
  <2>1. CASE i \in 1..n
    BY <2>1 DEF ChildrenSeen
  <2>2. CASE i = n + 1 /\ s[i] = e
    <3>1. t # Undeclared
      BY <2>2 DEF ChildRefused, e
    <3>2. PICK j \in 1..n : s[j].kind = "timestamp"
      BY <3>1 DEF ChildrenSeen
    <3> QED
      BY <1>3, <2>2, <3>2
  <2> QED
    BY <1>2, <2>1, <2>2
<1>16. /\ \A i \in 1..(n + 1) : s[i].kind = "block" => Playable(u, s[i])
       /\ \A i \in 1..(n + 1) : s[i].kind = "group" => GroupFormed(u, s[i])
  <2> SUFFICES ASSUME NEW i \in 1..(n + 1), s[i].kind \in {"block", "group"}
               PROVE  /\ s[i].kind = "block" => Playable(u, s[i])
                      /\ s[i].kind = "group" => GroupFormed(u, s[i])
    OBVIOUS
  <2>1. CASE i \in 1..n
    BY <1>11, <2>1 DEF ChildrenSeen
  <2>2. CASE i = n + 1 /\ s[i] = e
    BY <1>6, <1>8, <1>9, <2>2
  <2> QED
    BY <1>2, <2>1, <2>2
<1>17. ChildrenSeen(s, n + 1, u)
  BY <1>9, <1>12, <1>13, <1>14, <1>15, <1>16 DEF ChildrenSeen
<1> QED
  BY <1>17 DEF u, e

LEMMA TimeIsStart ==
    ASSUME NEW s, DOMAIN s = 1..Len(s), NEW n \in 0..Len(s), Len(s) \in Nat, NEW t, t # Undeclared,
           ChildrenSeen(s, n, t), AtMostOne(s, "timestamp")
    PROVE  t = Starts(s) /\ t \in Nat
<1>1. PICK i \in 1..n : s[i].kind = "timestamp" /\ t = s[i].ticks
  BY DEF ChildrenSeen
<1>2. i \in Among(s, "timestamp")
  BY <1>1 DEF Among
<1>3. Sole(s, "timestamp") = s[i]
  BY <1>2, SoleOne
<1> QED
  BY <1>1, <1>3 DEF Starts, ChildrenSeen

LEMMA ClusterIsFormed ==
    ASSUME NEW s \in Seq(ChildElements), NEW t, ChildrenSeen(s, Len(s), t)
    PROVE  ClusterFormed(s)
<1>1. DOMAIN s = 1..Len(s) /\ Len(s) \in Nat
  OBVIOUS
<1>2. AtMostOne(s, "timestamp") /\ AllValid(s, ChildKinds)
  BY <1>1 DEF ChildrenSeen, AtMostOne, Among, AllValid
<1>3. t # Undeclared => t = Starts(s)
  BY <1>1, <1>2, TimeIsStart
<1>4. ASSUME NEW i \in 1..Len(s), s[i].kind \in {"block", "group"}
      PROVE  t = Starts(s)
  BY <1>3, <1>4 DEF ChildrenSeen
<1>5. \A i \in Among(s, "block") \union Among(s, "group") :
          \E j \in Among(s, "timestamp") : j < i
  <2> SUFFICES ASSUME NEW i \in 1..Len(s), s[i].kind \in {"block", "group"}
               PROVE  \E j \in Among(s, "timestamp") : j < i
    BY <1>1 DEF Among
  <2> QED
    BY <1>1 DEF ChildrenSeen, Among
<1>6. \A i \in Among(s, "block") : Playable(Starts(s), s[i])
  BY <1>1, <1>4 DEF ChildrenSeen, Among
<1>7. \A i \in Among(s, "group") : GroupFormed(Starts(s), s[i])
  BY <1>1, <1>4 DEF ChildrenSeen, Among
<1> QED
  BY <1>2, <1>5, <1>6, <1>7 DEF ClusterFormed, ChildKinds

LEMMA ClusterGoesOn ==
    ASSUME NEW s \in Seq(ChildElements), NEW n \in 0..(Len(s) - 1), Scale # 0, NEW t,
           ChildrenSeen(s, n, t), ClusterFormed(s)
    PROVE  ~ChildRefused(s[n + 1], t)
<1> DEFINE e == s[n + 1]
<1>1. /\ DOMAIN s = 1..Len(s) /\ Len(s) \in Nat /\ n \in 0..Len(s) /\ n + 1 \in 1..Len(s)
      /\ n + 1 \notin 1..n /\ \A j \in 1..Len(s) : j < n + 1 => j \in 1..n
  OBVIOUS
<1>2. e \in ChildElements
  BY <1>1
<1>3. /\ AllValid(s, ChildKinds) /\ AtMostOne(s, "timestamp")
      /\ \A i \in Among(s, "block") \union Among(s, "group") :
            \E j \in Among(s, "timestamp") : j < i
      /\ \A i \in Among(s, "block") : Playable(Starts(s), s[i])
  BY DEF ClusterFormed, ChildKinds
<1>4. e.valid /\ e.kind \in ChildKinds
  BY <1>1, <1>3 DEF AllValid
<1>5. ASSUME e.kind = "timestamp"
      PROVE  t = Undeclared
  <2>1. n + 1 \in Among(s, "timestamp")
    BY <1>1, <1>5 DEF Among
  <2>2. \A i \in 1..n : s[i].kind # "timestamp"
    BY <1>1, <1>3, <2>1 DEF AtMostOne, Among
  <2> QED
    BY <2>2 DEF ChildrenSeen
<1>6. ASSUME e.kind \in {"block", "group"}
      PROVE  t # Undeclared
  <2>1. n + 1 \in Among(s, "block") \union Among(s, "group")
    BY <1>1, <1>6 DEF Among
  <2>2. PICK j \in Among(s, "timestamp") : j < n + 1
    BY <1>3, <2>1
  <2>3. j \in 1..n /\ s[j].kind = "timestamp"
    BY <1>1, <2>2 DEF Among
  <2> QED
    BY <2>3 DEF ChildrenSeen
<1>7. ASSUME e.kind = "block"
      PROVE  ~Misplaced(t, e)
  <2>1. t = Starts(s) /\ t \in Nat
    BY <1>1, <1>3, <1>6, <1>7, TimeIsStart
  <2>2. n + 1 \in Among(s, "block")
    BY <1>1, <1>7 DEF Among
  <2>3. Playable(t, e) /\ e.delta \in Int
    BY <1>2, <1>3, <1>7, <2>1, <2>2, KindOfChild
  <2> QED
    BY <2>1, <2>3, PlaceableIs
<1> HIDE DEF e
<1>8. ~ChildRefused(e, t)
  BY <1>4, <1>5, <1>6, <1>7 DEF ChildRefused
<1> QED
  BY <1>8 DEF e

TopKinds == Once \union Opaque \union {"cluster"}
TopsSeen(s, n, taken) ==
    /\ \A i \in 1..n : s[i].valid /\ s[i].kind \in TopKinds
    /\ taken = {k \in Once : \E i \in 1..n : s[i].kind = k}
    /\ \A i \in 1..n : \A j \in 1..n : s[i].kind = s[j].kind /\ s[i].kind \in Once => i = j
TopRefused(e, taken) ==
    ~e.valid \/ (e.kind \in Once /\ e.kind \in taken) \/ e.kind \notin TopKinds
Discovered(f) ==
    /\ f.whole /\ Scale # 0 /\ AllValid(f.tops, TopKinds)
    /\ \A kind \in Once : AtMostOne(f.tops, kind)
    /\ Among(f.tops, "tracks") # {}

LEMMA TopsBegin == ASSUME NEW s PROVE TopsSeen(s, 0, {})
BY DEF TopsSeen

LEMMA TopsGoOn ==
    ASSUME NEW s \in Seq(TopElements), NEW n \in 0..(Len(s) - 1), NEW taken,
           TopsSeen(s, n, taken), ~TopRefused(s[n + 1], taken)
    PROVE  TopsSeen(s, n + 1, taken \union (Once \intersect {s[n + 1].kind}))
<1> DEFINE e == s[n + 1]
<1>1. \A i \in 1..(n + 1) : i \in 1..n \/ (i = n + 1 /\ s[i] = e)
  OBVIOUS
<1>2. 1..n \subseteq 1..(n + 1) /\ n + 1 \in 1..(n + 1)
  OBVIOUS
<1>3. e.valid /\ e.kind \in TopKinds /\ (e.kind \in Once => e.kind \notin taken)
  BY DEF TopRefused
<1> HIDE DEF e
<1>4. \A i \in 1..(n + 1) : s[i].valid /\ s[i].kind \in TopKinds
  BY <1>1, <1>3 DEF TopsSeen
<1>5. taken \union (Once \intersect {e.kind}) =
          {k \in Once : \E i \in 1..(n + 1) : s[i].kind = k}
  BY <1>1, <1>2 DEF TopsSeen, e
<1>6. ASSUME NEW i \in 1..(n + 1), NEW j \in 1..(n + 1), s[i].kind = s[j].kind, s[i].kind \in Once
      PROVE  i = j
  BY <1>1, <1>3, <1>6 DEF TopsSeen
<1> QED
  BY <1>4, <1>5, <1>6 DEF TopsSeen, e

LEMMA TopsAreSeen ==
    ASSUME NEW f, f.tops \in Seq(TopElements), NEW taken, TopsSeen(f.tops, Len(f.tops), taken),
           f.whole, Scale # 0, "tracks" \in taken
    PROVE  Discovered(f)
<1> DEFINE s == f.tops
<1>1. DOMAIN s = 1..Len(s)
  OBVIOUS
<1> HIDE DEF s
<1>2. AllValid(s, TopKinds) /\ \A kind \in Once : AtMostOne(s, kind)
  BY <1>1 DEF TopsSeen, AllValid, AtMostOne, Among, s
<1>3. Among(s, "tracks") # {}
  BY <1>1 DEF TopsSeen, Among, s
<1> QED
  BY <1>2, <1>3 DEF Discovered, s

LEMMA WellFormedIs ==
    ASSUME NEW f
    PROVE  WellFormed(f) <=>
             /\ Discovered(f)
             /\ \A i \in Among(f.tops, "cluster") : ClusterFormed(f.tops[i].children)
BY DEF WellFormed, Discovered, TopKinds

LEMMA TopsMayGoOn ==
    ASSUME NEW f, f.tops \in Seq(TopElements), Discovered(f), NEW taken
    PROVE  /\ \A n \in 0..(Len(f.tops) - 1) :
                 TopsSeen(f.tops, n, taken) => ~TopRefused(f.tops[n + 1], taken)
           /\ TopsSeen(f.tops, Len(f.tops), taken) => "tracks" \in taken
<1> DEFINE s == f.tops
<1>1. DOMAIN s = 1..Len(s)
  OBVIOUS
<1>2. ASSUME NEW n \in 0..(Len(s) - 1), TopsSeen(s, n, taken)
      PROVE  ~TopRefused(s[n + 1], taken)
  <2>1. n + 1 \in DOMAIN s /\ 1..n \subseteq DOMAIN s /\ n + 1 \notin 1..n
    BY <1>1
  <2>2. s[n + 1].valid /\ s[n + 1].kind \in TopKinds
    BY <2>1 DEF Discovered, AllValid
  <2>3. s[n + 1].kind \in Once => s[n + 1].kind \notin taken
    <3>1. \A kind \in Once : AtMostOne(s, kind)
      BY DEF Discovered
    <3> HIDE DEF s
    <3> QED
      BY <1>2, <2>1, <3>1 DEF TopsSeen, AtMostOne, Among
  <2> QED
    BY <2>2, <2>3 DEF TopRefused
<1>3. TopsSeen(s, Len(s), taken) => "tracks" \in taken
  <2>1. PICK i \in DOMAIN s : s[i].kind = "tracks"
    BY DEF Discovered, Among
  <2> QED
    BY <1>1, <2>1 DEF TopsSeen, Once
<1> QED
  BY <1>2, <1>3

-----------------------------------------------------------------------------
(* Frames                                                                    *)
FrameSet == [time : Int, duration : Int]

LEMMA FrameTyped ==
    ASSUME NEW start \in Int, NEW b, b.delta \in Int, NEW others,
           \A i \in Among(others, "duration") : others[i].ticks \in Nat
    PROVE  FrameOf(start, b, others) \in Seq(FrameSet)
<1> DEFINE d == IF Among(others, "duration") = {} THEN Undeclared
                ELSE Sole(others, "duration").ticks * Scale
<1>1. Scale \in Nat /\ start + b.delta \in Int
  BY MatroskaAssumption
<1>2. (start + b.delta) * Scale \in Int
  BY <1>1
<1>3. d \in Int
  <2>1. CASE Among(others, "duration") = {}
    BY <2>1 DEF Undeclared
  <2>2. CASE Among(others, "duration") # {}
    <3>1. Sole(others, "duration").ticks \in Nat
      BY <2>2 DEF Sole
    <3> QED
      BY <1>1, <2>2, <3>1
  <2> QED
    BY <2>1, <2>2
<1> HIDE DEF d
<1>4. [time |-> (start + b.delta) * Scale, duration |-> d] \in FrameSet
  BY <1>2, <1>3 DEF FrameSet
<1>5. \A r \in FrameSet : <<r>> \in Seq(FrameSet)
  OBVIOUS
<1> QED
  BY <1>4, <1>5 DEF FrameOf, d

LEMMA StartIs ==
    ASSUME NEW s \in Seq(ChildElements), ClusterFormed(s),
           NEW i \in Among(s, "block") \union Among(s, "group")
    PROVE  Starts(s) \in Nat
<1>1. PICK j \in Among(s, "timestamp") : TRUE
  BY DEF ClusterFormed
<1>2. Sole(s, "timestamp") = s[j]
  BY SoleOne DEF ClusterFormed
<1>3. s[j] \in ChildElements /\ s[j].kind = "timestamp"
  BY DEF Among
<1> QED
  BY <1>2, <1>3, KindOfChild DEF Starts

LEMMA ClusterFramesTyped ==
    ASSUME NEW s \in Seq(ChildElements), ClusterFormed(s)
    PROVE  ClusterFrames(s) \in Seq(Seq(FrameSet)) /\ Len(ClusterFrames(s)) = Len(s)
<1>1. ASSUME NEW i \in DOMAIN s
      PROVE  ChildFrames(Starts(s), s[i]) \in Seq(FrameSet)
  <2> DEFINE e == s[i]
  <2>1. e \in ChildElements
    OBVIOUS
  <2> HIDE DEF e
  <2>2. CASE e.kind = "block"
    <3>1. Starts(s) \in Nat /\ e.delta \in Int
      BY <2>1, <2>2, StartIs, KindOfChild DEF Among, e
    <3>2. Among(<<>>, "duration") = {}
      BY DEF Among
    <3>3. FrameOf(Starts(s), e, <<>>) \in Seq(FrameSet)
      BY <3>1, <3>2, FrameTyped
    <3> QED
      BY <2>2, <3>3 DEF ChildFrames, e
  <2>3. CASE e.kind = "group"
    <3> DEFINE p == e.parts
    <3>1. i \in Among(s, "group")
      BY <2>3 DEF Among, e
    <3>2. Starts(s) \in Nat /\ p \in Seq(PartElements)
      BY <2>1, <2>3, <3>1, StartIs, KindOfChild
    <3>3. GroupFormed(Starts(s), e)
      BY <3>1 DEF ClusterFormed, e
    <3>4. PICK k \in Among(p, "block") : TRUE
      BY <3>3 DEF GroupFormed
    <3>5. Sole(p, "block") = p[k] /\ p[k] \in PartElements /\ p[k].kind = "block"
      BY <3>2, <3>3, <3>4, SoleOne DEF GroupFormed, Among
    <3>6. Sole(p, "block").delta \in Int
      BY <3>5, KindOfPart
    <3>7. \A j \in Among(p, "duration") : p[j].ticks \in Nat
      BY <3>2, KindOfPart DEF Among
    <3> HIDE DEF p
    <3>8. FrameOf(Starts(s), Sole(p, "block"), p) \in Seq(FrameSet)
      BY <3>2, <3>6, <3>7, FrameTyped
    <3> QED
      BY <2>3, <3>8 DEF ChildFrames, e, p
  <2>4. CASE e.kind \notin {"block", "group"}
    <3>1. ChildFrames(Starts(s), e) = <<>>
      BY <2>4 DEF ChildFrames
    <3> QED
      BY <3>1 DEF e
  <2> QED
    BY <2>2, <2>3, <2>4 DEF e
<1>2. DOMAIN s = 1..Len(s) /\ Len(s) \in Nat
  OBVIOUS
<1> QED
  BY <1>1, <1>2 DEF ClusterFrames

LEMMA TopFramesTyped ==
    ASSUME NEW f, f.tops \in Seq(TopElements), WellFormed(f)
    PROVE  TopFrames(f.tops) \in Seq(Seq(FrameSet)) /\ Len(TopFrames(f.tops)) = Len(f.tops)
<1> DEFINE s == f.tops
<1>1. ASSUME NEW i \in DOMAIN s, s[i].kind = "cluster"
      PROVE  FlattenSeq(ClusterFrames(s[i].children)) \in Seq(FrameSet)
  <2> DEFINE c == s[i].children
  <2>1. c \in Seq(ChildElements)
    BY <1>1, KindOfTop
  <2>2. ClusterFormed(c)
    BY <1>1, WellFormedIs DEF Among
  <2> HIDE DEF c
  <2>3. ClusterFrames(c) \in Seq(Seq(FrameSet))
    BY <2>1, <2>2, ClusterFramesTyped
  <2>4. Flat(ClusterFrames(c), Len(ClusterFrames(c))) \in Seq(FrameSet)
    <3>1. Len(ClusterFrames(c)) \in 0..Len(ClusterFrames(c))
      BY <2>3
    <3> QED
      BY <2>3, <3>1, FlatSteps
  <2> QED
    BY <2>3, <2>4, FlatWhole DEF c
<1>2. DOMAIN s = 1..Len(s) /\ Len(s) \in Nat
  OBVIOUS
<1> HIDE DEF s
<1>3. \A i \in DOMAIN s : (IF s[i].kind = "cluster"
                           THEN FlattenSeq(ClusterFrames(s[i].children)) ELSE <<>>) \in Seq(FrameSet)
  <2>1. <<>> \in Seq(FrameSet)
    OBVIOUS
  <2> QED
    BY <1>1, <2>1
<1> QED
  BY <1>2, <1>3 DEF TopFrames, s

-----------------------------------------------------------------------------
(* Costs                                                                     *)
FieldsOf(f, n) == SumFunctionOnSet(FieldCosts(f.tops), 1..n)
ChildrenOf(s, n) == SumFunctionOnSet(ChildCosts(s), 1..n)
Passed(f, n) == f.head + SumFunction(FieldCosts(f.tops))
                + SumFunctionOnSet(WalkCosts(f.tops), FirstCluster(f.tops)..n)

LEMMA AddedTo ==
    ASSUME NEW x \in Nat, NEW y \in Nat, NEW p, NEW q, p = 1 + y, q = x + p
    PROVE  q = x + 1 + y
  OBVIOUS

LEMMA CostOfChildren ==
    ASSUME NEW s \in Seq(ChildElements)
    PROVE  /\ ChildrenOf(s, 0) = 0 /\ ChildrenOf(s, Len(s)) \in Nat
           /\ SumFunction(ChildCosts(s)) = ChildrenOf(s, Len(s))
           /\ \A n \in 0..(Len(s) - 1) :
                 /\ ChildrenOf(s, n) \in Nat
                 /\ ChildrenOf(s, n + 1) =
                        ChildrenOf(s, n) + 1 + IF s[n + 1].kind = "group"
                                               THEN Len(s[n + 1].parts) ELSE 0
                 /\ ChildrenOf(s, n + 1) <= ChildrenOf(s, Len(s))
<1> DEFINE g == ChildCosts(s)
           l == Len(s)
<1>1. DOMAIN s = 1..l /\ l \in Nat /\ \A i \in 1..l : s[i] \in ChildElements
  OBVIOUS
<1>2. \A i \in 1..l : /\ g[i] = 1 + IF s[i].kind = "group" THEN Len(s[i].parts) ELSE 0
                      /\ s[i].kind = "group" => Len(s[i].parts) \in Nat
  <2>1. \A i \in 1..l : s[i].kind = "group" => s[i].parts \in Seq(PartElements)
    BY <1>1, KindOfChild
  <2> QED
    BY <1>1, <2>1 DEF ChildCosts
<1>3. \A i \in 1..l : g[i] \in Nat
  BY <1>2
<1>4. DOMAIN g = 1..l
  BY <1>1 DEF ChildCosts
<1> HIDE DEF g, l
<1>5. ASSUME NEW n \in 0..(l - 1)
      PROVE  /\ SumFunctionOnSet(g, 1..n) \in Nat
             /\ SumFunctionOnSet(g, 1..(n + 1)) = SumFunctionOnSet(g, 1..n) + g[n + 1]
             /\ SumFunctionOnSet(g, 1..(n + 1)) <= SumFunctionOnSet(g, 1..l)
  <2>1. n \in Nat /\ 1 <= n + 1 /\ n + 1 <= l /\ n + 1 \in Int
    BY <1>1
  <2>2. \A i \in 1..(n + 1) : g[i] \in Nat
    BY <1>1, <1>3, <2>1
  <2> QED
    BY <1>1, <1>3, <2>1, <2>2, SumUp, SumEnds
<1>6. SumFunctionOnSet(g, 1..l) \in Nat /\ SumFunctionOnSet(g, 1..0) = 0
  BY <1>1, <1>3, SumEnds, SumStarts
<1>7. \A n \in 0..(l - 1) : n + 1 \in 1..l
  BY <1>1
<1>8. \A n : ChildrenOf(s, n) = SumFunctionOnSet(g, 1..n)
  BY DEF ChildrenOf, g
<1>9. SumFunction(g) = SumFunctionOnSet(g, 1..l)
  BY <1>4 DEF SumFunction
<1>10. ASSUME NEW n \in 0..(l - 1)
       PROVE  /\ ChildrenOf(s, n) \in Nat
              /\ ChildrenOf(s, n + 1) = ChildrenOf(s, n) + g[n + 1]
              /\ ChildrenOf(s, n + 1) <= ChildrenOf(s, l)
              /\ g[n + 1] = 1 + IF s[n + 1].kind = "group" THEN Len(s[n + 1].parts) ELSE 0
              /\ s[n + 1].kind = "group" => Len(s[n + 1].parts) \in Nat
  BY <1>2, <1>5, <1>7, <1>8
<1>11. ASSUME NEW n \in 0..(l - 1)
       PROVE  ChildrenOf(s, n + 1) =
                  ChildrenOf(s, n) + 1 + IF s[n + 1].kind = "group"
                                         THEN Len(s[n + 1].parts) ELSE 0
  <2>1. CASE s[n + 1].kind = "group"
    <3>1. g[n + 1] = 1 + Len(s[n + 1].parts) /\ Len(s[n + 1].parts) \in Nat
      BY <1>10, <2>1
    <3>2. ChildrenOf(s, n) \in Nat /\ ChildrenOf(s, n + 1) = ChildrenOf(s, n) + g[n + 1]
      BY <1>10
    <3>3. ChildrenOf(s, n + 1) = ChildrenOf(s, n) + 1 + Len(s[n + 1].parts)
      <4> DEFINE before == ChildrenOf(s, n)
                 after == ChildrenOf(s, n + 1)
                 cost == g[n + 1]
                 size == Len(s[n + 1].parts)
      <4>1. before \in Nat /\ size \in Nat /\ cost = 1 + size /\ after = before + cost
        BY <3>1, <3>2, Zenon
      <4> HIDE DEF before, after, cost, size
      <4>2. after = before + 1 + size
        BY <4>1, AddedTo
      <4> QED
        BY <4>2, Zenon DEF before, after, size
    <3> QED
      BY <2>1, <3>3
  <2>2. CASE s[n + 1].kind # "group"
    BY <1>10, <2>2
  <2> QED
    BY <2>1, <2>2
<1> QED
  BY <1>6, <1>8, <1>9, <1>10, <1>11 DEF g, l

LEMMA CostOfTops ==
    ASSUME NEW f \in MkvFiles
    PROVE  /\ FieldsOf(f, 0) = 0 /\ f.head \in Nat
           /\ \A n \in 0..(Len(f.tops) - 1) :
                 /\ FieldsOf(f, n) \in Nat
                 /\ FieldsOf(f, n + 1) = FieldsOf(f, n) + 1 + f.tops[n + 1].fields
                 /\ f.head + FieldsOf(f, n + 1) <= Cost(f)
           /\ Passed(f, FirstCluster(f.tops) - 1) = f.head + FieldsOf(f, Len(f.tops))
           /\ Cost(f) = Passed(f, Len(f.tops)) /\ Cost(f) \in Nat /\ f.head <= Cost(f)
           /\ \A n \in FirstCluster(f.tops)..Len(f.tops) :
                 /\ Passed(f, n - 1) \in Nat /\ Passed(f, n) <= Cost(f)
                 /\ Passed(f, n) = Passed(f, n - 1) + 1
                       + IF f.tops[n].kind = "cluster"
                         THEN ChildrenOf(f.tops[n].children, Len(f.tops[n].children)) ELSE 0
<1> DEFINE s == f.tops
           l == Len(s)
           c == FirstCluster(s)
           h == f.head
           u == FieldCosts(s)
           w == WalkCosts(s)
<1>1. s \in Seq(TopElements) /\ h \in Nat
  BY MatroskaAssumption
<1>2. DOMAIN s = 1..l /\ l \in Nat /\ \A i \in 1..l : s[i] \in TopElements
  BY <1>1
<1>3. c \in 1..(l + 1)
  BY <1>1, FirstOfClusters
<1>4. DOMAIN u = 1..l /\ \A i \in 1..l : u[i] = 1 + s[i].fields /\ u[i] \in Nat /\ s[i].fields \in Nat
  BY <1>2, KindOfTop DEF FieldCosts
<1>5. ASSUME NEW i \in 1..l
      PROVE  /\ w[i] = 1 + IF s[i].kind = "cluster"
                           THEN ChildrenOf(s[i].children, Len(s[i].children)) ELSE 0
             /\ w[i] \in Nat
  <2>1. s[i].kind = "cluster" => s[i].children \in Seq(ChildElements)
    BY <1>2, KindOfTop
  <2>2. s[i].kind = "cluster" =>
          /\ SumFunction(ChildCosts(s[i].children)) = ChildrenOf(s[i].children, Len(s[i].children))
          /\ ChildrenOf(s[i].children, Len(s[i].children)) \in Nat
    BY <2>1, CostOfChildren
  <2>3. w[i] = 1 + IF s[i].kind = "cluster"
                   THEN SumFunction(ChildCosts(s[i].children)) ELSE 0
    BY <1>2 DEF WalkCosts
  <2> HIDE DEF w
  <2> QED
    BY <2>2, <2>3
<1>6. /\ Cost(f) = h + SumFunction(u) + SumFunctionOnSet(w, c..l)
      /\ \A n : FieldsOf(f, n) = SumFunctionOnSet(u, 1..n)
      /\ \A n : Passed(f, n) = h + SumFunction(u) + SumFunctionOnSet(w, c..n)
  BY DEF Cost, FieldsOf, Passed
<1> HIDE DEF u, w, h, c, l, s
<1>7. SumFunction(u) = SumFunctionOnSet(u, 1..l)
  BY <1>4 DEF SumFunction
<1>8. ASSUME NEW n \in 0..(l - 1)
      PROVE  /\ SumFunctionOnSet(u, 1..n) \in Nat
             /\ SumFunctionOnSet(u, 1..(n + 1)) = SumFunctionOnSet(u, 1..n) + u[n + 1]
             /\ SumFunctionOnSet(u, 1..(n + 1)) <= SumFunctionOnSet(u, 1..l)
             /\ n + 1 \in 1..l
  <2>1. n \in Nat /\ 1 <= n + 1 /\ n + 1 <= l /\ n + 1 \in Int /\ n + 1 \in 1..l
    BY <1>2
  <2>2. (\A i \in 1..(n + 1) : u[i] \in Nat) /\ \A i \in 1..l : u[i] \in Nat
    BY <1>2, <1>4, <2>1
  <2> QED
    BY <1>2, <2>1, <2>2, SumUp, SumEnds
<1>9. SumFunctionOnSet(u, 1..l) \in Nat /\ SumFunctionOnSet(u, 1..0) = 0
  <2>1. \A i \in 1..l : u[i] \in Nat
    BY <1>4
  <2> QED
    BY <1>2, <2>1, SumEnds, SumStarts
<1>10. ASSUME NEW n \in c..l
       PROVE  /\ SumFunctionOnSet(w, c..(n - 1)) \in Nat
              /\ SumFunctionOnSet(w, c..n) = SumFunctionOnSet(w, c..(n - 1)) + w[n]
              /\ SumFunctionOnSet(w, c..n) <= SumFunctionOnSet(w, c..l)
              /\ n \in 1..l
  <2>1. PICK m \in Nat : n = m + 1
    <3>1. n - 1 \in Nat /\ n = (n - 1) + 1
      BY <1>2, <1>3
    <3> QED
      BY <3>1
  <2>2. c \in Nat /\ c <= m + 1 /\ n <= l /\ n \in Int /\ n - 1 = m /\ n \in 1..l
    BY <1>2, <1>3, <2>1
  <2>3. (\A i \in c..(m + 1) : w[i] \in Nat) /\ \A i \in c..l : w[i] \in Nat
    BY <1>2, <1>3, <1>5, <2>1, <2>2
  <2>4. /\ SumFunctionOnSet(w, c..m) \in Nat
        /\ SumFunctionOnSet(w, c..(m + 1)) = SumFunctionOnSet(w, c..m) + w[m + 1]
    BY <2>2, <2>3, SumUp
  <2>5. SumFunctionOnSet(w, c..n) <= SumFunctionOnSet(w, c..l)
    BY <1>2, <2>2, <2>3, SumEnds
  <2> QED
    BY <2>1, <2>2, <2>4, <2>5
<1>11. SumFunctionOnSet(w, c..l) \in Nat /\ SumFunctionOnSet(w, c..(c - 1)) = 0
  <2>1. \A i \in c..l : w[i] \in Nat
    BY <1>2, <1>3, <1>5
  <2>2. c \in Nat /\ c - 1 \in Int /\ c - 1 < c
    BY <1>2, <1>3
  <2> QED
    BY <1>2, <2>1, <2>2, SumEnds, SumStarts
<1>12. FieldsOf(f, 0) = 0 /\ h \in Nat
  BY <1>1, <1>6, <1>9
<1>13. ASSUME NEW n \in 0..(l - 1)
       PROVE  /\ FieldsOf(f, n) \in Nat
              /\ FieldsOf(f, n + 1) = FieldsOf(f, n) + 1 + s[n + 1].fields
              /\ h + FieldsOf(f, n + 1) <= Cost(f)
  <2>1. /\ FieldsOf(f, n) \in Nat
        /\ FieldsOf(f, n + 1) = FieldsOf(f, n) + u[n + 1]
        /\ FieldsOf(f, n + 1) <= SumFunctionOnSet(u, 1..l)
    BY <1>6, <1>8
  <2>2. u[n + 1] = 1 + s[n + 1].fields /\ s[n + 1].fields \in Nat
    BY <1>4, <1>8
  <2>3. FieldsOf(f, n + 1) = FieldsOf(f, n) + 1 + s[n + 1].fields
    BY <2>1, <2>2
  <2>4. Cost(f) = h + SumFunctionOnSet(u, 1..l) + SumFunctionOnSet(w, c..l)
    BY <1>6, <1>7
  <2>5. FieldsOf(f, n + 1) \in Nat
    BY <2>1, <2>2
  <2>6. h + FieldsOf(f, n + 1) <= Cost(f)
    BY <1>1, <1>9, <1>11, <2>1, <2>4, <2>5
  <2> QED
    BY <2>1, <2>3, <2>6
<1>14. /\ Passed(f, c - 1) = h + FieldsOf(f, l) /\ Cost(f) = Passed(f, l)
       /\ Cost(f) \in Nat /\ h <= Cost(f)
  BY <1>1, <1>6, <1>7, <1>9, <1>11
<1>15. ASSUME NEW n \in c..l
       PROVE  /\ Passed(f, n - 1) \in Nat /\ Passed(f, n) <= Cost(f)
              /\ Passed(f, n) = Passed(f, n - 1) + w[n]
              /\ w[n] \in Nat
              /\ w[n] = 1 + IF s[n].kind = "cluster"
                            THEN ChildrenOf(s[n].children, Len(s[n].children)) ELSE 0
  <2>1. /\ Cost(f) = h + SumFunction(u) + SumFunctionOnSet(w, c..l)
        /\ Passed(f, n - 1) = h + SumFunction(u) + SumFunctionOnSet(w, c..(n - 1))
        /\ Passed(f, n) = h + SumFunction(u) + SumFunctionOnSet(w, c..n)
    BY <1>6
  <2>2. h \in Nat /\ SumFunction(u) \in Nat /\ SumFunctionOnSet(w, c..l) \in Nat
    BY <1>1, <1>7, <1>9, <1>11
  <2>3. /\ w[n] \in Nat
        /\ w[n] = 1 + IF s[n].kind = "cluster"
                      THEN ChildrenOf(s[n].children, Len(s[n].children)) ELSE 0
    BY <1>5, <1>10
  <2>4. /\ SumFunctionOnSet(w, c..(n - 1)) \in Nat
        /\ SumFunctionOnSet(w, c..n) = SumFunctionOnSet(w, c..(n - 1)) + w[n]
        /\ SumFunctionOnSet(w, c..n) <= SumFunctionOnSet(w, c..l)
    BY <1>10
  <2> QED
    BY <2>1, <2>2, <2>3, <2>4
<1>16. ASSUME NEW n \in c..l
       PROVE  Passed(f, n) = Passed(f, n - 1) + 1
                 + IF s[n].kind = "cluster"
                   THEN ChildrenOf(s[n].children, Len(s[n].children)) ELSE 0
  <2>1. s[n].kind = "cluster" => ChildrenOf(s[n].children, Len(s[n].children)) \in Nat
    <3>1. n \in 1..l
      BY <1>10
    <3> QED
      BY <1>2, <3>1, KindOfTop, CostOfChildren
  <2>2. CASE s[n].kind = "cluster"
    BY <1>15, <2>1, <2>2
  <2>3. CASE s[n].kind # "cluster"
    BY <1>15, <2>3
  <2> QED
    BY <2>2, <2>3
<1> QED
  BY <1>12, <1>13, <1>14, <1>15, <1>16 DEF s, l, c, h

-----------------------------------------------------------------------------
(* The invariant: where the walk is, what it has spent, what it knows of the *)
(* elements it has passed, and, if the file is well formed, what it has      *)
(* emitted: the frames of the clusters passed, of the children passed, and   *)
(* of the group at hand its block, without the duration.                     *)
Inside == {"cluster", "group"}
Placed ==
    /\ file \in MkvFiles /\ top \in 1..(Len(file.tops) + 1)
    /\ walk \in {"walk", "done"} \union Inside => FirstCluster(file.tops) <= top
    /\ walk \in Inside => /\ top <= Len(file.tops) /\ Top.kind = "cluster"
                          /\ child \in 1..(Len(Top.children) + 1)
    /\ walk = "group" => /\ child <= Len(Top.children) /\ Child.kind = "group"
                         /\ part \in 1..(Len(Child.parts) + 1)
    /\ walk = "done" => top = Len(file.tops) + 1

Spent ==
    /\ walk = "open" => budget = Elements /\ top = 1
    /\ walk = "discover" => Elements - budget = file.head + FieldsOf(file, top - 1)
    /\ walk \in {"walk", "done"} => Elements - budget = Passed(file, top - 1)
    /\ walk = "cluster" =>
          Elements - budget = Passed(file, top - 1) + 1 + ChildrenOf(Top.children, child - 1)
    /\ walk = "group" =>
          Elements - budget =
              Passed(file, top - 1) + 1 + ChildrenOf(Top.children, child - 1) + part

Known ==
    /\ walk = "open" => had = {}
    /\ walk = "discover" => file.whole /\ TopsSeen(file.tops, top - 1, had)
    /\ walk \in {"walk", "done"} \union Inside =>
          /\ Discovered(file)
          /\ \A i \in 1..(top - 1) :
                file.tops[i].kind = "cluster" => ClusterFormed(file.tops[i].children)
    /\ walk \in Inside => ChildrenSeen(Top.children, child - 1, time)
    /\ walk = "group" => /\ time # Undeclared /\ Child.valid
                         /\ PartsSeen(Child.parts, part - 1, time, block, duration)

PassedFrames(f, n) == Flat(TopFrames(f.tops), n)
ChildrenFrames(s, n) == Flat(ClusterFrames(s), n)
Held(t, g, b) ==
    IF b = "selected"
    THEN <<[time |-> (t + Sole(g.parts, "block").delta) * Scale, duration |-> Undeclared]>>
    ELSE <<>>
Emitting ==
    /\ walk \in {"open", "discover"} => emitted = <<>>
    /\ WellFormed(file) =>
         /\ walk \in {"walk", "done"} => emitted = PassedFrames(file, top - 1)
         /\ walk = "cluster" =>
               emitted = PassedFrames(file, top - 1) \o ChildrenFrames(Top.children, child - 1)
         /\ walk = "group" =>
               emitted = (PassedFrames(file, top - 1) \o ChildrenFrames(Top.children, child - 1))
                             \o Held(time, Child, block)

MatroskaInv == MatroskaTypeOK /\ Placed /\ Spent /\ Known /\ Emitting /\ WalkIsWhole

(* What is at hand.                                                          *)
LEMMA AtHand ==
    ASSUME MatroskaInv
    PROVE  /\ file.tops \in Seq(TopElements) /\ file.head \in Nat /\ Elements \in Nat
           /\ Scale \in Nat /\ Len(file.tops) \in Nat /\ file.whole \in BOOLEAN
           /\ top <= Len(file.tops) => Top \in TopElements
           /\ walk \in Inside => /\ Top.children \in Seq(ChildElements)
                                 /\ Len(Top.children) \in Nat
                                 /\ child <= Len(Top.children) => Child \in ChildElements
           /\ walk = "group" => /\ Child.parts \in Seq(PartElements)
                                /\ Len(Child.parts) \in Nat
                                /\ part <= Len(Child.parts) => Part \in PartElements
<1>1. /\ file.tops \in Seq(TopElements) /\ file.head \in Nat /\ Elements \in Nat
      /\ Scale \in Nat /\ file.whole \in BOOLEAN
  BY MatroskaAssumption DEF MatroskaInv, Placed
<1>2. Len(file.tops) \in Nat /\ (top <= Len(file.tops) => Top \in TopElements)
  BY <1>1 DEF Top, MatroskaInv, Placed
<1>3. ASSUME walk \in Inside
      PROVE  /\ Top.children \in Seq(ChildElements)
             /\ Len(Top.children) \in Nat
             /\ child <= Len(Top.children) => Child \in ChildElements
  <2>1. Top.children \in Seq(ChildElements)
    BY <1>2, <1>3, KindOfTop DEF MatroskaInv, Placed
  <2>2. child \in 1..(Len(Top.children) + 1)
    BY <1>3 DEF MatroskaInv, Placed
  <2> QED
    BY <2>1, <2>2 DEF Child
<1>4. ASSUME walk = "group"
      PROVE  /\ Child.parts \in Seq(PartElements)
             /\ Len(Child.parts) \in Nat
             /\ part <= Len(Child.parts) => Part \in PartElements
  <2>1. Child.parts \in Seq(PartElements)
    BY <1>3, <1>4, KindOfChild DEF MatroskaInv, Placed, Inside
  <2>2. part \in 1..(Len(Child.parts) + 1)
    BY <1>4 DEF MatroskaInv, Placed
  <2> QED
    BY <2>1, <2>2 DEF Part
<1> QED
  BY <1>1, <1>2, <1>3, <1>4

LEMMA WalkStarts == MatroskaInit => MatroskaInv
<1> SUFFICES ASSUME MatroskaInit PROVE MatroskaInv
  OBVIOUS
<1>1. MatroskaTypeOK
  <2>1. /\ grown = FALSE /\ walk = "open" /\ top = 1 /\ child = 1 /\ part = 1 /\ had = {}
        /\ budget = Elements /\ time = Undeclared /\ duration = Undeclared /\ block = "none"
    BY DEF MatroskaInit
  <2>2. Elements \in 0..Elements /\ Undeclared \in Int
    BY MatroskaAssumption DEF Undeclared
  <2> QED
    BY <2>1, <2>2 DEF MatroskaTypeOK
<1>2. Placed
  <2>1. file.tops \in Seq(TopElements)
    BY MatroskaAssumption DEF MatroskaInit
  <2> QED
    BY <2>1 DEF MatroskaInit, Placed, Inside
<1>3. Spent /\ Known /\ Emitting /\ WalkIsWhole
  BY DEF MatroskaInit, Spent, Known, Emitting, WalkIsWhole, Inside
<1> QED
  BY <1>1, <1>2, <1>3 DEF MatroskaInv

LEMMA WalkRests ==
    ASSUME MatroskaInv, UNCHANGED matroskaVars
    PROVE  MatroskaInv'
<1>1. /\ file' = file /\ grown' = grown /\ walk' = walk /\ top' = top /\ child' = child
      /\ part' = part /\ had' = had /\ budget' = budget /\ time' = time /\ block' = block
      /\ duration' = duration /\ emitted' = emitted
  BY DEF matroskaVars, place
<1>2. Top' = Top /\ Child' = Child
  BY <1>1 DEF Top, Child
<1>3. MatroskaTypeOK'
  BY <1>1 DEF MatroskaInv, MatroskaTypeOK
<1>4. Placed' /\ Spent' /\ Known' /\ Emitting'
  BY <1>1, <1>2 DEF MatroskaInv, Placed, Spent, Known, Emitting
<1>5. WalkIsWhole'
  BY <1>1 DEF MatroskaInv, WalkIsWhole
<1> QED
  BY <1>3, <1>4, <1>5 DEF MatroskaInv

LEMMA WalkIsWatched ==
    ASSUME MatroskaInv, Grows
    PROVE  MatroskaInv'
<1>1. /\ file' = file /\ grown' = TRUE /\ walk' = walk /\ top' = top /\ child' = child
      /\ part' = part /\ had' = had /\ budget' = budget /\ time' = time /\ block' = block
      /\ duration' = duration /\ emitted' = emitted
      /\ walk \notin {"done", "refused"}
  BY DEF Grows, place
<1>2. Top' = Top /\ Child' = Child
  BY <1>1 DEF Top, Child
<1>3. MatroskaTypeOK'
  BY <1>1 DEF MatroskaInv, MatroskaTypeOK
<1>4. Placed' /\ Spent' /\ Known' /\ Emitting'
  BY <1>1, <1>2, SMTT(30) DEF MatroskaInv, Placed, Spent, Known, Emitting
<1>5. WalkIsWhole'
  BY <1>1 DEF WalkIsWhole
<1> QED
  BY <1>3, <1>4, <1>5 DEF MatroskaInv

(* A walk that ends before its time.                                         *)
LEMMA WalkEnds ==
    ASSUME MatroskaInv, NEW how \in {"refused", "broken"}, Ends(how), Walks,
           how = "refused" => ~WellFormed(file) \/ Cost(file) > Elements \/ grown
    PROVE  MatroskaInv'
<1>1. /\ file' = file /\ grown' = grown /\ walk' = how /\ top' = top /\ child' = child
      /\ part' = part /\ had' = had /\ budget' = budget /\ time' = time /\ block' = block
      /\ duration' = duration /\ emitted' = emitted
  BY DEF Ends, Walks, place
<1>2. MatroskaTypeOK'
  BY <1>1 DEF MatroskaInv, MatroskaTypeOK
<1>3. Placed' /\ Spent' /\ Known' /\ Emitting'
  BY <1>1 DEF MatroskaInv, Placed, Spent, Known, Emitting, Inside
<1>4. WalkIsWhole'
  BY <1>1 DEF WalkIsWhole
<1> QED
  BY <1>2, <1>3, <1>4 DEF MatroskaInv

-----------------------------------------------------------------------------
(* What is emitted, element by element.                                      *)
LEMMA FramesOfChildren ==
    ASSUME NEW s \in Seq(ChildElements), ClusterFormed(s)
    PROVE  /\ ChildrenFrames(s, 0) = <<>>
           /\ FlattenSeq(ClusterFrames(s)) = ChildrenFrames(s, Len(s))
           /\ \A n \in 0..Len(s) : ChildrenFrames(s, n) \in Seq(FrameSet)
           /\ \A n \in 0..(Len(s) - 1) :
                 /\ ChildFrames(Starts(s), s[n + 1]) \in Seq(FrameSet)
                 /\ ChildrenFrames(s, n + 1) =
                        ChildrenFrames(s, n) \o ChildFrames(Starts(s), s[n + 1])
<1> DEFINE g == ClusterFrames(s)
<1>1. g \in Seq(Seq(FrameSet)) /\ Len(g) = Len(s)
  BY ClusterFramesTyped
<1>2. \A n \in 0..(Len(s) - 1) : /\ n + 1 \in DOMAIN s
                                 /\ g[n + 1] = ChildFrames(Starts(s), s[n + 1])
  BY DEF ClusterFrames
<1> HIDE DEF g
<1>3. \A n \in 0..(Len(s) - 1) : g[n + 1] \in Seq(FrameSet)
  BY <1>1
<1>4. /\ \A n \in 0..Len(s) : Flat(g, n) \in Seq(FrameSet)
      /\ \A n \in 0..(Len(s) - 1) : Flat(g, n + 1) = Flat(g, n) \o g[n + 1]
      /\ FlattenSeq(g) = Flat(g, Len(s))
  BY <1>1, FlatSteps, FlatWhole
<1>5. \A n : ChildrenFrames(s, n) = Flat(g, n)
  BY DEF ChildrenFrames, g
<1>6. Flat(g, 0) = <<>>
  BY DEF Flat
<1> QED
  BY <1>2, <1>3, <1>4, <1>5, <1>6 DEF g

LEMMA FramesOfTops ==
    ASSUME NEW f, f.tops \in Seq(TopElements), WellFormed(f)
    PROVE  /\ PassedFrames(f, FirstCluster(f.tops) - 1) = <<>>
           /\ Frames(f) = PassedFrames(f, Len(f.tops))
           /\ \A n \in 0..Len(f.tops) : PassedFrames(f, n) \in Seq(FrameSet)
           /\ \A n \in 0..(Len(f.tops) - 1) :
                 PassedFrames(f, n + 1) = PassedFrames(f, n)
                     \o IF f.tops[n + 1].kind = "cluster"
                        THEN ChildrenFrames(f.tops[n + 1].children, Len(f.tops[n + 1].children))
                        ELSE <<>>
<1> DEFINE s == f.tops
           g == TopFrames(s)
           c == FirstCluster(s)
<1>1. g \in Seq(Seq(FrameSet)) /\ Len(g) = Len(s)
  BY TopFramesTyped
<1>2. DOMAIN s = 1..Len(s) /\ Len(s) \in Nat /\ \A i \in 1..Len(s) : s[i] \in TopElements
  OBVIOUS
<1>3. c \in 1..(Len(s) + 1) /\ \A i \in 1..(c - 1) : s[i].kind # "cluster"
  BY FirstOfClusters
<1>4. ASSUME NEW i \in 1..Len(s), s[i].kind = "cluster"
      PROVE  FlattenSeq(ClusterFrames(s[i].children))
                 = ChildrenFrames(s[i].children, Len(s[i].children))
  <2>1. s[i].children \in Seq(ChildElements)
    BY <1>2, <1>4, KindOfTop
  <2>2. ClusterFormed(s[i].children)
    BY <1>2, <1>4, WellFormedIs DEF Among
  <2> QED
    BY <2>1, <2>2, FramesOfChildren
<1>5. \A i \in 1..Len(s) :
        g[i] = IF s[i].kind = "cluster"
               THEN ChildrenFrames(s[i].children, Len(s[i].children)) ELSE <<>>
  <2>1. \A i \in 1..Len(s) : g[i] = IF s[i].kind = "cluster"
                                    THEN FlattenSeq(ClusterFrames(s[i].children)) ELSE <<>>
    <3> HIDE DEF s
    <3> QED
      BY <1>2 DEF TopFrames
  <2> HIDE DEF g, s
  <2> QED
    BY <1>4, <2>1
<1>6. /\ \A n : PassedFrames(f, n) = Flat(g, n)
      /\ Frames(f) = FlattenSeq(g)
  BY DEF PassedFrames, Frames
<1> HIDE DEF g, c, s
<1>7. Flat(g, c - 1) = <<>>
  <2>1. c - 1 \in 0..Len(g) /\ \A i \in 1..(c - 1) : i \in 1..Len(s)
    BY <1>1, <1>2, <1>3
  <2>2. \A i \in 1..(c - 1) : g[i] = <<>>
    BY <1>3, <1>5, <2>1
  <2> QED
    BY <1>1, <2>1, <2>2, FlatNothing
<1>8. /\ \A n \in 0..Len(s) : Flat(g, n) \in Seq(FrameSet)
      /\ \A n \in 0..(Len(s) - 1) : Flat(g, n + 1) = Flat(g, n) \o g[n + 1]
      /\ FlattenSeq(g) = Flat(g, Len(s))
  BY <1>1, FlatSteps, FlatWhole
<1>9. \A n \in 0..(Len(s) - 1) : n + 1 \in 1..Len(s)
  BY <1>2
<1>10. \A n \in 0..(Len(s) - 1) :
         PassedFrames(f, n + 1) = PassedFrames(f, n)
             \o IF s[n + 1].kind = "cluster"
                THEN ChildrenFrames(s[n + 1].children, Len(s[n + 1].children)) ELSE <<>>
  BY <1>5, <1>6, <1>8, <1>9
<1> QED
  BY <1>6, <1>7, <1>8, <1>10 DEF s, c

LEMMA Paying ==
    ASSUME NEW a \in Int, NEW b \in Int, NEW h \in Int, NEW x \in Int, NEW n \in Int, a - b = h + x
    PROVE  a - (b - 1 - n) = h + (x + 1 + n)
OBVIOUS

LEMMA PayingOne ==
    ASSUME NEW e \in Nat, NEW b \in 0..e, b # 0, NEW q \in Int, e - b = q
    PROVE  b - 1 \in 0..e /\ e - (b - 1) = q + 1
OBVIOUS

-----------------------------------------------------------------------------
(* open_streaming_with_limits                                                *)
LEMMA WalkOpens ==
    ASSUME MatroskaInv, OpenMatroska
    PROVE  MatroskaInv'
<1>1. walk = "open" /\ Walks /\ file \in MkvFiles /\ budget = Elements /\ top = 1 /\ emitted = <<>>
      /\ had = {} /\ budget \in 0..Elements
  BY DEF OpenMatroska, MatroskaInv, Placed, Spent, Known, Emitting, MatroskaTypeOK
<1>2. file.head \in Nat /\ file.head <= Cost(file) /\ Cost(file) \in Nat /\ FieldsOf(file, 0) = 0
      /\ Elements \in Nat
  BY <1>1, AtHand, CostOfTops
<1>3. CASE file.head > budget \/ ~file.whole
  <2>1. Ends("refused")
    BY <1>3 DEF OpenMatroska
  <2>2. ~WellFormed(file) \/ Cost(file) > Elements
    BY <1>1, <1>2, <1>3 DEF WellFormed
  <2> QED
    BY <1>1, <2>1, <2>2, WalkEnds
<1>4. CASE ~(file.head > budget \/ ~file.whole)
  <2>1. /\ walk' = "discover" /\ budget' = budget - file.head /\ top' = 1 /\ file' = file
        /\ grown' = grown /\ child' = child /\ part' = part /\ had' = {} /\ time' = time
        /\ block' = block /\ duration' = duration /\ emitted' = <<>>
    BY <1>1, <1>4 DEF OpenMatroska, Walks, place
  <2>2. budget' \in 0..Elements /\ Elements - budget' = file.head
    BY <1>1, <1>2, <1>4, <2>1
  <2>3. MatroskaTypeOK'
    BY <2>1, <2>2 DEF MatroskaInv, MatroskaTypeOK
  <2>4. Placed'
    BY <1>1, <2>1 DEF MatroskaInv, Placed, Inside
  <2>5. Spent'
    <3>1. top' - 1 = 0 /\ file.head + 0 = file.head
      BY <1>2, <2>1
    <3> QED
      BY <1>2, <2>1, <2>2, <3>1 DEF Spent, Inside
  <2>6. Known'
    <3>1. top' - 1 = 0
      BY <2>1
    <3> QED
      BY <1>4, <2>1, <3>1, TopsBegin DEF Known, Inside
  <2>7. Emitting' /\ WalkIsWhole'
    BY <2>1 DEF Emitting, WalkIsWhole
  <2> QED
    BY <2>3, <2>4, <2>5, <2>6, <2>7 DEF MatroskaInv
<1> QED
  BY <1>3, <1>4

LEMMA WalkDiscovers ==
    ASSUME MatroskaInv, Discover
    PROVE  MatroskaInv'
<1> DEFINE s == file.tops
           l == Len(s)
<1>1. /\ walk = "discover" /\ Walks /\ file \in MkvFiles /\ top \in 1..(l + 1) /\ emitted = <<>>
      /\ file.whole /\ TopsSeen(s, top - 1, had) /\ budget \in 0..Elements
      /\ Elements - budget = file.head + FieldsOf(file, top - 1)
  BY DEF Discover, MatroskaInv, Placed, Spent, Known, Emitting, MatroskaTypeOK
<1>2. s \in Seq(TopElements) /\ l \in Nat /\ Elements \in Nat /\ file.head \in Nat
      /\ (top <= l => Top \in TopElements)
  BY AtHand
<1>3. ASSUME top <= l
      PROVE  /\ top - 1 \in 0..(l - 1) /\ s[top - 1 + 1] = Top /\ top - 1 + 1 = top
             /\ Top.fields \in Nat
             /\ FieldsOf(file, top - 1) \in Nat
             /\ FieldsOf(file, top) = FieldsOf(file, top - 1) + 1 + Top.fields
             /\ file.head + FieldsOf(file, top) <= Cost(file) /\ Cost(file) \in Nat
  <2>1. top - 1 \in 0..(l - 1) /\ top - 1 + 1 = top /\ s[top] = Top
    BY <1>1, <1>2, <1>3 DEF Top
  <2>2. Top.fields \in Nat
    BY <1>2, <1>3, KindOfTop
  <2>3. /\ FieldsOf(file, top - 1) \in Nat
        /\ FieldsOf(file, top - 1 + 1) = FieldsOf(file, top - 1) + 1 + s[top - 1 + 1].fields
        /\ file.head + FieldsOf(file, top - 1 + 1) <= Cost(file) /\ Cost(file) \in Nat
    BY <1>1, <2>1, CostOfTops
  <2> QED
    BY <2>1, <2>2, <2>3
<1>4. Undiscoverable(Top) <=> budget < 1 + Top.fields \/ TopRefused(Top, had)
  BY DEF Undiscoverable, TopRefused, TopKinds
<1>5. CASE top <= l /\ Undiscoverable(Top)
  <2>1. Ends("refused")
    BY <1>5 DEF Discover
  <2>2. CASE budget < 1 + Top.fields
    <3>1. Cost(file) > Elements
      BY <1>1, <1>2, <1>3, <1>5, <2>2, SMTT(30)
    <3> QED
      BY <1>1, <2>1, <3>1, WalkEnds
  <2>3. CASE TopRefused(Top, had)
    <3>1. ~Discovered(file)
      BY <1>1, <1>2, <1>3, <1>5, <2>3, TopsMayGoOn
    <3> QED
      BY <1>1, <2>1, <3>1, WalkEnds, WellFormedIs
  <2> QED
    BY <1>4, <1>5, <2>2, <2>3
<1>6. CASE top <= l /\ ~Undiscoverable(Top)
  <2>1. /\ top' = top + 1 /\ budget' = budget - 1 - Top.fields
        /\ had' = had \union (Once \intersect {Top.kind})
        /\ walk' = "discover" /\ file' = file /\ grown' = grown /\ child' = child /\ part' = part
        /\ time' = time /\ block' = block /\ duration' = duration /\ emitted' = <<>>
    BY <1>1, <1>6 DEF Discover, Walks
  <2>2. ~(budget < 1 + Top.fields) /\ ~TopRefused(Top, had)
    BY <1>4, <1>6
  <2>3. /\ budget' \in 0..Elements /\ top' - 1 = top /\ top' \in 1..(l + 1)
        /\ Elements - budget' = file.head + FieldsOf(file, top)
    <3>1. top' - 1 = top /\ top' \in 1..(l + 1)
      BY <1>1, <1>2, <1>6, <2>1
    <3>2. /\ Top.fields \in Nat /\ FieldsOf(file, top - 1) \in Nat
          /\ FieldsOf(file, top) = FieldsOf(file, top - 1) + 1 + Top.fields
      BY <1>3, <1>6
    <3>3. budget \in Nat /\ budget <= Elements /\ 1 + Top.fields <= budget
      BY <1>1, <1>2, <2>2, <3>2
    <3>4. budget' \in 0..Elements
      BY <1>2, <2>1, <3>2, <3>3
    <3>5. Elements - budget' = file.head + FieldsOf(file, top)
      <4>1. Elements - budget = file.head + FieldsOf(file, top - 1)
        BY <1>1
      <4>2. budget' = budget - 1 - Top.fields
        BY <2>1
      <4> QED
        <5>1. /\ Elements \in Int /\ budget \in Int /\ file.head \in Int /\ Top.fields \in Int
              /\ FieldsOf(file, top - 1) \in Int
          BY <1>2, <3>2, <3>3
        <5>2. Elements - (budget - 1 - Top.fields)
                  = file.head + (FieldsOf(file, top - 1) + 1 + Top.fields)
          <6> DEFINE h == file.head
                     x == FieldsOf(file, top - 1)
                     n == Top.fields
          <6>1. h \in Int /\ x \in Int /\ n \in Int /\ Elements - budget = h + x
            BY <4>1, <5>1
          <6> HIDE DEF h, x, n
          <6>2. Elements - (budget - 1 - n) = h + (x + 1 + n)
            BY ONLY <5>1, <6>1, Paying
          <6> QED
            BY <6>2 DEF h, x, n
        <5> QED
          BY ONLY <3>2, <4>2, <5>2
    <3> QED
      BY <3>1, <3>4, <3>5
  <2>4. MatroskaTypeOK'
    BY <2>1, <2>3 DEF MatroskaInv, MatroskaTypeOK
  <2>5. Placed'
    BY <1>1, <2>1, <2>3 DEF Placed, Inside
  <2>6. Spent'
    BY <2>1, <2>3 DEF Spent, Inside
  <2>7. TopsSeen(s, top - 1 + 1, had \union (Once \intersect {s[top - 1 + 1].kind}))
    BY <1>1, <1>2, <1>3, <1>6, <2>2, TopsGoOn
  <2>8. Known'
    BY <1>1, <1>3, <1>6, <2>1, <2>3, <2>7 DEF Known, Inside
  <2>9. Emitting' /\ WalkIsWhole'
    BY <2>1 DEF Emitting, WalkIsWhole
  <2> QED
    BY <2>4, <2>5, <2>6, <2>8, <2>9 DEF MatroskaInv
<1>7. top > l => top - 1 = l
  BY <1>1, <1>2
<1>8. CASE ~(top <= l) /\ ("tracks" \notin had \/ Scale = 0)
  <2>1. Ends("refused")
    BY <1>8 DEF Discover
  <2>2. ~WellFormed(file)
    <3>1. TopsSeen(s, l, had)
      BY <1>1, <1>2, <1>7, <1>8
    <3>2. Discovered(file) => "tracks" \in had /\ Scale # 0
      BY <1>2, <3>1, TopsMayGoOn DEF Discovered
    <3> QED
      BY <1>8, <3>2, WellFormedIs
  <2> QED
    BY <1>1, <2>1, <2>2, WalkEnds
<1>9. CASE ~(top <= l) /\ ~("tracks" \notin had \/ Scale = 0)
  <2> DEFINE c == FirstCluster(s)
  <2>1. /\ walk' = "walk" /\ top' = c /\ budget' = budget /\ had' = had
        /\ file' = file /\ grown' = grown /\ child' = child /\ part' = part
        /\ time' = time /\ block' = block /\ duration' = duration /\ emitted' = <<>>
    BY <1>1, <1>9 DEF Discover, Walks
  <2>2. c \in 1..(l + 1) /\ \A i \in 1..(c - 1) : s[i].kind # "cluster"
    BY <1>2, FirstOfClusters
  <2>3. Passed(file, c - 1) = file.head + FieldsOf(file, l)
    BY <1>1, CostOfTops
  <2>4. top - 1 = l
    BY <1>1, <1>2, <1>9
  <2> HIDE DEF c
  <2>5. MatroskaTypeOK'
    <3>1. c \in Nat
      BY <1>2, <2>2
    <3> QED
      BY <2>1, <3>1 DEF MatroskaInv, MatroskaTypeOK
  <2>6. Placed'
    <3>1. FirstCluster(file.tops) <= c
      BY <1>2, <2>2 DEF c
    <3> QED
      BY <1>1, <2>1, <2>2, <3>1 DEF Placed, Inside
  <2>7. Spent'
    BY <1>1, <2>1, <2>3, <2>4 DEF Spent, Inside
  <2>8. Discovered(file)
    BY <1>1, <1>2, <1>9, <2>4, TopsAreSeen
  <2>9. Known'
    BY <2>1, <2>2, <2>8 DEF Known, Inside
  <2>10. Emitting'
    <3>1. WellFormed(file) => PassedFrames(file, c - 1) = <<>>
      BY <1>2, FramesOfTops DEF c
    <3> QED
      BY <2>1, <3>1 DEF Emitting
  <2>11. WalkIsWhole'
    BY <2>1 DEF WalkIsWhole
  <2> QED
    BY <2>5, <2>6, <2>7, <2>9, <2>10, <2>11 DEF MatroskaInv
<1> QED
  BY <1>5, <1>6, <1>8, <1>9

-----------------------------------------------------------------------------
(* next_frame_into                                                           *)

(* The element at hand on the walk, and what it costs.                       *)
LEMMA AtTop ==
    ASSUME MatroskaInv, walk \in {"walk"} \union Inside, top <= Len(file.tops)
    PROVE  /\ top - 1 \in 0..(Len(file.tops) - 1) /\ top - 1 + 1 = top /\ file.tops[top] = Top
           /\ top \in DOMAIN file.tops
           /\ Passed(file, top - 1) \in Nat /\ Cost(file) \in Nat /\ Passed(file, top) <= Cost(file)
           /\ Passed(file, top) = Passed(file, top - 1) + 1
                 + IF Top.kind = "cluster"
                   THEN ChildrenOf(Top.children, Len(Top.children)) ELSE 0
<1>1. /\ file \in MkvFiles /\ top \in 1..(Len(file.tops) + 1)
      /\ FirstCluster(file.tops) <= top
  BY DEF MatroskaInv, Placed
<1>2. file.tops \in Seq(TopElements) /\ Len(file.tops) \in Nat
  BY AtHand
<1>3. FirstCluster(file.tops) \in 1..(Len(file.tops) + 1)
  BY <1>2, FirstOfClusters
<1>4. /\ top - 1 \in 0..(Len(file.tops) - 1) /\ top - 1 + 1 = top
      /\ top \in FirstCluster(file.tops)..Len(file.tops) /\ top \in DOMAIN file.tops
  BY <1>1, <1>2, <1>3
<1>5. file.tops[top] = Top
  BY DEF Top
<1> QED
  BY <1>1, <1>4, <1>5, CostOfTops

LEMMA ClusterAtHand ==
    ASSUME MatroskaInv, walk \in Inside, WellFormed(file)
    PROVE  /\ ClusterFormed(Top.children) /\ Scale # 0
           /\ \A n \in 0..Len(file.tops) : PassedFrames(file, n) \in Seq(FrameSet)
           /\ PassedFrames(file, top) =
                 PassedFrames(file, top - 1) \o ChildrenFrames(Top.children, Len(Top.children))
           /\ time # Undeclared => time = Starts(Top.children) /\ time \in Nat
<1>1. top <= Len(file.tops) /\ Top.kind = "cluster" /\ file.tops \in Seq(TopElements)
  BY AtHand DEF MatroskaInv, Placed
<1>2. /\ top - 1 \in 0..(Len(file.tops) - 1) /\ top - 1 + 1 = top /\ file.tops[top] = Top
      /\ top \in DOMAIN file.tops
  BY <1>1, AtTop
<1>3. ClusterFormed(Top.children) /\ Scale # 0
  BY <1>1, <1>2 DEF WellFormed, Among
<1>4. /\ PassedFrames(file, top) =
             PassedFrames(file, top - 1) \o ChildrenFrames(Top.children, Len(Top.children))
      /\ \A n \in 0..Len(file.tops) : PassedFrames(file, n) \in Seq(FrameSet)
  BY <1>1, <1>2, FramesOfTops
<1>5. ASSUME time # Undeclared
      PROVE  time = Starts(Top.children) /\ time \in Nat
  <2>1. Top.children \in Seq(ChildElements) /\ Len(Top.children) \in Nat
    BY AtHand
  <2>2. child - 1 \in 0..Len(Top.children) /\ DOMAIN Top.children = 1..Len(Top.children)
    BY <2>1 DEF MatroskaInv, Placed
  <2>3. ChildrenSeen(Top.children, child - 1, time) /\ AtMostOne(Top.children, "timestamp")
    BY <1>3 DEF MatroskaInv, Known, ClusterFormed
  <2> QED
    BY <1>5, <2>1, <2>2, <2>3, TimeIsStart
<1> QED
  BY <1>3, <1>4, <1>5

LEMMA WalkIsDone ==
    ASSUME MatroskaInv, walk = "walk", top > Len(file.tops), ~grown
    PROVE  /\ WellFormed(file) /\ Cost(file) = Elements - budget /\ emitted = Frames(file)
           /\ top = Len(file.tops) + 1
<1>1. /\ file \in MkvFiles /\ file.tops \in Seq(TopElements) /\ Len(file.tops) \in Nat
      /\ top = Len(file.tops) + 1 /\ top - 1 = Len(file.tops)
  BY AtHand DEF MatroskaInv, Placed
<1>2. WellFormed(file)
  <2>1. /\ Discovered(file)
        /\ \A i \in 1..(top - 1) :
              file.tops[i].kind = "cluster" => ClusterFormed(file.tops[i].children)
    BY DEF MatroskaInv, Known
  <2>2. DOMAIN file.tops = 1..(top - 1)
    BY <1>1
  <2> QED
    BY <2>1, <2>2, WellFormedIs DEF Among
<1>3. Elements - budget = Passed(file, top - 1) /\ Cost(file) = Passed(file, Len(file.tops))
  BY <1>1, CostOfTops DEF MatroskaInv, Spent
<1>4. emitted = PassedFrames(file, top - 1) /\ Frames(file) = PassedFrames(file, Len(file.tops))
  BY <1>1, <1>2, FramesOfTops DEF MatroskaInv, Emitting
<1> QED
  BY <1>1, <1>2, <1>3, <1>4

LEMMA WalkPassesTop ==
    ASSUME MatroskaInv, NextTop
    PROVE  MatroskaInv'
<1> DEFINE l == Len(file.tops)
           p == Passed(file, top - 1)
<1>1. /\ walk = "walk" /\ Walks /\ file \in MkvFiles /\ top \in 1..(l + 1) /\ budget \in 0..Elements
      /\ Elements - budget = p /\ Discovered(file) /\ FirstCluster(file.tops) <= top
      /\ \A i \in 1..(top - 1) :
            file.tops[i].kind = "cluster" => ClusterFormed(file.tops[i].children)
      /\ WellFormed(file) => emitted = PassedFrames(file, top - 1)
  BY DEF NextTop, MatroskaInv, Placed, Spent, Known, Emitting, MatroskaTypeOK
<1>2. l \in Nat /\ Elements \in Nat /\ file.tops \in Seq(TopElements)
  BY AtHand
<1>3. CASE top > l
  <2>1. CASE grown
    BY <1>1, <1>3, <2>1, WalkEnds DEF NextTop
  <2>2. CASE ~grown
    <3>1. /\ file' = file /\ grown' = grown /\ walk' = "done" /\ top' = top /\ child' = child
          /\ part' = part /\ had' = had /\ budget' = budget /\ time' = time /\ block' = block
          /\ duration' = duration /\ emitted' = emitted
      BY <1>1, <1>3, <2>2 DEF NextTop, Ends, Walks, place
    <3>2. /\ WellFormed(file) /\ Cost(file) = Elements - budget /\ emitted = Frames(file)
          /\ top = l + 1
      BY <1>1, <1>3, <2>2, WalkIsDone
    <3>3. MatroskaTypeOK'
      BY <3>1 DEF MatroskaInv, MatroskaTypeOK
    <3>4. Placed' /\ Spent' /\ Known' /\ Emitting'
      BY <1>1, <3>1, <3>2 DEF Placed, Spent, Known, Emitting, Inside
    <3>5. WalkIsWhole'
      BY <2>2, <3>1, <3>2 DEF WalkIsWhole
    <3> QED
      BY <3>3, <3>4, <3>5 DEF MatroskaInv
  <2> QED
    BY <2>1, <2>2
<1>4. ASSUME ~(top > l)
      PROVE  top <= l
  BY <1>1, <1>2, <1>4
<1>5. ASSUME top <= l
      PROVE  /\ top - 1 \in 0..(l - 1) /\ top - 1 + 1 = top /\ file.tops[top] = Top
             /\ p \in Nat /\ Cost(file) \in Nat /\ Passed(file, top) <= Cost(file)
             /\ Passed(file, top) = p + 1
                   + IF Top.kind = "cluster"
                     THEN ChildrenOf(Top.children, Len(Top.children)) ELSE 0
             /\ Top \in TopElements
  BY <1>1, <1>5, AtTop, AtHand
<1> HIDE DEF p
<1>6. CASE top <= l /\ budget = 0
  <2>1. Ends("refused")
    <3>1. ~(top > l)
      BY <1>1, <1>2, <1>6
    <3> QED
      BY <1>6, <3>1 DEF NextTop
  <2>2. IF Top.kind = "cluster" THEN ChildrenOf(Top.children, Len(Top.children)) \in Nat ELSE TRUE
    BY <1>5, <1>6, KindOfTop, CostOfChildren
  <2>3. Passed(file, top) >= p + 1 /\ Passed(file, top) \in Nat
    BY <1>5, <1>6, <2>2
  <2>4. Cost(file) > Elements
    BY <1>1, <1>2, <1>5, <1>6, <2>3
  <2> QED
    BY <1>1, <2>1, <2>4, WalkEnds
<1>7. CASE top <= l /\ budget # 0 /\ Top.kind = "cluster"
  <2>1. /\ file' = file /\ grown' = grown /\ walk' = "cluster" /\ top' = top /\ child' = 1
        /\ part' = part /\ had' = had /\ budget' = budget - 1 /\ time' = Undeclared
        /\ block' = block /\ duration' = duration /\ emitted' = emitted
    BY <1>1, <1>4, <1>7 DEF NextTop, Walks
  <2>2. budget' \in 0..Elements /\ Elements - budget' = p + 1
    <3>1. /\ Elements \in Nat /\ budget \in 0..Elements /\ budget # 0 /\ p \in Int
          /\ Elements - budget = p
      BY <1>1, <1>2, <1>5, <1>7
    <3> QED
      BY <2>1, <3>1, PayingOne
  <2>3. Top' = Top
    BY <2>1 DEF Top
  <2>4. Top.children \in Seq(ChildElements)
    BY <1>5, <1>7, KindOfTop
  <2>5. child' - 1 = 0 /\ child' \in 1..(Len(Top.children) + 1)
    BY <2>1, <2>4
  <2>6. MatroskaTypeOK'
    BY <2>1, <2>2 DEF MatroskaInv, MatroskaTypeOK
  <2>7. Placed'
    BY <1>1, <1>7, <2>1, <2>3, <2>5 DEF Placed, Inside
  <2>8. Spent'
    <3>1. ChildrenOf(Top.children, 0) = 0
      BY <2>4, CostOfChildren
    <3>2. p + 1 = p + 1 + 0
      BY <1>5, <1>7
    <3> QED
      BY <2>1, <2>2, <2>3, <2>5, <3>1, <3>2 DEF Spent, Inside, p
  <2>9. Known'
    BY <1>1, <2>1, <2>3, <2>5, ChildrenBegin DEF Known, Inside
  <2>10. Emitting'
    <3> SUFFICES ASSUME WellFormed(file)
                 PROVE  emitted = PassedFrames(file, top - 1) \o ChildrenFrames(Top.children, 0)
      BY <2>1, <2>3, <2>5 DEF Emitting
    <3>1. ChildrenFrames(Top.children, 0) = <<>>
      BY DEF ChildrenFrames, Flat
    <3>2. top - 1 \in 0..l
      BY <1>2, <1>5, <1>7
    <3>3. PassedFrames(file, top - 1) \in Seq(FrameSet)
      BY <1>2, <3>2, FramesOfTops
    <3> QED
      BY <1>1, <3>1, <3>3, JoinedIn
  <2>11. WalkIsWhole'
    BY <2>1 DEF WalkIsWhole
  <2> QED
    BY <2>6, <2>7, <2>8, <2>9, <2>10, <2>11 DEF MatroskaInv
<1>8. CASE top <= l /\ budget # 0 /\ Top.kind # "cluster"
  <2>1. /\ file' = file /\ grown' = grown /\ walk' = "walk" /\ top' = top + 1 /\ child' = child
        /\ part' = part /\ had' = had /\ budget' = budget - 1 /\ time' = time
        /\ block' = block /\ duration' = duration /\ emitted' = emitted
    BY <1>1, <1>4, <1>8 DEF NextTop, Walks
  <2>2. budget' \in 0..Elements /\ Elements - budget' = p + 1
    BY <1>1, <1>2, <1>5, <1>8, <2>1
  <2>3. /\ top' - 1 = top /\ top' \in 1..(l + 1) /\ FirstCluster(file.tops) <= top'
        /\ \A i \in 1..top : i \in 1..(top - 1) \/ i = top
    <3>1. FirstCluster(file.tops) \in Int
      BY <1>2, FirstOfClusters
    <3> QED
      BY <1>1, <1>2, <1>8, <2>1, <3>1
  <2>4. Passed(file, top) = p + 1
    BY <1>5, <1>8
  <2>5. MatroskaTypeOK'
    BY <2>1, <2>2, <2>3 DEF MatroskaInv, MatroskaTypeOK
  <2>6. Placed'
    BY <1>1, <2>1, <2>3 DEF Placed, Inside
  <2>7. Spent'
    BY <2>1, <2>2, <2>3, <2>4 DEF Spent, Inside
  <2>8. Known'
    BY <1>1, <1>5, <1>8, <2>1, <2>3 DEF Known, Inside
  <2>9. Emitting'
    <3> SUFFICES ASSUME WellFormed(file)
                 PROVE  emitted = PassedFrames(file, top)
      BY <2>1, <2>3 DEF Emitting
    <3>1. top - 1 \in 0..l
      BY <1>2, <1>5, <1>8
    <3>2. PassedFrames(file, top - 1) \in Seq(FrameSet)
      BY <1>2, <3>1, FramesOfTops
    <3>3. PassedFrames(file, top) = PassedFrames(file, top - 1) \o <<>>
      BY <1>2, <1>5, <1>8, FramesOfTops
    <3> QED
      BY <1>1, <3>2, <3>3, JoinedIn
  <2>10. WalkIsWhole'
    BY <2>1 DEF WalkIsWhole
  <2> QED
    BY <2>5, <2>6, <2>7, <2>8, <2>9, <2>10 DEF MatroskaInv
<1> QED
  BY <1>3, <1>4, <1>6, <1>7, <1>8

LEMMA AtChild ==
    ASSUME MatroskaInv, walk \in Inside, child <= Len(Top.children)
    PROVE  /\ child - 1 \in 0..(Len(Top.children) - 1) /\ child - 1 + 1 = child
           /\ Top.children[child] = Child /\ child \in DOMAIN Top.children
           /\ Child \in ChildElements
           /\ ChildrenOf(Top.children, child - 1) \in Nat
           /\ ChildrenOf(Top.children, Len(Top.children)) \in Nat
           /\ ChildrenOf(Top.children, child) <= ChildrenOf(Top.children, Len(Top.children))
           /\ ChildrenOf(Top.children, child) =
                 ChildrenOf(Top.children, child - 1) + 1
                    + IF Child.kind = "group" THEN Len(Child.parts) ELSE 0
<1>1. /\ Top.children \in Seq(ChildElements) /\ Len(Top.children) \in Nat
      /\ child \in 1..(Len(Top.children) + 1) /\ Child \in ChildElements
  BY AtHand DEF MatroskaInv, Placed
<1>2. /\ child - 1 \in 0..(Len(Top.children) - 1) /\ child - 1 + 1 = child
      /\ child \in DOMAIN Top.children /\ Top.children[child] = Child
  BY <1>1 DEF Child
<1> QED
  BY <1>1, <1>2, CostOfChildren

(* In a well-formed file nothing in a cluster is refused.                    *)
LEMMA ChildIsWelcome ==
    ASSUME MatroskaInv, walk = "cluster", child <= Len(Top.children), RefusedChild(Child)
    PROVE  ~WellFormed(file)
<1> SUFFICES ASSUME WellFormed(file) PROVE FALSE
  OBVIOUS
<1>1. ClusterFormed(Top.children) /\ Scale # 0
  BY ClusterAtHand DEF Inside
<1>2. /\ child - 1 \in 0..(Len(Top.children) - 1) /\ child - 1 + 1 = child
      /\ Top.children[child] = Child /\ Top.children \in Seq(ChildElements)
      /\ ChildrenSeen(Top.children, child - 1, time)
  BY AtChild, AtHand DEF MatroskaInv, Known, Inside
<1>3. ~ChildRefused(Top.children[child - 1 + 1], time)
  BY <1>1, <1>2, ClusterGoesOn
<1>4. ~ChildRefused(Child, time)
  BY <1>2, <1>3
<1> QED
  BY <1>4 DEF ChildRefused, RefusedChild, Undeliverable, Presents, Misplaced, ChildKinds

LEMMA PartIsWelcome ==
    ASSUME MatroskaInv, walk = "group"
    PROVE  /\ part <= Len(Child.parts) /\ RefusedPart(Part) => ~WellFormed(file)
           /\ part > Len(Child.parts) /\ block = "none" => ~WellFormed(file)
<1> SUFFICES ASSUME WellFormed(file)
             PROVE  /\ part <= Len(Child.parts) => ~RefusedPart(Part)
                    /\ part > Len(Child.parts) => block # "none"
  OBVIOUS
<1> DEFINE s == Child.parts
<1>1. ClusterFormed(Top.children) /\ Scale # 0
  BY ClusterAtHand DEF Inside
<1>2. /\ time # Undeclared /\ PartsSeen(s, part - 1, time, block, duration)
      /\ Child.kind = "group" /\ child <= Len(Top.children) /\ part \in 1..(Len(s) + 1)
      /\ s \in Seq(PartElements) /\ Len(s) \in Nat
  BY AtHand DEF MatroskaInv, Known, Placed
<1>3. time = Starts(Top.children) /\ time \in Nat
  BY <1>2, ClusterAtHand DEF Inside
<1>4. child \in DOMAIN Top.children /\ Top.children[child] = Child
  BY <1>2, AtChild DEF Inside
<1>5. GroupFormed(time, Child)
  BY <1>1, <1>2, <1>3, <1>4 DEF ClusterFormed, Among
<1>6. ASSUME part <= Len(s)
      PROVE  ~RefusedPart(Part)
  <2>1. part - 1 \in 0..(Len(s) - 1) /\ part - 1 + 1 = part /\ s[part] = Part
    BY <1>2, <1>6 DEF Part
  <2>2. ~PartRefused(s[part - 1 + 1], time, block, duration)
    BY <1>1, <1>2, <1>3, <1>5, <2>1, GroupGoesOn
  <2>3. ~PartRefused(Part, time, block, duration)
    BY <2>1, <2>2
  <2> QED
    BY <2>3 DEF PartRefused, RefusedPart, Undeliverable, Presents, Misplaced, PartKinds
<1>7. ASSUME part > Len(s)
      PROVE  block # "none"
  <2>1. part - 1 = Len(s) /\ DOMAIN s = 1..Len(s)
    BY <1>2, <1>7
  <2>2. PICK i \in DOMAIN s : s[i].kind = "block"
    BY <1>5 DEF GroupFormed, Among
  <2> QED
    BY <1>2, <2>1, <2>2 DEF PartsSeen
<1> QED
  BY <1>6, <1>7

LEMMA WalkLeavesCluster ==
    ASSUME MatroskaInv, NextChild, child > Len(Top.children)
    PROVE  MatroskaInv'
<1> DEFINE l == Len(file.tops)
           p == Passed(file, top - 1)
           s == Top.children
           c == ChildrenOf(s, child - 1)
<1>1. /\ walk = "cluster" /\ Walks /\ file \in MkvFiles /\ top \in 1..(l + 1) /\ top <= l
      /\ Elements - budget = p + 1 + c /\ Discovered(file) /\ FirstCluster(file.tops) <= top
      /\ \A i \in 1..(top - 1) :
            file.tops[i].kind = "cluster" => ClusterFormed(file.tops[i].children)
      /\ ChildrenSeen(s, child - 1, time) /\ Top.kind = "cluster" /\ child \in 1..(Len(s) + 1)
      /\ WellFormed(file) => emitted = PassedFrames(file, top - 1) \o ChildrenFrames(s, child - 1)
  BY DEF NextChild, MatroskaInv, Placed, Spent, Known, Emitting, Inside
<1>2. l \in Nat /\ file.tops \in Seq(TopElements) /\ s \in Seq(ChildElements) /\ Len(s) \in Nat
  BY <1>1, AtHand DEF Inside
<1>3. child - 1 = Len(s)
  BY <1>1, <1>2
<1>4. ClusterFormed(s)
  BY <1>1, <1>2, <1>3, ClusterIsFormed
<1>5. file.tops[top] = Top /\ Passed(file, top) = p + 1 + ChildrenOf(s, Len(s))
  BY <1>1, AtTop DEF Inside
<1>6. /\ file' = file /\ grown' = grown /\ walk' = "walk" /\ top' = top + 1 /\ child' = child
      /\ part' = part /\ had' = had /\ budget' = budget /\ time' = time
      /\ block' = block /\ duration' = duration /\ emitted' = emitted
  BY <1>1 DEF NextChild, Walks
<1>7. /\ top' - 1 = top /\ top' \in 1..(l + 1) /\ FirstCluster(file.tops) <= top'
      /\ \A i \in 1..top : i \in 1..(top - 1) \/ i = top
  <2>1. FirstCluster(file.tops) \in Int
    BY <1>2, FirstOfClusters
  <2> QED
    BY <1>1, <1>2, <1>6, <2>1, SMTT(30)
<1>8. MatroskaTypeOK'
  BY <1>6, <1>7 DEF MatroskaInv, MatroskaTypeOK
<1>9. Placed'
  BY <1>1, <1>6, <1>7 DEF Placed, Inside
<1>10. Spent'
  BY <1>1, <1>3, <1>5, <1>6, <1>7 DEF Spent, Inside
<1>11. Known'
  BY <1>1, <1>4, <1>5, <1>6, <1>7 DEF Known, Inside
<1>12. Emitting'
  <2> SUFFICES ASSUME WellFormed(file) PROVE emitted = PassedFrames(file, top)
    BY <1>6, <1>7 DEF Emitting
  <2>1. PassedFrames(file, top) = PassedFrames(file, top - 1) \o ChildrenFrames(s, Len(s))
    BY <1>1, ClusterAtHand DEF Inside
  <2> QED
    BY <1>1, <1>3, <2>1
<1>13. WalkIsWhole'
  BY <1>6 DEF WalkIsWhole
<1> QED
  BY <1>8, <1>9, <1>10, <1>11, <1>12, <1>13 DEF MatroskaInv

(* A refusal inside a cluster has its reason.                                *)
LEMMA Exceeding ==
    ASSUME NEW e \in Nat, NEW p \in Nat, NEW c \in Nat, NEW k \in Nat, NEW m \in Nat,
           NEW d \in Int, NEW n \in Int, NEW q \in Int, NEW w \in Int,
           e = p + 1 + c + k, d = c + 1 + m, k <= m, d <= n, q = p + 1 + n, q <= w
    PROVE  w > e
OBVIOUS

LEMMA ClusterNeeds ==
    ASSUME MatroskaInv, walk \in Inside, budget = 0,
           \/ walk = "cluster" /\ child <= Len(Top.children)
           \/ walk = "group" /\ part <= Len(Child.parts)
    PROVE  Cost(file) > Elements
<1> DEFINE p == Passed(file, top - 1)
           s == Top.children
           c == ChildrenOf(s, child - 1)
<1>1. top <= Len(file.tops) /\ Top.kind = "cluster" /\ child <= Len(s) /\ Elements \in Nat
  BY AtHand DEF MatroskaInv, Placed, Inside
<1>2. /\ p \in Nat /\ Cost(file) \in Nat /\ Passed(file, top) <= Cost(file)
      /\ Passed(file, top) = p + 1 + ChildrenOf(s, Len(s))
  BY <1>1, AtTop
<1>3. /\ c \in Nat /\ ChildrenOf(s, Len(s)) \in Nat
      /\ ChildrenOf(s, child) <= ChildrenOf(s, Len(s))
      /\ ChildrenOf(s, child) = c + 1 + IF Child.kind = "group" THEN Len(Child.parts) ELSE 0
  BY <1>1, AtChild
<1>4. CASE walk = "cluster"
  <2>1. Elements = p + 1 + c
    BY <1>1, <1>4 DEF MatroskaInv, Spent
  <2> DEFINE m == IF Child.kind = "group" THEN Len(Child.parts) ELSE 0
  <2>2. m \in Nat /\ 0 <= m
    <3>1. Child \in ChildElements
      BY <1>1, AtChild
    <3> QED
      BY <3>1, KindOfChild
  <2> DEFINE d == ChildrenOf(s, child)
             n == ChildrenOf(s, Len(s))
             q == Passed(file, top)
             w == Cost(file)
  <2>3. d = c + 1 + m /\ d <= n /\ q = p + 1 + n /\ q <= w /\ n \in Nat /\ w \in Nat
    BY <1>2, <1>3
  <2> HIDE DEF p, c, s, d, n, q, w, m
  <2>4. Elements = p + 1 + c + 0 /\ d \in Int /\ q \in Int
    BY <1>1, <1>2, <1>3, <2>1, <2>2, <2>3
  <2>5. w > Elements
    BY <1>1, <1>2, <1>3, <2>2, <2>3, <2>4, Exceeding
  <2> QED
    BY <2>5 DEF w
<1>5. CASE walk = "group"
  <2>1. Elements = p + 1 + c + part /\ Child.kind = "group" /\ part \in Nat
    BY <1>1, <1>5 DEF MatroskaInv, Spent, Placed, MatroskaTypeOK
  <2>2. part <= Len(Child.parts) /\ Len(Child.parts) \in Nat
    BY <1>5, AtHand
  <2> DEFINE m == Len(Child.parts)
             d == ChildrenOf(s, child)
             n == ChildrenOf(s, Len(s))
             q == Passed(file, top)
             w == Cost(file)
  <2>3. d = c + 1 + m /\ d <= n /\ q = p + 1 + n /\ q <= w /\ n \in Nat /\ w \in Nat
        /\ m \in Nat /\ part <= m
    BY <1>2, <1>3, <2>1, <2>2
  <2> HIDE DEF p, c, s, d, n, q, w, m
  <2>4. d \in Int /\ q \in Int
    BY <1>2, <1>3, <2>3
  <2>5. w > Elements
    BY <1>1, <1>2, <1>3, <2>1, <2>3, <2>4, Exceeding
  <2> QED
    BY <2>5 DEF w
<1> QED
  BY <1>4, <1>5

LEMMA WalkPassesChild ==
    ASSUME MatroskaInv, NextChild, child <= Len(Top.children)
    PROVE  MatroskaInv'
<1> DEFINE l == Len(file.tops)
           p == Passed(file, top - 1)
           s == Top.children
           c == ChildrenOf(s, child - 1)
           x == PassedFrames(file, top - 1)
           y == ChildrenFrames(s, child - 1)
<1>1. /\ walk = "cluster" /\ Walks /\ file \in MkvFiles /\ top \in 1..(l + 1) /\ top <= l
      /\ Elements - budget = p + 1 + c /\ Discovered(file) /\ FirstCluster(file.tops) <= top
      /\ \A i \in 1..(top - 1) :
            file.tops[i].kind = "cluster" => ClusterFormed(file.tops[i].children)
      /\ ChildrenSeen(s, child - 1, time) /\ Top.kind = "cluster" /\ child \in 1..(Len(s) + 1)
      /\ WellFormed(file) => emitted = x \o y
      /\ budget \in 0..Elements /\ Elements \in Nat
  BY AtHand DEF NextChild, MatroskaInv, MatroskaTypeOK, Placed, Spent, Known, Emitting, Inside
<1>2. s \in Seq(ChildElements) /\ Len(s) \in Nat
  BY <1>1, AtHand DEF Inside
<1>3. /\ child - 1 \in 0..(Len(s) - 1) /\ child - 1 + 1 = child /\ s[child] = Child
      /\ Child \in ChildElements /\ child \in DOMAIN s /\ c \in Nat
      /\ ChildrenOf(s, child) = c + 1 + IF Child.kind = "group" THEN Len(Child.parts) ELSE 0
  BY <1>1, AtChild DEF Inside
<1>4. ~(child > Len(s))
  BY <1>1, <1>2
<1>5. ASSUME WellFormed(file)
      PROVE  /\ x \in Seq(FrameSet) /\ y \in Seq(FrameSet)
             /\ ClusterFormed(s) /\ ChildFrames(Starts(s), Child) \in Seq(FrameSet)
             /\ ChildrenFrames(s, child) = y \o ChildFrames(Starts(s), Child)
             /\ time # Undeclared => time = Starts(s) /\ time \in Nat
  <2>1. /\ ClusterFormed(s) /\ \A n \in 0..l : PassedFrames(file, n) \in Seq(FrameSet)
        /\ time # Undeclared => time = Starts(s) /\ time \in Nat
    BY <1>1, <1>5, ClusterAtHand DEF Inside
  <2>2. top - 1 \in 0..l /\ child - 1 \in 0..Len(s)
    BY <1>1, <1>2, <1>3
  <2> QED
    BY <1>2, <1>3, <2>1, <2>2, FramesOfChildren
<1>6. Scale # 0
  BY <1>1 DEF Discovered
<1> HIDE DEF p, c, x, y
<1>7. CASE budget = 0 \/ RefusedChild(Child)
  <2>1. Ends("refused")
    BY <1>4, <1>7 DEF NextChild
  <2>2. ~WellFormed(file) \/ Cost(file) > Elements
    BY <1>1, <1>7, ClusterNeeds, ChildIsWelcome DEF Inside
  <2> QED
    BY <1>1, <2>1, <2>2, WalkEnds
<1>8. ASSUME ~(budget = 0 \/ RefusedChild(Child))
      PROVE  /\ budget' = budget - 1 /\ file' = file /\ grown' = grown /\ top' = top /\ had' = had
             /\ Top' = Top /\ budget' \in 0..Elements /\ Elements - budget' = p + 1 + c + 1
             /\ ~ChildRefused(Child, time) /\ time' = TimeAfter(Child, time)
             /\ emitted' = IF Child.kind = "block" THEN emitted \o Frame(Child, Undeclared)
                           ELSE emitted
  <2>1. /\ budget' = budget - 1 /\ file' = file /\ grown' = grown /\ top' = top /\ had' = had
        /\ time' = TimeAfter(Child, time)
        /\ emitted' = IF Child.kind = "block" THEN emitted \o Frame(Child, Undeclared)
                      ELSE emitted
    BY <1>1, <1>4, <1>8 DEF NextChild, Walks, TimeAfter
  <2>2. Top' = Top
    BY <2>1 DEF Top
  <2>3. ~ChildRefused(Child, time)
    BY <1>8 DEF ChildRefused, RefusedChild, Undeliverable, Presents, Misplaced, ChildKinds
  <2>4. p \in Nat
    BY <1>1, AtTop DEF Inside, p
  <2> DEFINE q == p + 1 + c
  <2>5. q \in Int /\ Elements - budget = q /\ budget # 0
    BY <1>1, <1>3, <1>8, <2>4
  <2> HIDE DEF q
  <2>6. budget - 1 \in 0..Elements /\ Elements - (budget - 1) = q + 1
    BY <1>1, <2>5, PayingOne
  <2>7. budget' \in 0..Elements /\ Elements - budget' = p + 1 + c + 1
    BY <2>1, <2>6 DEF q
  <2> QED
    BY <2>1, <2>2, <2>3, <2>7
<1>9. CASE ~(budget = 0 \/ RefusedChild(Child)) /\ Child.kind = "group"
  <2>1. /\ walk' = "group" /\ part' = 1 /\ block' = "none" /\ duration' = Undeclared
        /\ child' = child /\ time' = time /\ emitted' = emitted
    BY <1>4, <1>8, <1>9 DEF NextChild, TimeAfter
  <2>2. Child' = Child /\ part' - 1 = 0 /\ s' = s
    BY <1>8, <1>9, <2>1 DEF Child
  <2>3. MatroskaTypeOK'
    <3>1. Undeclared \in Int
      BY DEF Undeclared
    <3> QED
      BY <1>8, <1>9, <2>1, <3>1 DEF MatroskaInv, MatroskaTypeOK
  <2>4. Placed'
    <3>1. Child.parts \in Seq(PartElements)
      BY <1>3, <1>9, KindOfChild
    <3>2. 1 \in 1..(Len(Child.parts) + 1)
      BY <3>1
    <3> QED
      BY <1>1, <1>8, <1>9, <2>1, <2>2, <3>2 DEF Placed, Inside
  <2>5. Spent'
    BY <1>8, <1>9, <2>1, <2>2 DEF Spent, Inside, p, c
  <2>6. Known'
    <3>1. time # Undeclared /\ Child.valid
      BY <1>8, <1>9 DEF ChildRefused
    <3> QED
      BY <1>1, <1>8, <1>9, <2>1, <2>2, <3>1, PartsBegin DEF Known, Inside
  <2>7. Emitting'
    <3> SUFFICES ASSUME WellFormed(file) PROVE emitted = (x \o y) \o Held(time, Child, "none")
      BY <1>8, <1>9, <2>1, <2>2 DEF Emitting, x, y
    <3>1. Held(time, Child, "none") = <<>>
      BY DEF Held
    <3>2. x \o y \in Seq(FrameSet)
      BY <1>5, JoinedIn
    <3> QED
      BY <1>1, <3>1, <3>2, JoinedIn
  <2>8. WalkIsWhole'
    BY <2>1 DEF WalkIsWhole
  <2> QED
    BY <2>3, <2>4, <2>5, <2>6, <2>7, <2>8 DEF MatroskaInv
<1>10. CASE ~(budget = 0 \/ RefusedChild(Child)) /\ Child.kind # "group"
  <2>1. /\ walk' = "cluster" /\ child' = child + 1 /\ part' = part /\ block' = block
        /\ duration' = duration
    BY <1>1, <1>4, <1>10 DEF NextChild
  <2>2. child' - 1 = child /\ child' \in 1..(Len(s) + 1) /\ s' = s
    BY <1>2, <1>3, <1>8, <1>10, <2>1, SMTT(30)
  <2>3. MatroskaTypeOK'
    <3>1. TimeAfter(Child, time) \in Nat \union {Undeclared}
      BY <1>3, KindOfChild DEF TimeAfter, MatroskaInv, MatroskaTypeOK
    <3>2. child' \in Nat
      BY <2>2
    <3> QED
      BY <1>8, <1>10, <2>1, <3>1, <3>2 DEF MatroskaInv, MatroskaTypeOK
  <2>4. Placed'
    BY <1>1, <1>8, <1>10, <2>1, <2>2 DEF Placed, Inside
  <2>5. Spent'
    <3>1. ChildrenOf(s, child) = c + 1
      BY <1>3, <1>10
    <3>2. p \in Nat
      BY <1>1, AtTop DEF Inside, p
    <3>3. Elements - budget' = p + 1 + ChildrenOf(s, child)
      BY <1>3, <1>8, <1>10, <3>1, <3>2
    <3> QED
      BY <1>8, <1>10, <2>1, <2>2, <3>3 DEF Spent, Inside, p
  <2>6. Known'
    <3>1. ChildrenSeen(s, child - 1 + 1, TimeAfter(s[child - 1 + 1], time))
      <4>1. ~ChildRefused(s[child - 1 + 1], time) /\ s[child - 1 + 1].kind # "group"
        BY <1>3, <1>8, <1>10
      <4> QED
        BY <1>1, <1>2, <1>3, <1>6, <4>1, ChildrenGoOn
    <3>2. ChildrenSeen(s, child, time')
      BY <1>3, <1>8, <1>10, <3>1
    <3> QED
      BY <1>1, <1>8, <1>10, <2>1, <2>2, <3>2 DEF Known, Inside
  <2>7. Emitting'
    <3> SUFFICES ASSUME WellFormed(file) PROVE emitted' = x \o ChildrenFrames(s, child)
      BY <1>8, <1>10, <2>1, <2>2 DEF Emitting, x
    <3> DEFINE f == ChildFrames(Starts(s), Child)
    <3>1. emitted' = emitted \o f
      <4>1. CASE Child.kind = "block"
        <5>1. time = Starts(s)
          BY <1>5, <1>8, <1>10, <4>1 DEF ChildRefused
        <5>2. Among(<<>>, "duration") = {}
          BY DEF Among
        <5>3. f = Frame(Child, Undeclared)
          BY <4>1, <5>1, <5>2 DEF ChildFrames, FrameOf, Frame, Presents
        <5> QED
          BY <1>8, <1>10, <4>1, <5>3
      <4>2. CASE Child.kind # "block"
        <5>1. f = <<>>
          BY <1>10, <4>2 DEF ChildFrames
        <5>2. emitted' = emitted /\ emitted \in Seq(FrameSet)
          <6>1. emitted' = emitted
            BY <1>8, <1>10, <4>2
          <6>2. emitted = x \o y /\ x \in Seq(FrameSet) /\ y \in Seq(FrameSet)
            BY <1>1, <1>5
          <6>3. x \o y \in Seq(FrameSet)
            BY <6>2, ConcatProperties
          <6> QED
            BY <6>1, <6>2, <6>3
        <5> QED
          BY <5>1, <5>2, JoinedIn
      <4> QED
        BY <4>1, <4>2
    <3>2. x \in Seq(FrameSet) /\ y \in Seq(FrameSet) /\ f \in Seq(FrameSet)
      BY <1>5
    <3>3. ChildrenFrames(s, child) = y \o f
      BY <1>5
    <3> HIDE DEF f
    <3>4. (x \o y) \o f = x \o (y \o f)
      BY <3>2, JoinedIn
    <3>5. emitted = x \o y
      BY <1>1
    <3> QED
      BY <3>1, <3>3, <3>4, <3>5
  <2>8. WalkIsWhole'
    BY <2>1 DEF WalkIsWhole
  <2> QED
    BY <2>3, <2>4, <2>5, <2>6, <2>7, <2>8 DEF MatroskaInv
<1> QED
  BY <1>7, <1>9, <1>10

-----------------------------------------------------------------------------
(* The frame that is held receives the duration of its group.                *)
LEMMA LastOf ==
    ASSUME NEW x \in Seq(FrameSet), NEW r \in FrameSet
    PROVE  /\ x \o <<r>> = [i \in 1..(Len(x) + 1) |-> IF i <= Len(x) THEN x[i] ELSE r]
           /\ Len(x \o <<r>>) = Len(x) + 1
OBVIOUS

LEMMA Timed ==
    ASSUME NEW x \in Seq(FrameSet), NEW t \in Int, NEW d \in Int
    PROVE  LET z == x \o <<[time |-> t, duration |-> Undeclared]>> IN
           [z EXCEPT ![Len(z)].duration = IF d = Undeclared THEN @ ELSE d * Scale]
              = x \o <<[time |-> t,
                        duration |-> IF d = Undeclared THEN Undeclared ELSE d * Scale]>>
<1> DEFINE n == Len(x)
           k == d * Scale
           r == [time |-> t, duration |-> Undeclared]
           q == [time |-> t, duration |-> IF d = Undeclared THEN Undeclared ELSE k]
           z == x \o <<r>>
<1>1. n \in Nat /\ r \in FrameSet
  BY DEF FrameSet, Undeclared
<1>2. k \in Int
  BY MatroskaAssumption
<1> HIDE DEF k
<1>3. q \in FrameSet
  BY <1>2 DEF FrameSet, Undeclared
<1>4. [r EXCEPT !.duration = IF d = Undeclared THEN @ ELSE k] = q
  OBVIOUS
<1> HIDE DEF r, q
<1>5. /\ z = [i \in 1..(n + 1) |-> IF i <= n THEN x[i] ELSE r] /\ Len(z) = n + 1
      /\ x \o <<q>> = [i \in 1..(n + 1) |-> IF i <= n THEN x[i] ELSE q]
  BY <1>1, <1>3, LastOf
<1> HIDE DEF z
<1> HIDE DEF n
<1>6. n + 1 \in 1..(n + 1) /\ ~(n + 1 <= n)
  BY <1>1
<1>7. z[n + 1] = r
  BY <1>5, <1>6
<1>8. [z EXCEPT ![n + 1] = q] = [i \in 1..(n + 1) |-> IF i <= n THEN x[i] ELSE q]
  <2> DEFINE v == [i \in 1..(n + 1) |-> IF i <= n THEN x[i] ELSE q]
             u == [z EXCEPT ![n + 1] = q]
  <2>1. u = [i \in 1..(n + 1) |-> IF i = n + 1 THEN q ELSE z[i]]
    BY <1>5
  <2>2. \A i \in 1..(n + 1) : i = n + 1 \/ (i <= n /\ i # n + 1)
    BY <1>1
  <2>3. \A i \in 1..(n + 1) : (IF i = n + 1 THEN q ELSE z[i]) = IF i <= n THEN x[i] ELSE q
    BY <1>5, <1>6, <2>2
  <2> HIDE DEF u
  <2> QED
    BY <2>1, <2>3 DEF u
<1>9. [z EXCEPT ![Len(z)].duration = IF d = Undeclared THEN @ ELSE k] = [z EXCEPT ![n + 1] = q]
  BY <1>4, <1>5, <1>7
<1> QED
  BY <1>5, <1>8, <1>9 DEF z, r, q, k, n

(* The group at hand.                                                        *)
LEMMA AtPart ==
    ASSUME MatroskaInv, walk = "group"
    PROVE  /\ file \in MkvFiles /\ top \in 1..(Len(file.tops) + 1) /\ top <= Len(file.tops)
           /\ Top.kind = "cluster" /\ FirstCluster(file.tops) <= top /\ Discovered(file)
           /\ \A i \in 1..(top - 1) :
                 file.tops[i].kind = "cluster" => ClusterFormed(file.tops[i].children)
           /\ Top.children \in Seq(ChildElements) /\ Len(Top.children) \in Nat
           /\ child - 1 \in 0..(Len(Top.children) - 1) /\ child - 1 + 1 = child
           /\ child \in DOMAIN Top.children /\ Top.children[child] = Child
           /\ child \in Nat /\ child <= Len(Top.children)
           /\ Child \in ChildElements /\ Child.kind = "group" /\ Child.valid
           /\ Child.parts \in Seq(PartElements) /\ Len(Child.parts) \in Nat
           /\ part \in 1..(Len(Child.parts) + 1)
           /\ time \in Nat /\ Scale # 0 /\ Elements \in Nat /\ budget \in 0..Elements
           /\ ChildrenSeen(Top.children, child - 1, time)
           /\ PartsSeen(Child.parts, part - 1, time, block, duration)
           /\ Passed(file, top - 1) \in Nat /\ ChildrenOf(Top.children, child - 1) \in Nat
           /\ ChildrenOf(Top.children, child) =
                 ChildrenOf(Top.children, child - 1) + 1 + Len(Child.parts)
           /\ Elements - budget =
                 Passed(file, top - 1) + 1 + ChildrenOf(Top.children, child - 1) + part
<1>1. walk \in Inside
  BY DEF Inside
<1>2. /\ file \in MkvFiles /\ top \in 1..(Len(file.tops) + 1) /\ top <= Len(file.tops)
      /\ Top.kind = "cluster" /\ FirstCluster(file.tops) <= top /\ child <= Len(Top.children)
      /\ Child.kind = "group" /\ part \in 1..(Len(Child.parts) + 1)
  BY <1>1 DEF MatroskaInv, Placed
<1>3. /\ Discovered(file) /\ time # Undeclared /\ Child.valid
      /\ \A i \in 1..(top - 1) :
            file.tops[i].kind = "cluster" => ClusterFormed(file.tops[i].children)
      /\ ChildrenSeen(Top.children, child - 1, time)
      /\ PartsSeen(Child.parts, part - 1, time, block, duration)
  BY <1>1 DEF MatroskaInv, Known
<1>4. time \in Nat /\ budget \in 0..Elements /\ child \in Nat /\ Scale # 0
  BY <1>3 DEF MatroskaInv, MatroskaTypeOK, Discovered
<1>5. /\ Top.children \in Seq(ChildElements) /\ Len(Top.children) \in Nat
      /\ Child.parts \in Seq(PartElements) /\ Len(Child.parts) \in Nat /\ Elements \in Nat
  BY <1>1, AtHand
<1>6. /\ child - 1 \in 0..(Len(Top.children) - 1) /\ child - 1 + 1 = child
      /\ child \in DOMAIN Top.children /\ Top.children[child] = Child /\ Child \in ChildElements
      /\ ChildrenOf(Top.children, child - 1) \in Nat
      /\ ChildrenOf(Top.children, child) =
            ChildrenOf(Top.children, child - 1) + 1 + Len(Child.parts)
  BY <1>1, <1>2, AtChild
<1>7. Passed(file, top - 1) \in Nat
  BY <1>1, <1>2, AtTop
<1>8. Elements - budget =
         Passed(file, top - 1) + 1 + ChildrenOf(Top.children, child - 1) + part
  BY DEF MatroskaInv, Spent
<1> QED
  BY <1>2, <1>3, <1>4, <1>5, <1>6, <1>7, <1>8

LEMMA FramesAtPart ==
    ASSUME MatroskaInv, walk = "group", WellFormed(file)
    PROVE  /\ PassedFrames(file, top - 1) \in Seq(FrameSet)
           /\ ChildrenFrames(Top.children, child - 1) \in Seq(FrameSet)
           /\ ChildFrames(Starts(Top.children), Child) \in Seq(FrameSet)
           /\ ChildrenFrames(Top.children, child) =
                 ChildrenFrames(Top.children, child - 1) \o ChildFrames(Starts(Top.children), Child)
           /\ time = Starts(Top.children) /\ GroupFormed(time, Child)
           /\ emitted = (PassedFrames(file, top - 1) \o ChildrenFrames(Top.children, child - 1))
                            \o Held(time, Child, block)
<1>1. walk \in Inside
  BY DEF Inside
<1>2. /\ ClusterFormed(Top.children)
      /\ \A n \in 0..Len(file.tops) : PassedFrames(file, n) \in Seq(FrameSet)
      /\ time # Undeclared => time = Starts(Top.children)
  BY <1>1, ClusterAtHand
<1>3. time = Starts(Top.children)
  BY <1>2 DEF MatroskaInv, Known
<1>4. /\ Top.children \in Seq(ChildElements) /\ Len(Top.children) \in Nat
      /\ child - 1 \in 0..(Len(Top.children) - 1) /\ child - 1 + 1 = child
      /\ child \in DOMAIN Top.children /\ Top.children[child] = Child /\ Child.kind = "group"
      /\ top \in 1..(Len(file.tops) + 1)
  BY AtPart
<1>5. top - 1 \in 0..Len(file.tops) /\ child - 1 \in 0..Len(Top.children)
  <2>1. Len(file.tops) \in Nat
    BY AtHand
  <2> QED
    BY <1>4, <2>1
<1>6. GroupFormed(time, Child)
  BY <1>2, <1>3, <1>4 DEF ClusterFormed, Among
<1>7. emitted = (PassedFrames(file, top - 1) \o ChildrenFrames(Top.children, child - 1))
                   \o Held(time, Child, block)
  BY DEF MatroskaInv, Emitting
<1> QED
  BY <1>2, <1>3, <1>4, <1>5, <1>6, <1>7, FramesOfChildren

(* The block at hand is the block of the group.                              *)
LEMMA BlockAtPart ==
    ASSUME MatroskaInv, walk = "group", WellFormed(file)
    PROVE  /\ \A i \in 1..Len(Child.parts) : Child.parts[i].kind = "block" =>
                 Sole(Child.parts, "block") = Child.parts[i]
           /\ \A i \in 1..Len(Child.parts) : Child.parts[i].kind = "duration" =>
                 Sole(Child.parts, "duration") = Child.parts[i]
<1> DEFINE s == Child.parts
<1>1. AtMostOne(s, "block") /\ AtMostOne(s, "duration")
  BY FramesAtPart DEF GroupFormed
<1>2. DOMAIN s = 1..Len(s)
  <2>1. s \in Seq(PartElements)
    BY AtPart
  <2> QED
    BY <2>1
<1> HIDE DEF s
<1>3. \A i \in 1..Len(s) : s[i].kind = "block" => i \in Among(s, "block")
  BY <1>2 DEF Among
<1>4. \A i \in 1..Len(s) : s[i].kind = "duration" => i \in Among(s, "duration")
  BY <1>2 DEF Among
<1>5. \A i \in 1..Len(s) : s[i].kind = "block" => Sole(s, "block") = s[i]
  BY <1>1, <1>3, SoleOne
<1>6. \A i \in 1..Len(s) : s[i].kind = "duration" => Sole(s, "duration") = s[i]
  BY <1>1, <1>4, SoleOne
<1> QED
  BY <1>5, <1>6 DEF s

(* A group is left with its block delivered.                                 *)
LEMMA GroupIsDelivered ==
    ASSUME MatroskaInv, NextPart, part > Len(Child.parts), block # "none", WellFormed(file)
    PROVE  emitted' = PassedFrames(file, top - 1) \o ChildrenFrames(Top.children, child)
<1> DEFINE s == Child.parts
           x == PassedFrames(file, top - 1)
           y == ChildrenFrames(Top.children, child - 1)
           w == ChildFrames(Starts(Top.children), Child)
           b == Sole(s, "block")
<1>1. walk = "group"
  BY DEF NextPart
<1>2. /\ x \in Seq(FrameSet) /\ y \in Seq(FrameSet) /\ w \in Seq(FrameSet)
      /\ ChildrenFrames(Top.children, child) = y \o w
      /\ emitted = (x \o y) \o Held(time, Child, block) /\ time = Starts(Top.children)
  BY <1>1, FramesAtPart
<1>3. /\ s \in Seq(PartElements) /\ Len(s) \in Nat /\ part - 1 = Len(s) /\ time \in Nat
      /\ PartsSeen(s, Len(s), time, block, duration) /\ Child.kind = "group"
      /\ DOMAIN s = 1..Len(s)
  <2>1. /\ s \in Seq(PartElements) /\ Len(s) \in Nat /\ part \in 1..(Len(s) + 1)
        /\ PartsSeen(s, part - 1, time, block, duration) /\ Child.kind = "group" /\ time \in Nat
    BY <1>1, AtPart
  <2>2. part - 1 = Len(s)
    BY <2>1
  <2> QED
    BY <2>1, <2>2
<1>4. emitted' = IF block = "skipped" THEN emitted
                 ELSE [emitted EXCEPT ![Len(emitted)].duration =
                          IF duration = Undeclared THEN @ ELSE duration * Scale]
  BY DEF NextPart
<1>5. PICK i \in 1..Len(s) : s[i].kind = "block"
  BY <1>3 DEF PartsSeen
<1>6. b = s[i] /\ s[i] \in PartElements
  BY <1>1, <1>3, <1>5, BlockAtPart
<1>7. b.delta \in Int
  BY <1>5, <1>6, KindOfPart
<1>8. block \in {"skipped", "selected"} /\ (block = "selected" <=> b.track \in Selected)
  BY <1>3, <1>5, <1>6 DEF PartsSeen
<1>9. w = FrameOf(time, b, s)
  BY <1>2, <1>3 DEF ChildFrames
<1>10. CASE block = "skipped"
  <2>1. w = <<>> /\ Held(time, Child, block) = <<>> /\ emitted' = emitted
    BY <1>4, <1>8, <1>9, <1>10 DEF FrameOf, Held
  <2>2. x \o y \in Seq(FrameSet)
    BY <1>2, JoinedIn
  <2> QED
    BY <1>2, <2>1, <2>2, JoinedIn
<1>11. CASE block = "selected"
  <2> DEFINE t == (time + b.delta) * Scale
             k == IF duration = Undeclared THEN Undeclared ELSE duration * Scale
             h == x \o y
  <2>1. t \in Int /\ duration \in Int
    <3>1. Scale \in Int /\ time + b.delta \in Int
      BY <1>3, <1>7, MatroskaAssumption
    <3>2. duration \in Nat \union {Undeclared}
      BY <1>3 DEF PartsSeen
    <3> QED
      BY <3>1, <3>2 DEF Undeclared
  <2>2. h \in Seq(FrameSet)
    BY <1>2, JoinedIn
  <2>3. k = IF Among(s, "duration") = {} THEN Undeclared ELSE Sole(s, "duration").ticks * Scale
    <3>1. CASE Among(s, "duration") = {}
      <4>1. duration = Undeclared
        BY <1>3, <3>1 DEF PartsSeen, Among
      <4> QED
        BY <3>1, <4>1
    <3>2. CASE Among(s, "duration") # {}
      <4>1. PICK j \in 1..Len(s) : s[j].kind = "duration"
        BY <1>3, <3>2 DEF Among
      <4>2. duration # Undeclared /\ duration = s[j].ticks
        BY <1>3, <4>1 DEF PartsSeen
      <4>3. Sole(s, "duration") = s[j]
        BY <1>1, <4>1, BlockAtPart
      <4> QED
        BY <3>2, <4>2, <4>3
    <3> QED
      BY <3>1, <3>2
  <2>4. Held(time, Child, block) = <<[time |-> t, duration |-> Undeclared]>>
    BY <1>11 DEF Held
  <2>5. w = <<[time |-> t, duration |-> k]>>
    BY <1>8, <1>9, <1>11, <2>3 DEF FrameOf
  <2> HIDE DEF s, x, y, w, b, t, h
  <2>6. emitted = h \o <<[time |-> t, duration |-> Undeclared]>>
    BY <1>2, <2>4 DEF h
  <2>7. emitted' = [emitted EXCEPT ![Len(emitted)].duration =
                       IF duration = Undeclared THEN @ ELSE duration * Scale]
    BY <1>4, <1>11
  <2>8. emitted' = h \o <<[time |-> t, duration |-> k]>>
    BY <2>1, <2>2, <2>6, <2>7, Timed
  <2>9. emitted' = (x \o y) \o w
    BY <2>5, <2>8 DEF h
  <2>10. x \in Seq(FrameSet) /\ y \in Seq(FrameSet) /\ w \in Seq(FrameSet)
    BY <1>2
  <2>11. (x \o y) \o w = x \o (y \o w)
    BY <2>10, JoinedIn, SMTT(30)
  <2>12. emitted' = x \o (y \o w)
    BY <2>9, <2>11
  <2> QED
    BY <1>2, <2>12 DEF x, y, w
<1> QED
  BY <1>8, <1>10, <1>11

LEMMA Behind ==
    ASSUME NEW n \in Nat
    PROVE  /\ \A i \in 1..(n + 1) : i > n => i = n + 1 /\ i - 1 = n
           /\ \A i \in Nat : i <= n => i + 1 - 1 = i /\ i + 1 \in 1..(n + 1) /\ i + 1 \in Nat
OBVIOUS

LEMMA WalkLeavesGroup ==
    ASSUME MatroskaInv, NextPart, part > Len(Child.parts)
    PROVE  MatroskaInv'
<1> DEFINE l == Len(file.tops)
           p == Passed(file, top - 1)
           s == Top.children
           c == ChildrenOf(s, child - 1)
<1>1. walk = "group" /\ Walks
  BY DEF NextPart
<1>2. /\ file \in MkvFiles /\ top \in 1..(l + 1) /\ top <= l
      /\ Top.kind = "cluster" /\ FirstCluster(file.tops) <= top /\ Discovered(file)
      /\ \A i \in 1..(top - 1) :
            file.tops[i].kind = "cluster" => ClusterFormed(file.tops[i].children)
      /\ s \in Seq(ChildElements) /\ Len(s) \in Nat
      /\ child - 1 \in 0..(Len(s) - 1) /\ child - 1 + 1 = child /\ s[child] = Child
      /\ child \in Nat /\ child <= Len(s) /\ Child \in ChildElements /\ Child.kind = "group"
      /\ Child.valid /\ Child.parts \in Seq(PartElements) /\ Len(Child.parts) \in Nat
      /\ part \in 1..(Len(Child.parts) + 1) /\ time \in Nat /\ Scale # 0 /\ Elements \in Nat
      /\ budget \in 0..Elements /\ ChildrenSeen(s, child - 1, time)
      /\ PartsSeen(Child.parts, part - 1, time, block, duration)
      /\ p \in Nat /\ c \in Nat /\ ChildrenOf(s, child) = c + 1 + Len(Child.parts)
      /\ Elements - budget = p + 1 + c + part
  BY <1>1, AtPart
<1>3. part = Len(Child.parts) + 1 /\ part - 1 = Len(Child.parts)
  BY <1>2, Behind
<1>4. CASE block = "none"
  <2>1. Ends("refused")
    BY <1>4 DEF NextPart
  <2>2. ~WellFormed(file)
    BY <1>1, <1>4, PartIsWelcome
  <2> QED
    BY <1>1, <2>1, <2>2, WalkEnds
<1>5. CASE block # "none"
  <2>1. /\ file' = file /\ grown' = grown /\ walk' = "cluster" /\ top' = top
        /\ child' = child + 1 /\ part' = part /\ had' = had /\ budget' = budget
        /\ time' = time /\ block' = block /\ duration' = duration
    BY <1>1, <1>5 DEF NextPart, Walks
  <2>2. Top' = Top
    BY <2>1 DEF Top
  <2>3. child' - 1 = child /\ child' \in 1..(Len(s) + 1) /\ child' \in Nat
    <3>1. child \in Nat /\ child <= Len(s) /\ Len(s) \in Nat
      BY <1>2
    <3> DEFINE v == child + 1
    <3>4. v - 1 = child /\ v \in 1..(Len(s) + 1) /\ v \in Nat
      BY <3>1, Behind
    <3>5. child' = v
      BY <2>1
    <3> HIDE DEF v
    <3> QED
      BY <3>4, <3>5
  <2>4. MatroskaTypeOK'
    BY <2>1, <2>3 DEF MatroskaInv, MatroskaTypeOK
  <2>5. Placed'
    BY <1>2, <2>1, <2>2, <2>3 DEF Placed, Inside
  <2>6. Spent'
    <3> DEFINE m == Len(Child.parts)
               d == ChildrenOf(s, child)
    <3>1. /\ p \in Nat /\ c \in Nat /\ m \in Nat /\ d = c + 1 + m /\ part = m + 1
          /\ Elements - budget = p + 1 + c + part
      BY <1>2, <1>3
    <3> HIDE DEF p, c, m, d
    <3>2. Elements - budget = p + 1 + d
      BY <3>1
    <3> QED
      BY <2>1, <2>2, <2>3, <3>2 DEF Spent, Inside, p, d
  <2>7. Known'
    <3>1. GroupFormed(time, Child)
      BY <1>2, <1>3, <1>5, GroupIsFormed
    <3>2. ~ChildRefused(Child, time) /\ TimeAfter(Child, time) = time
      BY <1>2 DEF ChildRefused, TimeAfter, ChildKinds, Undeclared
    <3> DEFINE n == child - 1
    <3>3. /\ n \in 0..(Len(s) - 1) /\ ChildrenSeen(s, n, time) /\ ~ChildRefused(s[n + 1], time)
          /\ GroupFormed(time, s[n + 1])
      BY <1>2, <3>1, <3>2
    <3>4. ChildrenSeen(s, n + 1, TimeAfter(s[n + 1], time))
      BY <1>2, <3>3, ChildrenGoOn
    <3>5. ChildrenSeen(s, child, time)
      BY <1>2, <3>2, <3>4
    <3> QED
      BY <1>2, <2>1, <2>2, <2>3, <3>5 DEF Known, Inside
  <2>8. Emitting'
    <3> SUFFICES ASSUME WellFormed(file)
                 PROVE  emitted' = PassedFrames(file, top - 1) \o ChildrenFrames(s, child)
      BY <2>1, <2>2, <2>3 DEF Emitting
    <3> QED
      BY <1>5, GroupIsDelivered
  <2>9. WalkIsWhole'
    BY <2>1 DEF WalkIsWhole
  <2> QED
    BY <2>4, <2>5, <2>6, <2>7, <2>8, <2>9 DEF MatroskaInv
<1> QED
  BY <1>4, <1>5

(* A part that is welcome is taken up.                                       *)
LEMMA PartIsTakenUp ==
    ASSUME MatroskaInv, walk = "group", part <= Len(Child.parts), ~RefusedPart(Part)
    PROVE  /\ Part \in PartElements
           /\ Part.kind = "block" => block = "none"
           /\ WellFormed(file) /\ Part.kind = "block" => Sole(Child.parts, "block") = Part
           /\ PartsSeen(Child.parts, part, time, BlockAfter(Part, block),
                        DurationAfter(Part, duration))
<1> DEFINE s == Child.parts
           n == part - 1
<1>1. /\ s \in Seq(PartElements) /\ Len(s) \in Nat /\ part \in 1..(Len(s) + 1) /\ time \in Nat
      /\ Scale # 0 /\ PartsSeen(s, n, time, block, duration)
  BY AtPart
<1>2. n \in 0..(Len(s) - 1) /\ n + 1 = part /\ part \in 1..Len(s) /\ s[part] = Part
  BY <1>1 DEF Part
<1>3. Part \in PartElements
  BY <1>1, <1>2
<1>4. ~PartRefused(Part, time, block, duration)
  BY DEF PartRefused, RefusedPart, Undeliverable, Presents, Misplaced, PartKinds
<1>5. WellFormed(file) /\ Part.kind = "block" => Sole(s, "block") = Part
  BY <1>2, BlockAtPart
<1>6. ~PartRefused(s[n + 1], time, block, duration)
  BY <1>2, <1>4
<1> HIDE DEF n
<1>7. PartsSeen(s, n + 1, time, BlockAfter(s[n + 1], block), DurationAfter(s[n + 1], duration))
  BY <1>1, <1>2, <1>6, PartsGoOn
<1>8. PartsSeen(s, part, time, BlockAfter(Part, block), DurationAfter(Part, duration))
  BY <1>2, <1>7
<1>9. Part.kind = "block" => block = "none"
  BY DEF RefusedPart
<1> QED
  BY <1>3, <1>5, <1>8, <1>9

LEMMA OnePartOn ==
    ASSUME NEW m \in Nat, NEW p \in 1..(m + 1), ~(p > m)
    PROVE  p + 1 - 1 = p /\ p + 1 \in 1..(m + 1) /\ p + 1 \in Nat
  OBVIOUS

LEMMA WalkPassesPart ==
    ASSUME MatroskaInv, NextPart, part <= Len(Child.parts)
    PROVE  MatroskaInv'
<1> DEFINE l == Len(file.tops)
           p == Passed(file, top - 1)
           s == Top.children
           c == ChildrenOf(s, child - 1)
           x == PassedFrames(file, top - 1) \o ChildrenFrames(s, child - 1)
<1>1. walk = "group" /\ Walks
  BY DEF NextPart
<1>2. /\ file \in MkvFiles /\ top \in 1..(l + 1) /\ top <= l
      /\ Top.kind = "cluster" /\ FirstCluster(file.tops) <= top /\ Discovered(file)
      /\ \A i \in 1..(top - 1) :
            file.tops[i].kind = "cluster" => ClusterFormed(file.tops[i].children)
      /\ child <= Len(s) /\ Child.kind = "group" /\ Child.valid
      /\ ChildrenSeen(s, child - 1, time)
  BY <1>1, AtPart
<1>3. /\ Len(s) \in Nat /\ child \in Nat /\ child \in DOMAIN s /\ s \in Seq(ChildElements)
      /\ Len(Child.parts) \in Nat /\ part \in 1..(Len(Child.parts) + 1)
      /\ time \in Nat /\ Elements \in Nat /\ budget \in 0..Elements /\ p \in Nat /\ c \in Nat
      /\ Elements - budget = p + 1 + c + part
  BY <1>1, AtPart
<1>4. ~(part > Len(Child.parts)) /\ part \in Nat
  BY <1>3
<1>5. CASE budget = 0 \/ RefusedPart(Part)
  <2>1. Ends("refused")
    BY <1>4, <1>5 DEF NextPart
  <2>2. ~WellFormed(file) \/ Cost(file) > Elements
    BY <1>1, <1>5, ClusterNeeds, PartIsWelcome DEF Inside
  <2> QED
    BY <1>1, <2>1, <2>2, WalkEnds
<1>6. CASE ~(budget = 0 \/ RefusedPart(Part))
  <2>1. /\ file' = file /\ grown' = grown /\ walk' = walk /\ top' = top /\ child' = child
        /\ part' = part + 1 /\ had' = had /\ budget' = budget - 1 /\ time' = time
        /\ duration' = DurationAfter(Part, duration)
    BY <1>1, <1>4, <1>6 DEF NextPart, Walks, DurationAfter
  <2>2. /\ block' = BlockAfter(Part, block)
        /\ emitted' = IF Part.kind = "block" THEN emitted \o Frame(Part, Undeclared) ELSE emitted
    BY <1>1, <1>4, <1>6 DEF NextPart, BlockAfter
  <2>3. Top' = Top /\ Child' = Child
    BY <2>1 DEF Top, Child
  <2>4. part' - 1 = part /\ part' \in 1..(Len(Child.parts) + 1) /\ part' \in Nat
    <3> DEFINE v == part + 1
    <3>4. v - 1 = part /\ v \in 1..(Len(Child.parts) + 1) /\ v \in Nat
      BY <1>3, <1>4, OnePartOn, SMTT(30)
    <3>5. part' = v
      BY <2>1
    <3> HIDE DEF v
    <3> QED
      BY <3>4, <3>5
  <2>5. /\ Part \in PartElements /\ (Part.kind = "block" => block = "none")
        /\ WellFormed(file) /\ Part.kind = "block" => Sole(Child.parts, "block") = Part
        /\ PartsSeen(Child.parts, part, time, block', duration')
    BY <1>1, <1>6, <2>1, <2>2, PartIsTakenUp
  <2> DEFINE q == p + 1 + c + part
  <2>6. q \in Int /\ Elements - budget = q /\ budget # 0
    BY <1>3, <1>4, <1>6
  <2> HIDE DEF q
  <2>7. budget - 1 \in 0..Elements /\ Elements - (budget - 1) = q + 1
    BY <1>3, <2>6, PayingOne
  <2>8. MatroskaTypeOK'
    <3>1. budget' \in 0..Elements
      BY <2>1, <2>7
    <3>2. block' \in {"none", "skipped", "selected"} /\ duration' \in Int
      BY <2>5 DEF PartsSeen, Undeclared
    <3> QED
      BY <2>1, <2>4, <3>1, <3>2 DEF MatroskaInv, MatroskaTypeOK
  <2>9. Placed'
    <3>1. child' \in 1..(Len(s) + 1)
      BY <1>1, <2>1 DEF MatroskaInv, Placed, Inside
    <3> QED
      BY <1>1, <1>2, <2>1, <2>3, <2>4, <3>1 DEF Placed, Inside
  <2>10. Spent'
    <3>1. q + 1 = p + 1 + c + (part + 1)
      <4> HIDE DEF p, c
      <4> QED
        BY <1>3, <1>4 DEF q
    <3>2. Elements - budget' = p + 1 + c + part'
      BY <2>1, <2>7, <3>1
    <3> HIDE DEF p, c
    <3>3. walk' = "group" /\ p' = p /\ c' = c
      BY <1>1, <2>1, <2>3 DEF p, c
    <3> QED
      BY <2>1, <3>2, <3>3 DEF Spent, p, c
  <2>11. Known'
    <3>1. time' # Undeclared
      BY <1>3, <2>1 DEF Undeclared
    <3> QED
      BY <1>1, <1>2, <2>1, <2>3, <2>4, <2>5, <3>1 DEF Known, Inside
  <2>12. Emitting'
    <3> SUFFICES ASSUME WellFormed(file)
                 PROVE  emitted' = x \o Held(time, Child, block')
      BY <1>1, <2>1, <2>3 DEF Emitting
    <3>1. /\ PassedFrames(file, top - 1) \in Seq(FrameSet)
          /\ ChildrenFrames(s, child - 1) \in Seq(FrameSet)
          /\ emitted = x \o Held(time, Child, block)
      BY <1>1, FramesAtPart
    <3>2. x \in Seq(FrameSet)
      BY <3>1, JoinedIn
    <3> HIDE DEF x
    <3>3. CASE Part.kind = "block"
      <4>1. Held(time, Child, block) = <<>>
        BY <2>5, <3>3 DEF Held
      <4>2. emitted = x
        BY <3>1, <3>2, <4>1, JoinedIn
      <4>3. Sole(Child.parts, "block") = Part
        BY <2>5, <3>3
      <4>4. Frame(Part, Undeclared) = Held(time, Child, block')
        BY <2>2, <3>3, <4>3 DEF Frame, Presents, Held, BlockAfter
      <4> QED
        BY <2>2, <3>3, <4>2, <4>4
    <3>4. CASE Part.kind # "block"
      <4>1. block' = block /\ emitted' = emitted
        BY <2>2, <3>4 DEF BlockAfter
      <4> QED
        BY <3>1, <4>1
    <3> QED
      BY <3>3, <3>4
  <2>13. WalkIsWhole'
    BY <1>1, <2>1 DEF WalkIsWhole
  <2> QED
    BY <2>8, <2>9, <2>10, <2>11, <2>12, <2>13 DEF MatroskaInv
<1> QED
  BY <1>5, <1>6

-----------------------------------------------------------------------------
(* Every step keeps the invariant.                                           *)
LEMMA WalkKeeps ==
    ASSUME MatroskaInv, [MatroskaNext]_matroskaVars
    PROVE  MatroskaInv'
<1>1. CASE Grows
  BY <1>1, WalkIsWatched
<1>2. CASE Breaks
  BY <1>2, WalkEnds DEF Breaks
<1>3. CASE OpenMatroska
  BY <1>3, WalkOpens
<1>4. CASE Discover
  BY <1>4, WalkDiscovers
<1>5. CASE NextTop
  BY <1>5, WalkPassesTop
<1>6. CASE NextChild
  <2>1. child > Len(Top.children) \/ child <= Len(Top.children)
    <3>1. Len(Top.children) \in Nat /\ child \in Nat
      BY <1>6, AtHand DEF NextChild, Inside, MatroskaInv, MatroskaTypeOK
    <3> QED
      BY <3>1
  <2> QED
    BY <1>6, <2>1, WalkLeavesCluster, WalkPassesChild
<1>7. CASE NextPart
  <2>1. part > Len(Child.parts) \/ part <= Len(Child.parts)
    <3>1. Len(Child.parts) \in Nat /\ part \in Nat
      BY <1>7, AtHand DEF NextPart, MatroskaInv, MatroskaTypeOK
    <3> QED
      BY <3>1
  <2> QED
    BY <1>7, <2>1, WalkLeavesGroup, WalkPassesPart
<1>8. CASE UNCHANGED matroskaVars
  BY <1>8, WalkRests
<1> QED
  BY <1>1, <1>2, <1>3, <1>4, <1>5, <1>6, <1>7, <1>8 DEF MatroskaNext

(* The walk of a Matroska file keeps its state typed: in its phases, within  *)
(* its budget (streaming/bounded.rs).                                        *)
THEOREM MatroskaTyped == MatroskaSpec => []MatroskaTypeOK
<1>1. MatroskaInit => MatroskaInv
  BY WalkStarts
<1>2. MatroskaInv /\ [MatroskaNext]_matroskaVars => MatroskaInv'
  BY WalkKeeps
<1>3. MatroskaInv => MatroskaTypeOK
  BY DEF MatroskaInv
<1> QED
  BY <1>1, <1>2, <1>3, PTL DEF MatroskaSpec

(* Whatever the files, the track, the limit and the scale: a walk that ends  *)
(* well has emitted every frame of the track and no other, in order, at its  *)
(* time and with the duration of its own group, from a file in which         *)
(* everything read is well formed and at exactly the cost of the file; and   *)
(* it refuses only a file that is not well formed, that costs more than the  *)
(* limit, or that changed (streaming.rs, streaming/bounded.rs).              *)
THEOREM WalksWhole == MatroskaSpec => []WalkIsWhole
<1>1. MatroskaInit => MatroskaInv
  BY WalkStarts
<1>2. MatroskaInv /\ [MatroskaNext]_matroskaVars => MatroskaInv'
  BY WalkKeeps
<1>3. MatroskaInv => WalkIsWhole
  BY DEF MatroskaInv
<1> QED
  BY <1>1, <1>2, <1>3, PTL DEF MatroskaSpec

-----------------------------------------------------------------------------
(* Mp4                                                                       *)

(* Quotients                                                                 *)
LEMMA Quotient ==
    ASSUME NEW a \in Nat, NEW d \in Nat \ {0}
    PROVE  a \div d \in Nat /\ (a \div d) * d <= a /\ a < (a \div d) * d + d
BY Z3

LEMMA NextMultiple ==
    ASSUME NEW a \in Nat, NEW d \in Nat
    PROVE  (a + 1) * d = a * d + d
BY Z3

(* n ends after a and not after b.                                           *)
LEMMA QuotientBelow ==
    ASSUME NEW a \in Nat, NEW d \in Nat \ {0}, NEW n \in Nat
    PROVE  n <= a \div d <=> n * d <= a
<1> DEFINE q == a \div d
<1>1. q \in Nat /\ q * d <= a /\ a < q * d + d
  BY Quotient
<1> HIDE DEF q
<1>2. ASSUME n <= q
      PROVE  n * d <= a
  <2>1. n * d <= q * d /\ n * d \in Nat /\ q * d \in Nat
    BY <1>1, <1>2, Multiplied
  <2> QED
    BY <1>1, <2>1
<1>3. ASSUME ~(n <= q)
      PROVE  ~(n * d <= a)
  <2>1. q + 1 <= n /\ q + 1 \in Nat
    BY <1>1, <1>3
  <2>2. (q + 1) * d <= n * d /\ (q + 1) * d \in Nat /\ n * d \in Nat
    BY <2>1, Multiplied
  <2>3. (q + 1) * d = q * d + d
    BY <1>1, NextMultiple
  <2> QED
    BY <1>1, <2>2, <2>3
<1> QED
  BY <1>2, <1>3 DEF q

LEMMA QuotientGrows ==
    ASSUME NEW a \in Nat, NEW b \in Nat, NEW d \in Nat \ {0}, a <= b
    PROVE  a \div d \in Nat /\ b \div d \in Nat /\ a \div d <= b \div d
<1> DEFINE q == a \div d
           p == b \div d
<1>1. q \in Nat /\ q * d <= a /\ p \in Nat
  BY Quotient
<1>2. q * d \in Nat
  BY <1>1, Multiplied
<1>3. q * d <= b
  BY <1>1, <1>2
<1>4. q <= p <=> q * d <= b
  BY <1>1, QuotientBelow
<1> QED
  BY <1>1, <1>3, <1>4

(* A quotient grows over b if and only if a multiple lies behind a.          *)
LEMMA QuotientPasses ==
    ASSUME NEW a \in Nat, NEW b \in Nat, NEW d \in Nat \ {0}
    PROVE  a \div d < b \div d <=> \E n \in 1..(b \div d) : a < n * d
<1> DEFINE q == a \div d
           p == b \div d
<1>1. q \in Nat /\ p \in Nat
  BY Quotient
<1>2. \A n \in Nat : n <= q <=> n * d <= a
  BY QuotientBelow
<1>3. \A n \in Nat : n * d \in Nat
  BY Multiplied
<1> HIDE DEF q, p
<1>4. \A n \in Nat : q < n <=> a < n * d
  BY <1>1, <1>2, <1>3
<1>5. q < p => p \in 1..p /\ a < p * d
  BY <1>1, <1>4
<1>6. ASSUME NEW n \in 1..p, a < n * d
      PROVE  q < p
  <2>1. n \in Nat /\ n <= p
    BY <1>1
  <2>2. q < n
    BY <1>4, <1>6, <2>1
  <2> QED
    BY <1>1, <2>1, <2>2
<1> QED
  BY <1>5, <1>6 DEF q, p

LEMMA ProductCancels ==
    ASSUME NEW a \in Nat, NEW b \in Nat, NEW t \in Nat \ {0}
    PROVE  a * t <= b * t <=> a <= b
<1>1. a <= b => a * t <= b * t
  BY Multiplied
<1>2. ASSUME b < a
      PROVE  b * t < a * t
  <2>1. b + 1 <= a
    BY <1>2
  <2>2. (b + 1) * t <= a * t /\ (b + 1) * t = b * t + t /\ b * t \in Nat /\ a * t \in Nat
    BY <2>1, Multiplied, NextMultiple
  <2> QED
    BY <2>2
<1>3. a * t \in Nat /\ b * t \in Nat
  BY Multiplied
<1> QED
  BY <1>1, <1>2, <1>3

LEMMA QuotientCancels ==
    ASSUME NEW a \in Nat, NEW t \in Nat \ {0}, NEW m \in Nat \ {0}
    PROVE  (a * t) \div (t * m) = a \div m
<1> DEFINE q == a \div m
           p == (a * t) \div (t * m)
<1>1. a * t \in Nat /\ t * m \in Nat \ {0}
  BY Z3
<1>2. q \in Nat /\ p \in Nat
  BY <1>1, Quotient
<1>3. \A n \in Nat : n <= q <=> n * m <= a
  BY QuotientBelow
<1>4. \A n \in Nat : n <= p <=> n * (t * m) <= a * t
  BY <1>1, QuotientBelow
<1>5. \A n \in Nat : n * (t * m) = (n * m) * t /\ n * m \in Nat
  BY Z3
<1>6. \A n \in Nat : n * (t * m) <= a * t <=> n * m <= a
  BY <1>5, ProductCancels
<1> HIDE DEF q, p
<1>7. \A n \in Nat : n <= p <=> n <= q
  BY <1>3, <1>4, <1>6
<1>8. p <= q /\ q <= p
  BY <1>2, <1>7
<1> QED
  BY <1>2, <1>8 DEF q, p

-----------------------------------------------------------------------------
(* Totals                                                                    *)
LEMMA TotalOfSame ==
    ASSUME NEW a \in Nat, NEW n \in Int, NEW f, NEW g, \A i \in a..n : f[i] = g[i] /\ f[i] \in Nat
    PROVE  Total(f, a, n) = Total(g, a, n) /\ Total(f, a, n) \in Nat
<1>1. IsFiniteSet(a..n)
  BY FS_Interval
<1> QED
  BY <1>1, SumSame, SumNatural DEF Total

LEMMA TotalJoins ==
    ASSUME NEW a \in Nat, NEW b \in Nat, NEW n \in Nat, a <= b + 1, b <= n, NEW f,
           \A i \in a..n : f[i] \in Nat
    PROVE  Total(f, a, n) = Total(f, a, b) + Total(f, b + 1, n)
<1>1. IsFiniteSet(a..b) /\ IsFiniteSet((b + 1)..n)
  BY FS_Interval
<1>2. a..n = (a..b) \union ((b + 1)..n) /\ (a..b) \cap ((b + 1)..n) = {}
  OBVIOUS
<1>3. \A i \in (a..b) \union ((b + 1)..n) : f[i] \in Int
  BY <1>2
<1> QED
  BY <1>1, <1>2, <1>3, SumParts DEF Total

LEMMA TotalGrows ==
    ASSUME NEW a \in Nat, NEW b \in Nat, NEW n \in Nat, a <= b + 1, b <= n, NEW f,
           \A i \in a..n : f[i] \in Nat
    PROVE  Total(f, a, b) \in Nat /\ Total(f, a, n) \in Nat /\ Total(f, a, b) <= Total(f, a, n)
BY SumEnds DEF Total

LEMMA TotalUp ==
    ASSUME NEW a \in Nat, NEW n \in Nat, a <= n + 1, NEW f, \A i \in a..(n + 1) : f[i] \in Nat
    PROVE  Total(f, a, n) \in Nat /\ Total(f, a, n + 1) = Total(f, a, n) + f[n + 1]
BY SumUp DEF Total

LEMMA TotalOfNone == ASSUME NEW a \in Nat, NEW n \in Int, n < a, NEW f PROVE Total(f, a, n) = 0
BY SumStarts DEF Total

LEMMA TotalOfEqual ==
    ASSUME NEW a \in Nat, NEW d \in Nat, NEW n \in Nat, NEW f, \A i \in (a + 1)..(a + n) : f[i] = d
    PROVE  Total(f, a + 1, a + n) = n * d
<1> DEFINE G == {k \in Nat : k <= n => Total(f, a + 1, a + k) = k * d}
<1>1. 0 \in G
  <2>1. Total(f, a + 1, a + 0) = 0
    BY TotalOfNone
  <2> QED
    BY <2>1
<1>2. ASSUME NEW k \in Nat, k \in G
      PROVE  k + 1 \in G
  <2> SUFFICES ASSUME k + 1 <= n PROVE Total(f, a + 1, a + (k + 1)) = (k + 1) * d
    OBVIOUS
  <2>1. Total(f, a + 1, a + k) = k * d
    BY <1>2
  <2> DEFINE m == a + k
  <2>2. m \in Nat /\ a + 1 \in Nat /\ a + 1 <= m + 1 /\ m + 1 \in (a + 1)..(a + n)
        /\ (a + 1)..(m + 1) \subseteq (a + 1)..(a + n) /\ a + (k + 1) = m + 1
    OBVIOUS
  <2>3. Total(f, a + 1, m) = k * d
    BY <2>1
  <2> HIDE DEF m
  <2>4. \A i \in (a + 1)..(m + 1) : f[i] \in Nat
    BY <2>2
  <2>5. Total(f, a + 1, m + 1) = Total(f, a + 1, m) + f[m + 1]
    BY <2>2, <2>4, TotalUp
  <2>6. f[m + 1] = d /\ (k + 1) * d = k * d + d
    BY <2>2, NextMultiple
  <2> QED
    BY <2>2, <2>3, <2>5, <2>6
<1>3. \A k \in Nat : k \in G
  <2> HIDE DEF G
  <2> QED
    BY <1>1, <1>2, NatInduct
<1> QED
  BY <1>3

-----------------------------------------------------------------------------
(* The runs of a table of times, one after another.                          *)
Paced(s, l) == /\ Len(s) = Len(l)
               /\ \A i \in 1..Len(l) : s[i] = <<Total(l, 1, i - 1), l[i]>>
EndOf(s) == IF s = <<>> THEN 0 ELSE s[Len(s)][1] + s[Len(s)][2]
RunFrom(e, c, d) == [k \in 1..c |-> <<e + (k - 1) * d, d>>]

LEMMA EndOfPaced ==
    ASSUME NEW s \in Seq(Nat \X Nat), NEW l \in Seq(Nat), Paced(s, l)
    PROVE  EndOf(s) = Total(l, 1, Len(l)) /\ EndOf(s) \in Nat
<1>1. Len(l) \in Nat /\ Len(s) = Len(l) /\ \A i \in 1..Len(l) : l[i] \in Nat
  BY DEF Paced
<1>2. CASE Len(l) = 0
  <2>1. s = <<>>
    BY <1>1, <1>2
  <2>2. Total(l, 1, Len(l)) = 0
    BY <1>2, TotalOfNone
  <2> QED
    BY <2>1, <2>2 DEF EndOf
<1>3. CASE Len(l) # 0
  <2> DEFINE n == Len(l) - 1
  <2>1. n \in Nat /\ n + 1 = Len(l) /\ Len(l) \in 1..Len(l) /\ s # <<>>
    BY <1>1, <1>3
  <2>2. s[Len(s)] = <<Total(l, 1, Len(l) - 1), l[Len(l)]>>
    BY <1>1, <2>1 DEF Paced
  <2>3. EndOf(s) = Total(l, 1, Len(l) - 1) + l[Len(l)]
    BY <2>1, <2>2 DEF EndOf
  <2> HIDE DEF n
  <2>4. \A i \in 1..(n + 1) : l[i] \in Nat
    BY <1>1, <2>1
  <2>5. Total(l, 1, n) \in Nat /\ Total(l, 1, n + 1) = Total(l, 1, n) + l[n + 1]
    BY <2>1, <2>4, TotalUp, SMTT(30)
  <2>6. Len(l) - 1 = n
    BY <1>1, <2>1
  <2>7. l[n + 1] \in Nat
    BY <2>1, <2>4
  <2>8. EndOf(s) = Total(l, 1, n) + l[n + 1]
    BY <2>1, <2>3, <2>6
  <2>9. Total(l, 1, n + 1) = Total(l, 1, Len(l))
    BY <2>1, Zenon
  <2>10. EndOf(s) = Total(l, 1, n + 1) /\ EndOf(s) \in Nat
    BY <2>5, <2>7, <2>8
  <2> QED
    BY <2>9, <2>10
<1> QED
  BY <1>2, <1>3

LEMMA JoinedAt ==
    ASSUME NEW S, NEW a \in Seq(S), NEW b \in Seq(S)
    PROVE  /\ a \o b \in Seq(S) /\ Len(a \o b) = Len(a) + Len(b)
           /\ \A i \in 1..Len(a) : (a \o b)[i] = a[i]
           /\ \A k \in 1..Len(b) : (a \o b)[Len(a) + k] = b[k]
<1>1. Len(a) \in Nat /\ Len(b) \in Nat
  OBVIOUS
<1>2. /\ a \o b \in Seq(S) /\ Len(a \o b) = Len(a) + Len(b)
      /\ \A i \in 1..(Len(a) + Len(b)) :
            (a \o b)[i] = IF i <= Len(a) THEN a[i] ELSE b[i - Len(a)]
  BY ConcatProperties
<1>3. ASSUME NEW k \in 1..Len(b)
      PROVE  (a \o b)[Len(a) + k] = b[k]
  <2> DEFINE n == Len(a)
             i == n + k
  <2>1. i \in 1..(n + Len(b)) /\ ~(i <= n) /\ i - n = k
    BY <1>1
  <2>2. (a \o b)[i] = b[i - n]
    BY <1>2, <2>1
  <2> HIDE DEF i
  <2>3. (a \o b)[i] = b[k]
    BY <2>1, <2>2
  <2> QED
    BY <2>3 DEF i
<1>4. \A i \in 1..Len(a) : (a \o b)[i] = a[i]
  <2>1. \A i \in 1..Len(a) : i \in 1..(Len(a) + Len(b)) /\ i <= Len(a)
    BY <1>1
  <2> QED
    BY <1>2, <2>1
<1> QED
  BY <1>2, <1>3, <1>4

LEMMA PacedGoesOn ==
    ASSUME NEW s \in Seq(Nat \X Nat), NEW l \in Seq(Nat), Paced(s, l), NEW c \in Nat, NEW d \in Nat
    PROVE  /\ s \o RunFrom(EndOf(s), c, d) \in Seq(Nat \X Nat)
           /\ Paced(s \o RunFrom(EndOf(s), c, d), l \o [k \in 1..c |-> d])
<1> DEFINE n == Len(l)
           e == EndOf(s)
           q == RunFrom(e, c, d)
           p == [k \in 1..c |-> d]
           t == s \o q
           m == l \o p
<1>1. n \in Nat /\ Len(s) = n /\ e \in Nat /\ e = Total(l, 1, n) /\ \A i \in 1..n : l[i] \in Nat
  <2>1. n \in Nat /\ Len(s) = n /\ \A i \in 1..n : l[i] \in Nat
    BY DEF Paced
  <2> QED
    BY <2>1, EndOfPaced
<1>2. p \in Seq(Nat) /\ Len(p) = c
  OBVIOUS
<1> HIDE DEF e
<1>3. \A k \in 1..c : (k - 1) * d \in Nat
  <2>1. \A k \in 1..c : k - 1 \in Nat
    OBVIOUS
  <2>2. \A k \in Nat : k * d \in Nat
    BY Z3
  <2> QED
    BY <2>1, <2>2
<1>5. \A k \in 1..c : q[k] = <<e + (k - 1) * d, d>> /\ p[k] = d
  BY DEF RunFrom
<1>4. q \in Seq(Nat \X Nat) /\ Len(q) = c
  <2> DEFINE v(k) == <<e + (k - 1) * d, d>>
  <2>1. \A k \in 1..c : v(k) \in Nat \X Nat
    BY <1>1, <1>3
  <2>2. q = [k \in 1..c |-> v(k)]
    BY DEF RunFrom
  <2> HIDE DEF v, q
  <2> QED
    BY <2>1, <2>2
<1> HIDE DEF p, q
<1>6. /\ t \in Seq(Nat \X Nat) /\ Len(t) = n + c /\ \A i \in 1..n : t[i] = s[i]
      /\ \A k \in 1..c : t[n + k] = q[k]
  <2>1. /\ t \in Seq(Nat \X Nat) /\ Len(t) = Len(s) + Len(q)
        /\ \A i \in 1..Len(s) : t[i] = s[i]
        /\ \A k \in 1..Len(q) : t[Len(s) + k] = q[k]
    <3>1. s \in Seq(Nat \X Nat) /\ q \in Seq(Nat \X Nat)
      BY <1>4
    <3> QED
      BY <3>1, JoinedAt
  <2> HIDE DEF t, n
  <2> QED
    BY <1>1, <1>4, <2>1
<1>7. /\ Len(m) = n + c /\ \A i \in 1..n : m[i] = l[i]
      /\ \A k \in 1..c : m[n + k] = p[k]
  <2>1. /\ Len(m) = Len(l) + Len(p) /\ \A i \in 1..Len(l) : m[i] = l[i]
        /\ \A k \in 1..Len(p) : m[Len(l) + k] = p[k]
    <3>1. l \in Seq(Nat) /\ p \in Seq(Nat)
      BY <1>2
    <3> QED
      BY <3>1, JoinedAt
  <2> HIDE DEF m
  <2> QED
    BY <1>1, <1>2, <2>1
<1> HIDE DEF t, m
<1>8. ASSUME NEW i \in 1..n
      PROVE  t[i] = <<Total(m, 1, i - 1), m[i]>>
  <2>1. s[i] = <<Total(l, 1, i - 1), l[i]>>
    BY <1>1 DEF Paced
  <2> DEFINE r == i - 1
  <2>2. r \in Int /\ \A j \in 1..r : l[j] = m[j] /\ l[j] \in Nat
    <3>1. n \in Nat /\ r \in Int /\ \A j \in 1..r : j \in 1..n
      BY <1>1
    <3> HIDE DEF r
    <3> QED
      BY <1>1, <1>7, <3>1, Zenon
  <2>3. s[i] = <<Total(l, 1, r), l[i]>>
    BY <2>1
  <2> HIDE DEF r
  <2>4. Total(l, 1, r) = Total(m, 1, r)
    BY <2>2, 1 \in Nat, TotalOfSame, Zenon
  <2>5. t[i] = <<Total(m, 1, r), m[i]>>
    BY <1>6, <1>7, <2>3, <2>4
  <2> QED
    BY <2>5 DEF r
<1>9. ASSUME NEW i \in (n + 1)..(n + c)
      PROVE  t[i] = <<Total(m, 1, i - 1), m[i]>>
  <2> DEFINE k == i - n
             r == k - 1
             h == i - 1
  <2>1. /\ k \in 1..c /\ i = n + k /\ r \in Nat /\ h = n + r /\ h \in Nat /\ n <= h
        /\ \A j \in (n + 1)..(n + r) : j - n \in 1..c /\ j = n + (j - n)
    BY <1>1
  <2>2. t[i] = <<e + r * d, d>> /\ m[i] = d
    <3> HIDE DEF k
    <3>1. t[n + k] = <<e + (k - 1) * d, d>> /\ m[n + k] = d
      BY <1>5, <1>6, <1>7, <2>1
    <3> QED
      BY <2>1, <3>1
  <2> HIDE DEF k, r, h, n
  <2>3. \A j \in (n + 1)..(n + r) : m[j] = d
    BY <1>5, <1>7, <2>1
  <2>4. \A j \in 1..n : l[j] = m[j] /\ l[j] \in Nat
    BY <1>1, <1>7
  <2>5. \A j \in 1..h : m[j] \in Nat
    <3>1. \A j \in 1..h : j \in 1..n \/ j \in (n + 1)..(n + r)
      BY <1>1, <2>1
    <3> QED
      BY <2>3, <2>4, <3>1
  <2>6. Total(m, 1, h) = Total(m, 1, n) + Total(m, n + 1, h)
    <3>1. 1 \in Nat /\ 1 <= n + 1
      BY <1>1
    <3> QED
      BY <1>1, <2>1, <2>5, <3>1, TotalJoins
  <2>7. Total(m, n + 1, h) = r * d
    <3>1. Total(m, n + 1, n + r) = r * d
      <4>1. n \in Nat /\ r \in Nat /\ d \in Nat
        BY <1>1, <2>1
      <4> QED
        BY <2>3, <4>1, TotalOfEqual, Zenon
    <3> QED
      BY <2>1, <3>1
  <2>8. Total(l, 1, n) = Total(m, 1, n)
    <3>1. n \in Int
      BY <1>1
    <3> QED
      BY <2>4, <3>1, 1 \in Nat, TotalOfSame, Zenon
  <2>9. e + r * d = Total(m, 1, h)
    BY <1>1, <2>6, <2>7, <2>8
  <2>10. t[i] = <<Total(m, 1, h), m[i]>>
    BY <2>2, <2>9
  <2> QED
    BY <2>10 DEF h
<1>10. \A i \in 1..(n + c) : t[i] = <<Total(m, 1, i - 1), m[i]>>
  <2>1. \A i \in 1..(n + c) : i \in 1..n \/ i \in (n + 1)..(n + c)
    BY <1>1
  <2> QED
    BY <1>8, <1>9, <2>1, Zenon
<1>11. t \in Seq(Nat \X Nat) /\ Paced(t, m)
  BY <1>6, <1>7, <1>10 DEF Paced
<1> QED
  BY <1>11 DEF t, m, q, p, e

(* What is assumed of the file, and a sample's place and time.               *)
FileOK == /\ index \in Mp4FileType /\ Len(index.texts) = Len(index.sizes)
          /\ \A i \in DOMAIN index.boxes : index.boxes[i].start <= index.boxes[i].end
Sampled == [offset : Nat, size : Nat, start : Nat, duration : Nat]
Moment(t) == (Position(t) * NsPerSecond) \div Beats

LEMMA ScalesTyped ==
    /\ Timescale \in Nat \ {0} /\ MovieScale \in Nat \ {0}
    /\ NsPerSecond \in Nat \ {0} /\ NsPerMs \in Nat \ {0}
    /\ ReadBytes \in Nat /\ SampleBytes \in Nat
    /\ Beats \in Nat \ {0}
<1>1. /\ Timescale \in Nat \ {0} /\ MovieScale \in Nat \ {0}
      /\ NsPerSecond \in Nat \ {0} /\ NsPerMs \in Nat \ {0}
      /\ ReadBytes \in Nat /\ SampleBytes \in Nat
  BY Mp4Assumption
<1>2. Timescale * MovieScale \in Nat \ {0}
  BY <1>1, Z3
<1> QED
  BY <1>1, <1>2 DEF Beats

(* Where an edit shows a time, in the numbers of one scale.                  *)
LEMMA PositionIs ==
    ASSUME FileOK, index.edit # Whole, NEW t \in Nat
    PROVE  LET D == index.edit.delay * Timescale
               L == index.edit.length * Timescale
               P == index.edit.media * MovieScale
           IN /\ D \in Nat /\ L \in Nat /\ P \in Nat /\ t * MovieScale \in Nat
              /\ Begin = P /\ Limit = P + L /\ (index.edit.delay + index.edit.length) * Timescale = D + L
              /\ Position(t) = Greater(D, Lesser(D + (t * MovieScale - P), D + L))
<1> DEFINE d == index.edit.delay
           l == index.edit.length
           m == index.edit.media
<1>1. d \in Nat /\ l \in Nat /\ m \in Nat
  BY DEF FileOK, Mp4FileType
<1>2. /\ Begin = m * MovieScale /\ Limit = Begin + l * Timescale
      /\ Position(t) = Greater(d * Timescale,
                               Lesser((d * Timescale) + (t - m) * MovieScale, (d + l) * Timescale))
  BY DEF Begin, Limit, Position
<1> HIDE DEF d, l, m
<1>3. /\ d * Timescale \in Nat /\ l * Timescale \in Nat /\ m * MovieScale \in Nat
      /\ t * MovieScale \in Nat
      /\ (d + l) * Timescale = d * Timescale + l * Timescale
      /\ (t - m) * MovieScale = t * MovieScale - m * MovieScale
  BY <1>1, ScalesTyped, Z3
<1>4. Position(t) = Greater(d * Timescale,
                            Lesser((d * Timescale) + (t * MovieScale - m * MovieScale),
                                   d * Timescale + l * Timescale))
  BY <1>2, <1>3
<1> QED
  BY <1>2, <1>3, <1>4 DEF d, l, m

LEMMA PositionLies ==
    ASSUME FileOK, NEW t \in Nat
    PROVE  /\ Position(t) \in Nat
           /\ index.edit # Whole =>
                 /\ index.edit.delay * Timescale <= Position(t)
                 /\ Position(t) <= (index.edit.delay + index.edit.length) * Timescale
<1>1. CASE index.edit = Whole
  BY <1>1 DEF Position
<1>2. CASE index.edit # Whole
  <2> DEFINE D == index.edit.delay * Timescale
             L == index.edit.length * Timescale
             P == index.edit.media * MovieScale
             u == t * MovieScale
  <2>1. /\ D \in Nat /\ L \in Nat /\ P \in Nat /\ u \in Nat
        /\ (index.edit.delay + index.edit.length) * Timescale = D + L
        /\ Position(t) = Greater(D, Lesser(D + (u - P), D + L))
    BY <1>2, PositionIs
  <2> HIDE DEF D, L, P, u
  <2>2. Position(t) \in Nat /\ D <= Position(t) /\ Position(t) <= D + L
    BY <2>1 DEF Greater, Lesser
  <2> QED
    BY <2>1, <2>2 DEF D
<1> QED
  BY <1>1, <1>2

LEMMA PositionGrows ==
    ASSUME FileOK, NEW t \in Nat, NEW v \in Nat, t <= v
    PROVE  Position(t) <= Position(v)
<1>1. CASE index.edit = Whole
  BY <1>1 DEF Position
<1>2. CASE index.edit # Whole
  <2> DEFINE D == index.edit.delay * Timescale
             L == index.edit.length * Timescale
             P == index.edit.media * MovieScale
             a == t * MovieScale
             b == v * MovieScale
  <2>1. /\ D \in Nat /\ L \in Nat /\ P \in Nat /\ a \in Nat /\ b \in Nat
        /\ Position(t) = Greater(D, Lesser(D + (a - P), D + L))
        /\ Position(v) = Greater(D, Lesser(D + (b - P), D + L))
    BY <1>2, PositionIs
  <2>2. a <= b
    BY ScalesTyped, Multiplied
  <2> HIDE DEF D, L, P, a, b
  <2> QED
    BY <2>1, <2>2 DEF Greater, Lesser
<1> QED
  BY <1>1, <1>2

LEMMA MomentTyped ==
    ASSUME FileOK, NEW t \in Nat, NEW v \in Nat, t <= v
    PROVE  Moment(t) \in Nat /\ Moment(v) \in Nat /\ Moment(t) <= Moment(v)
<1> DEFINE a == Position(t)
           b == Position(v)
<1>1. a \in Nat /\ b \in Nat /\ a <= b
  BY PositionLies, PositionGrows
<1> HIDE DEF a, b
<1>2. a * NsPerSecond \in Nat /\ b * NsPerSecond \in Nat /\ a * NsPerSecond <= b * NsPerSecond
  BY <1>1, ScalesTyped, Multiplied
<1> DEFINE x == a * NsPerSecond
           y == b * NsPerSecond
<1>3. x \in Nat /\ y \in Nat /\ x <= y /\ Beats \in Nat \ {0}
  BY <1>2, ScalesTyped
<1> HIDE DEF x, y
<1>4. x \div Beats \in Nat /\ y \div Beats \in Nat /\ x \div Beats <= y \div Beats
  BY <1>3, QuotientGrows
<1> QED
  BY <1>4 DEF x, y, a, b, Moment

(* What next_sample says of a sample is where the edit shows its two ends.   *)
LEMMA PresentedIs ==
    ASSUME FileOK, NEW s \in Sampled
    PROVE  /\ Presented(s) # <<>> =>
                 Presented(s) = <<Moment(s.start), Moment(s.start + s.duration)>>
           /\ Presented(s) = <<>> => Position(s.start) = Position(s.start + s.duration)
<1> DEFINE t == s.start
           v == s.start + s.duration
<1>1. t \in Nat /\ v \in Nat /\ t <= v
  BY DEF Sampled
<1>2. CASE index.edit = Whole
  <2>1. Presented(s) = <<Moment(t), Moment(v)>>
    BY <1>2 DEF Presented, Moment, Position, Beats, Ns
  <2>2. Presented(s) # <<>>
    BY <2>1
  <2> QED
    BY <2>1, <2>2
<1>3. CASE index.edit # Whole
  <2> DEFINE D == index.edit.delay * Timescale
             L == index.edit.length * Timescale
             P == index.edit.media * MovieScale
             a == t * MovieScale
             b == v * MovieScale
  <2>1. /\ D \in Nat /\ L \in Nat /\ P \in Nat /\ a \in Nat /\ b \in Nat
        /\ Begin = P /\ Limit = P + L
        /\ Position(t) = Greater(D, Lesser(D + (a - P), D + L))
        /\ Position(v) = Greater(D, Lesser(D + (b - P), D + L))
    BY <1>1, <1>3, PositionIs
  <2>2. a <= b
    BY <1>1, ScalesTyped, Multiplied
  <2>3. Presented(s) = IF b <= Begin \/ a >= Limit THEN <<>>
                       ELSE <<Converts(Greater(a, Begin)), Converts(Lesser(b, Limit))>>
    BY <1>3 DEF Presented
  <2>4. \A n : Converts(n) = ((D + n - Begin) * NsPerSecond) \div (Timescale * MovieScale)
    BY DEF Converts, Ns
  <2>5. \A p : (Position(p) * NsPerSecond) \div (Timescale * MovieScale) = Moment(p)
    BY <1>3 DEF Moment, Beats
  <2> HIDE DEF D, L, P, a, b, t, v
  <2>6. CASE b <= Begin \/ a >= Limit
    <3>1. Position(t) = Position(v)
      BY <2>1, <2>2, <2>6 DEF Greater, Lesser
    <3>2. Presented(s) = <<>>
      BY <2>3, <2>6
    <3> QED
      BY <3>1, <3>2 DEF t, v
  <2>7. CASE ~(b <= Begin \/ a >= Limit)
    <3>1. Presented(s) = <<Converts(Greater(a, Begin)), Converts(Lesser(b, Limit))>>
      BY <2>3, <2>7
    <3>2. D + Greater(a, Begin) - Begin = Position(t) /\ D + Lesser(b, Limit) - Begin = Position(v)
      BY <2>1, <2>2, <2>7 DEF Greater, Lesser
    <3> DEFINE x == Greater(a, Begin)
               y == Lesser(b, Limit)
    <3>3. D + x - Begin = Position(t) /\ D + y - Begin = Position(v)
      BY <3>2
    <3>4. Presented(s) = <<Converts(x), Converts(y)>>
      BY <3>1
    <3> HIDE DEF x, y
    <3>5. Converts(x) = Moment(t) /\ Converts(y) = Moment(v)
      BY <2>4, <2>5, <3>3, Zenon
    <3>6. Presented(s) = <<Moment(t), Moment(v)>> /\ Presented(s) # <<>>
      BY <3>4, <3>5
    <3> QED
      BY <3>6 DEF t, v
  <2> QED
    BY <2>6, <2>7
<1> QED
  BY <1>2, <1>3

(* A sample's text is shown if and only if a nanosecond ends meanwhile.      *)
LEMMA ShownIs ==
    ASSUME FileOK, NEW s \in Sampled
    PROVE  (\E n \in 1..((Position(s.start + s.duration) * NsPerSecond) \div Beats) :
                Position(s.start) * NsPerSecond < n * Beats)
           <=> Presented(s) # <<>> /\ Presented(s)[1] < Presented(s)[2]
<1> DEFINE t == s.start
           v == s.start + s.duration
           a == Position(t)
           b == Position(v)
           x == a * NsPerSecond
           y == b * NsPerSecond
<1>1. t \in Nat /\ v \in Nat /\ t <= v
  BY DEF Sampled
<1>2. a \in Nat /\ b \in Nat
  <2> HIDE DEF t, v
  <2> QED
    BY <1>1, PositionLies
<1>3. x \in Nat /\ y \in Nat /\ Beats \in Nat \ {0}
  <2> HIDE DEF a, b
  <2> QED
    BY <1>2, ScalesTyped, Multiplied
<1>4. x \div Beats < y \div Beats <=> \E n \in 1..(y \div Beats) : x < n * Beats
  <2> HIDE DEF x, y
  <2> QED
    BY <1>3, QuotientPasses
<1>5. x \div Beats = Moment(t) /\ y \div Beats = Moment(v)
  BY DEF Moment
<1>6. /\ Presented(s) # <<>> => Presented(s) = <<Moment(t), Moment(v)>>
      /\ Presented(s) = <<>> => a = b
  BY PresentedIs
<1>7. a = b => x \div Beats = y \div Beats
  BY Zenon
<1>8. Moment(t) \in Nat
  <2> HIDE DEF t, v
  <2> QED
    BY <1>1, MomentTyped
<1>9. (\E n \in 1..(y \div Beats) : x < n * Beats)
       <=> Presented(s) # <<>> /\ Presented(s)[1] < Presented(s)[2]
  <2> HIDE DEF a, b, x, y, t, v
  <2>1. (\E n \in 1..(y \div Beats) : x < n * Beats) <=> Moment(t) < Moment(v)
    BY <1>4, <1>5
  <2>2. CASE Presented(s) = <<>>
    BY <1>5, <1>6, <1>7, <1>8, <2>1, <2>2
  <2>3. CASE Presented(s) # <<>>
    <3>1. Presented(s)[1] = Moment(t) /\ Presented(s)[2] = Moment(v)
      BY <1>6, <2>3
    <3> QED
      BY <2>1, <2>3, <3>1
  <2> QED
    BY <2>2, <2>3
<1> QED
  BY <1>9

Opening(t) == Moment(t) \div NsPerMs
Lasting(c) == c \in [start : Nat, end : Nat] /\ c.start < c.end
WithinEdit(c) ==
    index.edit # Whole =>
        /\ c.start >= Ns(index.edit.delay, MovieScale) \div NsPerMs
        /\ c.start * NsPerMs * MovieScale < (index.edit.delay + index.edit.length) * NsPerSecond

LEMMA OpeningGrows ==
    ASSUME FileOK, NEW t \in Nat, NEW v \in Nat, t <= v
    PROVE  Opening(t) \in Nat /\ Opening(v) \in Nat /\ Opening(t) <= Opening(v)
<1> DEFINE x == Moment(t)
           y == Moment(v)
<1>1. x \in Nat /\ y \in Nat /\ x <= y /\ NsPerMs \in Nat \ {0}
  BY MomentTyped, ScalesTyped
<1> HIDE DEF x, y
<1>2. x \div NsPerMs \in Nat /\ y \div NsPerMs \in Nat /\ x \div NsPerMs <= y \div NsPerMs
  BY <1>1, QuotientGrows
<1> QED
  BY <1>2 DEF Opening, x, y

(* The ticks of an edit's two bounds are those the movie counts.             *)
LEMMA BoundIs ==
    ASSUME NEW n \in Nat
    PROVE  (n * Timescale * NsPerSecond) \div (Timescale * MovieScale) = Ns(n, MovieScale)
<1>1. (n * Timescale) * NsPerSecond = (n * NsPerSecond) * Timescale /\ n * NsPerSecond \in Nat
  BY ScalesTyped, Z3
<1> DEFINE a == n * NsPerSecond
<1>2. a \in Nat /\ (n * Timescale) * NsPerSecond = a * Timescale
  BY <1>1
<1> HIDE DEF a
<1>3. (a * Timescale) \div (Timescale * MovieScale) = a \div MovieScale
  BY <1>2, ScalesTyped, QuotientCancels
<1> QED
  BY <1>2, <1>3 DEF a, Ns

LEMMA MomentLies ==
    ASSUME FileOK, index.edit # Whole, NEW t \in Nat
    PROVE  /\ Ns(index.edit.delay, MovieScale) \in Nat
           /\ Ns(index.edit.delay, MovieScale) <= Moment(t)
           /\ Moment(t) <= Ns(index.edit.delay + index.edit.length, MovieScale)
           /\ Moment(t) \in Nat
<1> DEFINE d == index.edit.delay
           e == index.edit.delay + index.edit.length
           p == Position(t)
<1>1. d \in Nat /\ e \in Nat
  BY DEF FileOK, Mp4FileType
<1>2. p \in Nat /\ d * Timescale <= p /\ p <= e * Timescale
  BY PositionLies
<1>3. Moment(t) = (p * NsPerSecond) \div Beats /\ Beats = Timescale * MovieScale
  BY DEF Moment, Beats
<1> HIDE DEF d, e, p
<1>4. d * Timescale \in Nat /\ e * Timescale \in Nat
  BY <1>1, ScalesTyped, Multiplied
<1> DEFINE x == d * Timescale
           y == e * Timescale
           xs == x * NsPerSecond
           ys == y * NsPerSecond
           ps == p * NsPerSecond
<1>5. xs \in Nat /\ ys \in Nat /\ ps \in Nat /\ xs <= ps /\ ps <= ys
  <2>1. x \in Nat /\ y \in Nat /\ x <= p /\ p <= y
    BY <1>2, <1>4
  <2> HIDE DEF x, y
  <2> QED
    BY <1>2, <2>1, ScalesTyped, Multiplied
<1>6. xs \div Beats = Ns(d, MovieScale) /\ ys \div Beats = Ns(e, MovieScale)
  BY <1>1, <1>3, BoundIs
<1> HIDE DEF xs, ys
<1>7. /\ xs \div Beats \in Nat /\ ps \div Beats \in Nat /\ ys \div Beats \in Nat
      /\ xs \div Beats <= ps \div Beats /\ ps \div Beats <= ys \div Beats
  <2> HIDE DEF ps
  <2> QED
    BY <1>5, ScalesTyped, QuotientGrows
<1> QED
  BY <1>3, <1>6, <1>7 DEF d, e

LEMMA CaptionLies ==
    ASSUME FileOK, NEW s \in Sampled,
           Presented(s) # <<>>, Presented(s)[1] < Presented(s)[2]
    PROVE  LET c == CaptionAt(Presented(s)[1], Presented(s)[2])
           IN Lasting(c) /\ WithinEdit(c) /\ c.start = Opening(s.start)
<1> DEFINE t == s.start
           v == s.start + s.duration
           x == Moment(t)
           y == Moment(v)
           m == x \div NsPerMs
           c == CaptionAt(x, y)
<1>1. t \in Nat /\ v \in Nat /\ t <= v
  BY DEF Sampled
<1>2. Presented(s)[1] = x /\ Presented(s)[2] = y
  BY PresentedIs
<1>3. x < y
  BY <1>2
<1>4. x \in Nat /\ y \in Nat
  <2> HIDE DEF t, v
  <2> QED
    BY <1>1, MomentTyped
<1>5. m \in Nat /\ m * NsPerMs <= x /\ y \div NsPerMs \in Nat
  <2> HIDE DEF x, y
  <2> QED
    BY <1>4, ScalesTyped, Quotient
<1>6. c = [start |-> m, end |-> Greater(y \div NsPerMs, m + 1)]
  BY DEF CaptionAt
<1>7. Lasting(c) /\ c.start = m
  <2> DEFINE z == y \div NsPerMs
             g == Greater(z, m + 1)
  <2>1. z \in Nat /\ c = [start |-> m, end |-> g]
    BY <1>5, <1>6
  <2> HIDE DEF z, m
  <2>2. g \in Nat /\ m < g
    BY <1>5, <2>1 DEF Greater
  <2> HIDE DEF g, c
  <2> QED
    BY <1>5, <2>1, <2>2 DEF Lasting
<1>8. ASSUME index.edit # Whole
      PROVE  /\ m >= Ns(index.edit.delay, MovieScale) \div NsPerMs
             /\ m * NsPerMs * MovieScale < (index.edit.delay + index.edit.length) * NsPerSecond
  <2> DEFINE a == Ns(index.edit.delay, MovieScale)
             l == index.edit.delay + index.edit.length
             b == Ns(l, MovieScale)
  <2>1. a \in Nat /\ a <= x /\ y <= b
    <3> HIDE DEF t, v
    <3> QED
      BY <1>1, <1>8, MomentLies
  <2>2. l \in Nat
    BY <1>8 DEF FileOK, Mp4FileType
  <2>3. b \in Nat /\ b * MovieScale <= l * NsPerSecond /\ l * NsPerSecond \in Nat
    <3> DEFINE w == l * NsPerSecond
    <3>1. w \in Nat
      <4> HIDE DEF l
      <4> QED
        BY <2>2, ScalesTyped, Multiplied
    <3>2. b = w \div MovieScale
      BY DEF Ns
    <3> HIDE DEF w, b
    <3>3. b \in Nat /\ b * MovieScale <= w
      BY <3>1, <3>2, ScalesTyped, Quotient
    <3> QED
      BY <3>1, <3>3 DEF w
  <2> HIDE DEF a, b, l, x, y
  <2>4. a \div NsPerMs <= x \div NsPerMs
    BY <1>4, <2>1, ScalesTyped, QuotientGrows
  <2>5. a \div NsPerMs \in Nat
    BY <2>1, ScalesTyped, Quotient
  <2> DEFINE n == m * NsPerMs
  <2>6. n \in Nat /\ n <= x
    <3> HIDE DEF m
    <3> QED
      BY <1>5, ScalesTyped, Multiplied
  <2>7. n < b
    BY <1>3, <1>4, <2>1, <2>3, <2>6
  <2> HIDE DEF n
  <2>8. n * MovieScale \in Nat /\ b * MovieScale \in Nat /\ n * MovieScale < b * MovieScale
    <3>1. ~(b <= n)
      BY <2>3, <2>6, <2>7
    <3>2. b * MovieScale <= n * MovieScale <=> b <= n
      BY <2>3, <2>6, ScalesTyped, ProductCancels
    <3>3. n * MovieScale \in Nat /\ b * MovieScale \in Nat
      BY <2>3, <2>6, ScalesTyped, Multiplied
    <3> QED
      BY <3>1, <3>2, <3>3
  <2>9. n * MovieScale < l * NsPerSecond
    BY <2>3, <2>8
  <2> HIDE DEF m
  <2>10. m >= a \div NsPerMs
    BY <1>5, <2>4, <2>5 DEF m
  <2> QED
    BY <2>9, <2>10 DEF n, a, l
<1>9. Lasting(c) /\ WithinEdit(c) /\ c.start = Opening(s.start)
  <2>1. WithinEdit(c)
    <3> HIDE DEF c, m
    <3> QED
      BY <1>7, <1>8 DEF WithinEdit
  <2> QED
    BY <1>7, <2>1 DEF Opening
<1> QED
  BY <1>2, <1>9

LEMMA LastIn ==
    ASSUME NEW b \in Nat, NEW S \in SUBSET (0..b), S # {}
    PROVE  \E n \in S : \A m \in S : m <= n
<1> DEFINE G == {k \in Nat : \A U \in SUBSET (0..k) : U # {} => \E n \in U : \A m \in U : m <= n}
<1>1. 0 \in G
  <2> SUFFICES ASSUME NEW U \in SUBSET (0..0), U # {}
               PROVE  \E n \in U : \A m \in U : m <= n
    OBVIOUS
  <2>1. PICK n \in U : TRUE
    OBVIOUS
  <2>2. n = 0 /\ \A m \in U : m = 0
    BY <2>1
  <2> QED
    BY <2>2
<1>2. ASSUME NEW k \in Nat, k \in G
      PROVE  k + 1 \in G
  <2> SUFFICES ASSUME NEW U \in SUBSET (0..(k + 1)), U # {}
               PROVE  \E n \in U : \A m \in U : m <= n
    OBVIOUS
  <2>1. CASE k + 1 \in U
    BY <2>1
  <2>2. CASE k + 1 \notin U
    <3>1. U \in SUBSET (0..k)
      BY <2>2
    <3> QED
      BY <1>2, <3>1
  <2> QED
    BY <2>1, <2>2
<1>3. \A k \in Nat : k \in G
  <2> HIDE DEF G
  <2> QED
    BY <1>1, <1>2, NatInduct
<1> QED
  BY <1>3

-----------------------------------------------------------------------------
(* The table of chunks.                                                      *)
Rising(m) == \A i, j \in 1..Len(m) : i < j => m[i][1] < m[j][1]
TableOK == /\ index.stsc \in Seq(Nat \X Nat) /\ Rising(index.stsc)
           /\ index.stsc # <<>> /\ index.stsc[1][1] = 1

LEMMA RowFor ==
    ASSUME TableOK, NEW c \in Nat \ {0}
    PROVE  \E r \in 1..Len(index.stsc) :
              /\ index.stsc[r][1] <= c
              /\ \A i \in 1..Len(index.stsc) : index.stsc[i][1] <= c => i <= r
              /\ PerChunk(c) = index.stsc[r][2] /\ PerChunk(c) \in Nat
<1> DEFINE t == index.stsc
           rows == {i \in DOMAIN t : t[i][1] <= c}
           Latest(i) == \A j \in rows : t[j][1] <= t[i][1]
<1>1. /\ t \in Seq(Nat \X Nat) /\ t # <<>> /\ t[1][1] = 1
      /\ \A i, j \in 1..Len(t) : i < j => t[i][1] < t[j][1]
  BY DEF TableOK, Rising
<1>2. Len(t) \in Nat /\ 1 \in 1..Len(t) /\ DOMAIN t = 1..Len(t)
      /\ \A i \in 1..Len(t) : t[i][1] \in Nat /\ t[i][2] \in Nat
  <2> HIDE DEF t
  <2> QED
    BY <1>1
<1>3. PerChunk(c) = t[CHOOSE i \in rows : Latest(i)][2]
  BY DEF PerChunk
<1> HIDE DEF t
<1>4. 1 \in rows /\ rows \in SUBSET (0..Len(t))
  BY <1>1, <1>2
<1>5. PICK r \in rows : \A m \in rows : m <= r
  <2> HIDE DEF rows
  <2> QED
    BY <1>2, <1>4, LastIn
<1>6. r \in 1..Len(t) /\ t[r][1] <= c /\ \A i \in 1..Len(t) : t[i][1] <= c => i <= r
  BY <1>2, <1>5
<1>7. Latest(r)
  <2> SUFFICES ASSUME NEW j \in rows PROVE t[j][1] <= t[r][1]
    OBVIOUS
  <2>1. j \in 1..Len(t) /\ j <= r
    BY <1>2, <1>5
  <2>2. j = r \/ j < r
    BY <1>2, <1>6, <2>1
  <2>3. j < r => t[j][1] < t[r][1]
    BY <1>1, <1>6, <2>1
  <2> QED
    BY <1>2, <1>6, <2>1, <2>2, <2>3
<1>8. \A i \in rows : Latest(i) => i = r
  <2> SUFFICES ASSUME NEW i \in rows, Latest(i) PROVE i = r
    OBVIOUS
  <2>1. i \in 1..Len(t) /\ i <= r /\ t[r][1] <= t[i][1]
    BY <1>2, <1>5
  <2>2. i < r => t[i][1] < t[r][1]
    BY <1>1, <1>6, <2>1
  <2>3. ~(i < r)
    BY <1>2, <1>6, <2>1, <2>2
  <2> QED
    BY <1>2, <1>6, <2>1, <2>3
<1>9. (CHOOSE i \in rows : Latest(i)) = r
  <2> HIDE DEF rows, Latest
  <2> QED
    BY <1>5, <1>7, <1>8, Zenon
<1>10. PerChunk(c) = t[r][2] /\ PerChunk(c) \in Nat
  BY <1>2, <1>3, <1>6, <1>9
<1> QED
  BY <1>6, <1>10 DEF t

LEMMA AdvancedIs ==
    ASSUME TableOK, mapping = index.stsc, next \in Nat \ {0},
           run \in 1..Len(mapping), mapping[run][1] <= next
    PROVE  /\ Advanced \in 1..Len(mapping) /\ mapping[Advanced][1] <= next
           /\ mapping[Advanced][2] = PerChunk(next)
<1> DEFINE Fits(r) == /\ r = run \/ mapping[r][1] <= next
                      /\ r < Len(mapping) => mapping[r + 1][1] > next
<1>1. /\ mapping \in Seq(Nat \X Nat)
      /\ \A i, j \in 1..Len(mapping) : i < j => mapping[i][1] < mapping[j][1]
  BY DEF TableOK, Rising
<1>2. Len(mapping) \in Nat /\ \A i \in 1..Len(mapping) : mapping[i][1] \in Nat
  <2>1. Len(mapping) \in Nat /\ \A i \in 1..Len(mapping) : mapping[i] \in Nat \X Nat
    BY <1>1, SMTT(30)
  <2> QED
    BY <2>1
<1>3. PICK r \in 1..Len(mapping) :
              /\ mapping[r][1] <= next
              /\ \A i \in 1..Len(mapping) : mapping[i][1] <= next => i <= r
              /\ PerChunk(next) = mapping[r][2]
  BY RowFor
<1>4. r \in run..Len(mapping)
  BY <1>2, <1>3
<1>5. Fits(r)
  <2> SUFFICES ASSUME r < Len(mapping) PROVE mapping[r + 1][1] > next
    BY <1>3
  <2>1. r + 1 \in 1..Len(mapping) /\ ~(r + 1 <= r)
    BY <1>2
  <2>2. ~(mapping[r + 1][1] <= next) /\ mapping[r + 1][1] \in Nat
    BY <1>2, <1>3, <2>1
  <2> QED
    BY <2>2
<1>6. ASSUME NEW x \in run..Len(mapping), Fits(x)
      PROVE  x = r
  <2>1. x \in 1..Len(mapping) /\ mapping[x][1] <= next
    BY <1>2, <1>6
  <2>2. x <= r
    BY <1>3, <2>1
  <2>3. ~(x < r)
    <3> SUFFICES ASSUME x < r PROVE FALSE
      OBVIOUS
    <3> DEFINE y == x + 1
    <3>1. y \in 1..Len(mapping) /\ y <= r /\ x < Len(mapping)
      BY <1>2, <2>1
    <3>2. mapping[y][1] > next
      BY <1>6, <3>1
    <3> HIDE DEF y
    <3>3. y < r => mapping[y][1] < mapping[r][1]
      BY <1>1, <3>1
    <3>4. y = r \/ y < r
      BY <1>2, <3>1
    <3>5. mapping[y][1] \in Nat /\ mapping[r][1] \in Nat
      BY <1>2, <3>1
    <3> QED
      BY <1>3, <3>2, <3>3, <3>4, <3>5, SMTT(30)
  <2> QED
    BY <1>2, <2>1, <2>2, <2>3
<1>7. Advanced = r
  <2>1. Advanced = CHOOSE x \in run..Len(mapping) : Fits(x)
    BY DEF Advanced
  <2> HIDE DEF Fits
  <2> QED
    BY <1>4, <1>5, <1>6, <2>1, Zenon
<1> QED
  BY <1>3, <1>7

LEMMA ChunksCount ==
    ASSUME TableOK, Chunks \in Nat
    PROVE  /\ \A c \in 1..Chunks : PerChunk(c) \in Nat /\ PerChunks[c] = PerChunk(c)
           /\ \A c \in 0..Chunks : Total(PerChunks, 1, c) \in Nat
           /\ \A c \in 1..Chunks :
                 Total(PerChunks, 1, c) = Total(PerChunks, 1, c - 1) + PerChunk(c)
           /\ \A c, e \in 0..Chunks : c <= e => Total(PerChunks, 1, c) <= Total(PerChunks, 1, e)
<1>1. \A c \in 1..Chunks : PerChunk(c) \in Nat /\ PerChunks[c] = PerChunk(c)
  <2> SUFFICES ASSUME NEW c \in 1..Chunks
               PROVE  PerChunk(c) \in Nat /\ PerChunks[c] = PerChunk(c)
    OBVIOUS
  <2>1. c \in Nat \ {0}
    OBVIOUS
  <2>2. PerChunk(c) \in Nat
    BY <2>1, RowFor
  <2> QED
    BY <2>2 DEF PerChunks
<1> DEFINE f == PerChunks
<1>2. \A c \in 1..Chunks : f[c] \in Nat /\ f[c] = PerChunk(c)
  BY <1>1
<1> HIDE DEF f
<1>3. ASSUME NEW c \in 0..Chunks, NEW e \in 0..Chunks, c <= e
      PROVE  Total(f, 1, c) \in Nat /\ Total(f, 1, c) <= Total(f, 1, e)
  <2>1. c \in Nat /\ e \in Nat /\ 1 \in Nat /\ 1 <= c + 1 /\ \A i \in 1..e : f[i] \in Nat
    BY <1>2, <1>3
  <2> QED
    BY <1>3, <2>1, TotalGrows
<1>4. ASSUME NEW c \in 1..Chunks
      PROVE  Total(f, 1, c) = Total(f, 1, c - 1) + PerChunk(c)
  <2> DEFINE n == c - 1
  <2>1. n \in Nat /\ c = n + 1 /\ 1 \in Nat /\ 1 <= n + 1
    OBVIOUS
  <2>2. \A i \in 1..(n + 1) : f[i] \in Nat
    BY <1>2
  <2> HIDE DEF n
  <2>3. Total(f, 1, n + 1) = Total(f, 1, n) + f[n + 1]
    BY <2>1, <2>2, TotalUp
  <2>4. Total(f, 1, c) = Total(f, 1, n) + PerChunk(c)
    BY <1>2, <2>1, <2>3
  <2> QED
    BY <2>4 DEF n
<1> QED
  BY <1>1, <1>3, <1>4 DEF f

LEMMA ChunkIs ==
    ASSUME TableOK, Chunks \in Nat, NEW c \in 1..Chunks, NEW i \in Nat,
           FirstIn(c) <= i, i < FirstIn(c) + PerChunk(c)
    PROVE  ChunkOf(i) = c
<1> DEFINE T(k) == Total(PerChunks, 1, k)
           Lies(k) == FirstIn(k) <= i /\ i < FirstIn(k) + PerChunk(k)
<1>1. /\ \A k \in 0..Chunks : T(k) \in Nat
      /\ \A k \in 1..Chunks : T(k) = T(k - 1) + PerChunk(k) /\ PerChunk(k) \in Nat
      /\ \A k, e \in 0..Chunks : k <= e => T(k) <= T(e)
  BY ChunksCount
<1>2. \A k : FirstIn(k) = 1 + T(k - 1)
  BY DEF FirstIn
<1> HIDE DEF T
<1>3. ASSUME NEW k \in 1..Chunks, Lies(k)
      PROVE  1 + T(k - 1) <= i /\ i < 1 + T(k)
  <2>1. k - 1 \in 0..Chunks
    OBVIOUS
  <2>2. T(k - 1) \in Nat /\ PerChunk(k) \in Nat /\ T(k) = T(k - 1) + PerChunk(k)
    BY <1>1, <2>1
  <2>3. 1 + T(k - 1) <= i /\ i < (1 + T(k - 1)) + PerChunk(k)
    BY <1>2, <1>3
  <2> DEFINE x == T(k - 1)
             p == PerChunk(k)
  <2>4. x \in Nat /\ p \in Nat /\ T(k) = x + p /\ 1 + x <= i /\ i < (1 + x) + p
    BY <2>2, <2>3
  <2> HIDE DEF x, p
  <2>5. 1 + x <= i /\ i < 1 + T(k)
    BY <2>4
  <2> QED
    BY <2>5 DEF x
<1>4. ASSUME NEW k \in 1..Chunks, NEW e \in 1..Chunks, k < e, Lies(k), Lies(e)
      PROVE  FALSE
  <2> DEFINE n == e - 1
  <2>1. n \in 0..Chunks /\ k \in 0..Chunks /\ k <= n
    BY <1>4
  <2>2. i < 1 + T(k) /\ 1 + T(n) <= i
    BY <1>3, <1>4
  <2> HIDE DEF n
  <2>3. T(k) <= T(n) /\ T(k) \in Nat /\ T(n) \in Nat
    BY <1>1, <2>1
  <2> QED
    BY <2>2, <2>3
<1>5. Lies(c)
  OBVIOUS
<1>6. \A k \in 1..Chunks : Lies(k) => k = c
  <2> HIDE DEF Lies
  <2> SUFFICES ASSUME NEW k \in 1..Chunks, Lies(k) PROVE k = c
    OBVIOUS
  <2>1. ~(k < c) /\ ~(c < k)
    BY <1>4, <1>5
  <2> QED
    BY <2>1
<1>7. ChunkOf(i) = CHOOSE k \in 1..Chunks : Lies(k)
  BY DEF ChunkOf
<1> HIDE DEF Lies
<1> QED
  BY <1>5, <1>6, <1>7, Zenon

InMediaData(s) == \E k \in DOMAIN index.boxes :
              /\ index.boxes[k].kind = "mdat"
              /\ index.boxes[k].start <= s.offset /\ s.offset + s.size <= index.boxes[k].end
Extended == \A i \in 1..Len(extents) : \E k \in DOMAIN index.boxes :
               /\ index.boxes[k].kind = "mdat"
               /\ extents[i] = <<index.boxes[k].start, index.boxes[k].end>>

LEMMA InMediaDataIs ==
    ASSUME extents \in Seq(Nat \X Nat), Extended, NEW s \in Sampled,
           Holds(s.offset, s.offset + s.size)
    PROVE  InMediaData(s)
<1> DEFINE a == s.offset
           e == s.offset + s.size
           before == {i \in DOMAIN extents : extents[i][1] <= a}
           Latest(i) == \A j \in before : j <= i
<1>1. Len(extents) \in Nat /\ DOMAIN extents = 1..Len(extents) /\ before \in SUBSET (0..Len(extents))
  OBVIOUS
<1>2. before # {} /\ e <= extents[CHOOSE i \in before : Latest(i)][2]
  BY DEF Holds
<1> HIDE DEF before
<1>3. \E n \in before : Latest(n)
  BY <1>1, <1>2, LastIn
<1>4. PICK n \in before : e <= extents[n][2]
  <2> HIDE DEF Latest, e
  <2> QED
    BY <1>2, <1>3, Zenon
<1>5. n \in 1..Len(extents) /\ extents[n][1] <= a
  BY <1>1 DEF before
<1>6. PICK k \in DOMAIN index.boxes : /\ index.boxes[k].kind = "mdat"
                                      /\ extents[n] = <<index.boxes[k].start, index.boxes[k].end>>
  BY <1>5 DEF Extended
<1>7. index.boxes[k].start <= a /\ e <= index.boxes[k].end
  BY <1>4, <1>5, <1>6
<1> QED
  BY <1>6, <1>7 DEF InMediaData

LEMMA TotalIsNat ==
    ASSUME NEW s \in Seq(Nat), NEW a \in Nat \ {0}, NEW j \in Int, j <= Len(s)
    PROVE  Total(s, a, j) \in Nat
<1>1. Len(s) \in Nat /\ \A x \in 1..Len(s) : s[x] \in Nat
  OBVIOUS
<1>2. \A x \in a..j : x \in 1..Len(s)
  BY <1>1
<1>3. \A x \in a..j : s[x] = s[x] /\ s[x] \in Nat
  BY <1>1, <1>2
<1>4. a \in Nat
  OBVIOUS
<1> QED
  BY <1>3, <1>4, TotalOfSame

(* A sample that lies behind those from n on, from o on.                     *)
SampleAt(o, sizes, lengths, n, i) ==
    [offset |-> o + Total(sizes, n + 1, i - 1), size |-> sizes[i],
     start |-> Total(lengths, 1, i - 1), duration |-> lengths[i]]

LaidFrom(o, sizes, ts, n, per) ==
    [k \in 1..per |-> [offset |-> o + Total(sizes, n + 1, n + k - 1), size |-> sizes[n + k],
                       start |-> ts[n + k][1], duration |-> ts[n + k][2]]]

LEMMA WithinRun ==
    ASSUME NEW n \in Nat, NEW per \in Nat, NEW k \in 1..per
    PROVE  1 + n <= n + k /\ n + k < (1 + n) + per /\ n + k \in Nat
OBVIOUS

Layable(o, sizes, lengths, ts, n, per) ==
    /\ sizes \in Seq(Nat) /\ lengths \in Seq(Nat) /\ Paced(ts, lengths)
    /\ n \in Nat /\ per \in Nat /\ n + per <= Len(sizes) /\ Len(lengths) = Len(sizes)
    /\ o \in Nat

WellLaid(laid, o, sizes, lengths, n, per) ==
    /\ laid \in Seq(Sampled) /\ Len(laid) = per
    /\ \A k \in 1..per : /\ n + k \in 1..Len(sizes)
                         /\ laid[k] = SampleAt(o, sizes, lengths, n, n + k)

(* Samples laid one after another.                                           *)
LEMMA LaidOut ==
    ASSUME NEW sizes, NEW lengths, NEW ts, NEW n, NEW per, NEW o,
           Layable(o, sizes, lengths, ts, n, per)
    PROVE  WellLaid(LaidFrom(o, sizes, ts, n, per), o, sizes, lengths, n, per)
<1> DEFINE laid == LaidFrom(o, sizes, ts, n, per)
           off(i) == o + Total(sizes, n + 1, i - 1)
           st(i) == Total(lengths, 1, i - 1)
<1>0. /\ sizes \in Seq(Nat) /\ lengths \in Seq(Nat) /\ Paced(ts, lengths)
      /\ n \in Nat /\ per \in Nat /\ n + per <= Len(sizes) /\ Len(lengths) = Len(sizes)
      /\ o \in Nat
  BY DEF Layable
<1>1. /\ Len(sizes) \in Nat /\ \A x \in 1..Len(sizes) : sizes[x] \in Nat /\ lengths[x] \in Nat
      /\ \A k \in 1..per : n + k \in 1..Len(sizes)
  <2> DEFINE m == Len(sizes)
  <2>1. m \in Nat /\ \A x \in 1..m : sizes[x] \in Nat
    BY <1>0
  <2>2. m = Len(lengths)
    BY <1>0
  <2>3. \A x \in 1..Len(lengths) : lengths[x] \in Nat
    BY <1>0
  <2>4. n + per <= m /\ n \in Nat /\ per \in Nat
    BY <1>0
  <2> HIDE DEF m
  <2>5. \A k \in 1..per : n + k \in 1..m
    BY <2>1, <2>4
  <2> QED
    BY <2>1, <2>2, <2>3, <2>5, Zenon DEF m
<1>2. ASSUME NEW i \in 1..Len(sizes)
      PROVE  off(i) \in Nat /\ st(i) \in Nat
  <2> DEFINE j == i - 1
  <2>1. j \in Int /\ j <= Len(sizes) /\ j <= Len(lengths)
    BY <1>0, <1>1
  <2> HIDE DEF j
  <2>2. n + 1 \in Nat \ {0} /\ 1 \in Nat \ {0}
    BY <1>0
  <2>3. Total(sizes, n + 1, j) \in Nat
    BY <1>0, <2>1, <2>2, TotalIsNat
  <2>4. Total(lengths, 1, j) \in Nat
    BY <1>0, <2>1, <2>2, TotalIsNat
  <2> QED
    BY <1>0, <2>3, <2>4, SMTT(30) DEF j
<1>3. \A i \in 1..Len(sizes) : ts[i] = <<st(i), lengths[i]>>
  BY <1>0, <1>1 DEF Paced
<1>4. laid = [k \in 1..per |-> [offset |-> off(n + k), size |-> sizes[n + k],
                                start |-> ts[n + k][1], duration |-> ts[n + k][2]]]
  BY <1>0 DEF LaidFrom
<1> HIDE DEF off, st, laid
<1>5. ASSUME NEW k \in 1..per
      PROVE  /\ laid[k] = [offset |-> off(n + k), size |-> sizes[n + k],
                           start |-> st(n + k), duration |-> lengths[n + k]]
             /\ laid[k] \in Sampled
  <2> DEFINE i == n + k
  <2>1. laid[k] = [offset |-> off(i), size |-> sizes[i], start |-> ts[i][1], duration |-> ts[i][2]]
    BY <1>4
  <2>2. i \in 1..Len(sizes)
    BY <1>1
  <2> HIDE DEF i
  <2>3. ts[i] = <<st(i), lengths[i]>>
    BY <1>3, <2>2
  <2>4. ts[i][1] = st(i) /\ ts[i][2] = lengths[i]
    BY <2>3
  <2>5. laid[k] = [offset |-> off(i), size |-> sizes[i], start |-> st(i), duration |-> lengths[i]]
    BY <2>1, <2>4
  <2>6. off(i) \in Nat /\ st(i) \in Nat /\ sizes[i] \in Nat /\ lengths[i] \in Nat
    BY <1>1, <1>2, <2>2
  <2>7. laid[k] \in Sampled
    BY <2>5, <2>6 DEF Sampled
  <2> QED
    BY <2>5, <2>7 DEF i
<1>6. laid \in Seq(Sampled) /\ Len(laid) = per
  <2>1. laid = [k \in 1..per |-> laid[k]]
    BY <1>4
  <2>2. \A k \in 1..per : laid[k] \in Sampled
    BY <1>5
  <2> DEFINE v(k) == laid[k]
  <2>3. laid = [k \in 1..per |-> v(k)] /\ \A k \in 1..per : v(k) \in Sampled
    BY <2>1, <2>2, Zenon
  <2> HIDE DEF v
  <2>4. [k \in 1..per |-> v(k)] \in Seq(Sampled) /\ Len([k \in 1..per |-> v(k)]) = per
    BY <1>0, <2>3
  <2> QED
    BY <2>3, <2>4, Zenon
<1>7. \A k \in 1..per : laid[k] = SampleAt(o, sizes, lengths, n, n + k)
  <2>1. \A i : SampleAt(o, sizes, lengths, n, i) =
                 [offset |-> off(i), size |-> sizes[i], start |-> st(i), duration |-> lengths[i]]
    BY Zenon DEF SampleAt, off, st
  <2> QED
    BY <1>5, <2>1, Zenon
<1> QED
  BY <1>1, <1>6, <1>7, Zenon DEF laid, WellLaid

LEMMA LaidOnward ==
    ASSUME NEW n \in Nat, NEW per \in Nat, NEW o
    PROVE  Laid(n, per, o) = LaidFrom(o, index.sizes, timings, n, per)
BY DEF Laid, LaidFrom

(* What the reader lays for a chunk is what the tables declare of its samples.*)
LEMMA LaidIs ==
    ASSUME TableOK, FileOK, Lengths \in Seq(Nat), Paced(timings, Lengths), Len(Lengths) = Count,
           next \in 1..Chunks,
           NEW n \in Nat, n = Total(PerChunks, 1, next - 1),
           NEW per \in Nat, per = PerChunk(next), n + per <= Count
    PROVE  LET laid == Laid(n, per, index.chunks[next])
           IN /\ laid \in Seq(Sampled) /\ Len(laid) = per
              /\ \A k \in 1..per : laid[k] = Declared(n + k)
<1> DEFINE o == index.chunks[next]
           sizes == index.sizes
           laid == Laid(n, per, o)
<1>1. /\ sizes \in Seq(Nat) /\ Chunks \in Nat /\ o \in Nat /\ Count = Len(sizes)
  <2>1. index.chunks \in Seq(Nat) /\ index.sizes \in Seq(Nat)
    BY DEF FileOK, Mp4FileType
  <2>2. Chunks = Len(index.chunks) /\ Count = Len(index.sizes)
    BY DEF Chunks, Count
  <2> DEFINE cs == index.chunks
             m == Chunks
  <2>3. cs \in Seq(Nat) /\ m = Len(cs) /\ next \in 1..m
    BY <2>1, <2>2
  <2> HIDE DEF cs, m
  <2>4. m \in Nat /\ cs[next] \in Nat
    BY <2>3
  <2> QED
    BY <2>1, <2>2, <2>4, Zenon DEF cs, m
<1>2. laid = LaidFrom(o, sizes, timings, n, per)
  BY LaidOnward, Zenon
<1>3. o = index.chunks[next] /\ sizes = index.sizes
  OBVIOUS
<1> HIDE DEF laid, o, sizes
<1>4. n + per <= Len(sizes) /\ Len(Lengths) = Len(sizes)
  BY <1>1
<1>5. /\ laid \in Seq(Sampled) /\ Len(laid) = per
      /\ \A k \in 1..per : /\ n + k \in 1..Len(sizes)
            /\ laid[k] = SampleAt(o, sizes, Lengths, n, n + k)
  <2>1. Layable(o, sizes, Lengths, timings, n, per)
    BY <1>1, <1>4 DEF Layable
  <2>2. WellLaid(LaidFrom(o, sizes, timings, n, per), o, sizes, Lengths, n, per)
    BY <2>1, LaidOut, Zenon
  <2>3. WellLaid(laid, o, sizes, Lengths, n, per)
    BY <1>2, <2>2, Zenon
  <2> QED
    BY <2>3, Zenon DEF WellLaid
<1>6. ASSUME NEW k \in 1..per
      PROVE  laid[k] = Declared(n + k)
  <2> DEFINE i == n + k
  <2>1. FirstIn(next) = 1 + n
    BY DEF FirstIn
  <2>2. 1 + n <= i /\ i < (1 + n) + per /\ i \in Nat
    BY WithinRun
  <2>3. laid[k] = SampleAt(o, sizes, Lengths, n, i)
    BY <1>5, Zenon
  <2> HIDE DEF i
  <2>4. FirstIn(next) <= i /\ i < FirstIn(next) + PerChunk(next)
    BY <2>1, <2>2
  <2>5. ChunkOf(i) = next
    BY <1>1, <2>2, <2>4, ChunkIs
  <2>6. OffsetOf(i) = o + Total(sizes, FirstIn(next), i - 1)
    BY <1>3, <2>5, Zenon DEF OffsetOf
  <2>7. FirstIn(next) = n + 1
    BY <2>1
  <2>8. OffsetOf(i) = o + Total(sizes, n + 1, i - 1)
    BY <2>6, <2>7, Zenon
  <2>9. Declared(i) = laid[k]
    BY <1>3, <2>3, <2>8, Zenon DEF Declared, SampleAt
  <2> QED
    BY <2>9 DEF i
<1> QED
  BY <1>3, <1>5, <1>6 DEF laid

(* What is computed from the file alone.                                     *)
TablesSame ==
    /\ Count' = Count /\ Chunks' = Chunks /\ Runs' = Runs /\ Lengths' = Lengths
    /\ PerChunks' = PerChunks /\ FileOK' = FileOK /\ TableOK' = TableOK
    /\ \A i : PerChunk(i)' = PerChunk(i)
    /\ \A i : Declared(i)' = Declared(i)
    /\ \A s : InMediaData(s)' = InMediaData(s)
    /\ \A t : Position(t)' = Position(t)
    /\ \A t : Moment(t)' = Moment(t)
    /\ \A t : Opening(t)' = Opening(t)
    /\ \A c : WithinEdit(c)' = WithinEdit(c)
    /\ \A s : Presented(s)' = Presented(s)
    /\ Beats' = Beats

LEMMA FileStays == ASSUME index' = index PROVE TablesSame
<1>1. Count' = Count /\ Chunks' = Chunks
  BY DEF Count, Chunks
<1>2. Runs' = Runs
  BY DEF Runs
<1>3. Lengths' = Lengths
  BY <1>2 DEF Lengths
<1>4. \A i : PerChunk(i)' = PerChunk(i)
  BY DEF PerChunk
<1>5. PerChunks' = PerChunks
  BY <1>1, <1>4 DEF PerChunks
<1>6. FileOK' = FileOK /\ TableOK' = TableOK
  BY DEF FileOK, TableOK
<1>7. \A i : FirstIn(i)' = FirstIn(i)
  BY <1>5 DEF FirstIn
<1>8. \A i : ChunkOf(i)' = ChunkOf(i)
  BY <1>1, <1>4, <1>7 DEF ChunkOf
<1>9. \A i : OffsetOf(i)' = OffsetOf(i)
  BY <1>7, <1>8 DEF OffsetOf
<1>10. \A i : Declared(i)' = Declared(i)
  BY <1>3, <1>9 DEF Declared
<1>11. \A s : InMediaData(s)' = InMediaData(s)
  BY DEF InMediaData
<1>12. Beats' = Beats
  BY DEF Beats
<1>13. \A t : Position(t)' = Position(t)
  BY DEF Position
<1>14. \A t : Moment(t)' = Moment(t)
  BY <1>12, <1>13 DEF Moment
<1>15. \A t : Opening(t)' = Opening(t)
  BY <1>14 DEF Opening
<1>16. \A c : WithinEdit(c)' = WithinEdit(c)
  BY DEF WithinEdit
<1>17. Begin' = Begin /\ Limit' = Limit
  BY DEF Begin, Limit
<1>18. \A n : Converts(n)' = Converts(n)
  BY <1>17 DEF Converts
<1>19. \A s : Presented(s)' = Presented(s)
  BY <1>17, <1>18 DEF Presented
<1> QED
  BY <1>1, <1>2, <1>3, <1>4, <1>5, <1>6, <1>10, <1>11, <1>12, <1>13, <1>14, <1>15, <1>16, <1>19
     DEF TablesSame

(* While a table is read, what stands is what the rows so far say; once it   *)
(* has been read, what all of them say; each step of the reading has the     *)
(* tables before it whole.                                                   *)
TimesRead ==
    /\ step = "boxes" => timings = <<>>
    /\ step = "stts" => next <= Len(index.stts) + 1 /\ Paced(timings, Flat(Runs, next - 1))
    /\ step \in {"stsc", "chunks", "samples", "done", "failed"} =>
          Paced(timings, Lengths) /\ Len(Lengths) = Count
ChunksRead ==
    /\ step \in {"boxes", "stts"} => mapping = <<>>
    /\ step = "stsc" => /\ next <= Len(index.stsc) + 1 /\ Len(mapping) = next - 1
                        /\ \A i \in 1..(next - 1) : mapping[i] = index.stsc[i]
                        /\ Rising(mapping)
    /\ step \in {"chunks", "samples", "done", "failed"} =>
          IF Chunks = 0 THEN Count = 0 ELSE TableOK /\ mapping = index.stsc
LaidUpTo(c) ==
    /\ Len(placed) = Total(PerChunks, 1, c) /\ Len(placed) <= Count
    /\ \A i \in 1..Len(placed) : placed[i] = Declared(i) /\ InMediaData(placed[i])
SamplesLaid ==
    /\ step \in {"boxes", "stts", "stsc"} => placed = <<>> /\ run = 1
    /\ step = "chunks" =>
          /\ next <= Chunks + 1 /\ LaidUpTo(next - 1)
          /\ Chunks # 0 => run \in 1..Len(mapping) /\ mapping[run][1] <= next
    /\ step \in {"samples", "done", "failed"} =>
          LaidUpTo(Chunks) /\ Len(placed) = Count /\ Disjoint(placed)
ShownBefore(n) == {i \in Visible : i < n}
(* No caption yet starts later than a sample to come is shown.               *)
CaptionsMade ==
    /\ step \in {"boxes", "stts", "stsc", "chunks"} => captions = <<>>
    /\ \A i \in 1..Len(captions) :
          /\ Lasting(captions[i]) /\ WithinEdit(captions[i])
          /\ i > 1 => captions[i - 1].start <= captions[i].start
    /\ step = "samples" =>
          /\ next <= Count + 1 /\ Len(captions) = Cardinality(ShownBefore(next))
          /\ captions # <<>> => \A j \in next..Count :
                captions[Len(captions)].start <= Opening(placed[j].start)
    /\ step = "done" => Len(captions) = Cardinality(Visible)
Mp4Inv == FileOK /\ Mp4TypeOK /\ Extended /\ TimesRead /\ ChunksRead /\ SamplesLaid /\ CaptionsMade

LEMMA FileTyped ==
    ASSUME FileOK
    PROVE  /\ Count \in Nat /\ Chunks \in Nat
           /\ index.sizes \in Seq(Nat) /\ Count = Len(index.sizes)
           /\ index.chunks \in Seq(Nat) /\ Chunks = Len(index.chunks)
           /\ index.stts \in Seq(Nat \X Nat) /\ index.stsc \in Seq(Nat \X Nat)
           /\ Len(index.stts) \in Nat /\ Len(index.stsc) \in Nat
           /\ \A i \in 1..Len(index.stts) : index.stts[i] \in Nat \X Nat
           /\ \A i \in 1..Len(index.stsc) : index.stsc[i] \in Nat \X Nat
<1>1. /\ index.sizes \in Seq(Nat) /\ index.chunks \in Seq(Nat)
      /\ index.stts \in Seq(Nat \X Nat) /\ index.stsc \in Seq(Nat \X Nat)
  BY DEF FileOK, Mp4FileType
<1>2. Count = Len(index.sizes) /\ Chunks = Len(index.chunks)
  BY DEF Count, Chunks
<1>3. Count \in Nat /\ Chunks \in Nat
  BY <1>1, <1>2
<1>4. /\ Len(index.stts) \in Nat /\ Len(index.stsc) \in Nat
      /\ \A i \in 1..Len(index.stts) : index.stts[i] \in Nat \X Nat
      /\ \A i \in 1..Len(index.stsc) : index.stsc[i] \in Nat \X Nat
  BY <1>1
<1> QED
  BY <1>1, <1>2, <1>3, <1>4

LEMMA RunsTyped ==
    ASSUME FileOK
    PROVE  /\ Lengths = Flat(Runs, Len(index.stts)) /\ Lengths \in Seq(Nat)
           /\ \A n \in 0..Len(index.stts) : Flat(Runs, n) \in Seq(Nat)
           /\ \A n \in 1..Len(index.stts) :
                 Flat(Runs, n) = Flat(Runs, n - 1)
                                 \o [k \in 1..index.stts[n][1] |-> index.stts[n][2]]
<1> DEFINE t == index.stts
           One(r) == [k \in 1..t[r][1] |-> t[r][2]]
           rs == Runs
<1>1. t \in Seq(Nat \X Nat) /\ Len(t) \in Nat
  BY FileTyped
<1>2. rs = [r \in DOMAIN t |-> One(r)]
  BY DEF Runs
<1> HIDE DEF t, rs
<1>3. ASSUME NEW r \in 1..Len(t)
      PROVE  One(r) \in Seq(Nat)
  <2> DEFINE c == t[r][1]
             d == t[r][2]
  <2>1. c \in Nat /\ d \in Nat
    BY <1>1
  <2> HIDE DEF c, d
  <2>2. [k \in 1..c |-> d] \in Seq(Nat)
    BY <2>1
  <2> QED
    BY <2>2 DEF c, d
<1> HIDE DEF One
<1>4. DOMAIN t = 1..Len(t)
  BY <1>1
<1>5. rs \in Seq(Seq(Nat)) /\ Len(rs) = Len(t) /\ \A r \in 1..Len(t) : rs[r] = One(r)
  <2> DEFINE m == Len(t)
  <2>1. m \in Nat /\ rs = [r \in 1..m |-> One(r)] /\ \A r \in 1..m : One(r) \in Seq(Nat)
    BY <1>1, <1>2, <1>3, <1>4
  <2> HIDE DEF m
  <2>2. rs \in Seq(Seq(Nat)) /\ Len(rs) = m /\ \A r \in 1..m : rs[r] = One(r)
    BY <2>1
  <2> QED
    BY <2>2 DEF m
<1>6. FlattenSeq(rs) = Flat(rs, Len(t))
  BY <1>5, FlatWhole
<1>7. /\ \A n \in 0..Len(t) : Flat(rs, n) \in Seq(Nat)
      /\ \A n \in 0..(Len(t) - 1) : Flat(rs, n + 1) = Flat(rs, n) \o rs[n + 1]
  BY <1>5, FlatSteps
<1>8. ASSUME NEW n \in 1..Len(t)
      PROVE  Flat(rs, n) = Flat(rs, n - 1) \o One(n)
  <2> DEFINE m == n - 1
  <2>1. m \in 0..(Len(t) - 1) /\ n = m + 1
    BY <1>1
  <2> HIDE DEF m
  <2>2. Flat(rs, n) = Flat(rs, m) \o One(n)
    BY <1>5, <1>7, <2>1
  <2> QED
    BY <2>2 DEF m
<1>9. Len(t) \in 0..Len(t)
  BY <1>1
<1>10. Lengths = Flat(rs, Len(t)) /\ Lengths \in Seq(Nat)
  BY <1>6, <1>7, <1>9 DEF Lengths, rs
<1> QED
  BY <1>7, <1>8, <1>10, Zenon DEF t, rs, One

-----------------------------------------------------------------------------
(* The table of times.                                                       *)
LEMMA TimesReadKept ==
    ASSUME Mp4Inv, Mp4Next
    PROVE  TimesRead' /\ timings' \in Seq(Nat \X Nat)
<1>1. /\ FileOK /\ TimesRead /\ timings \in Seq(Nat \X Nat) /\ next \in Nat \ {0}
  BY DEF Mp4Inv, Mp4TypeOK
<1>2. index' = index
  BY DEF Mp4Next, NextBox, Timing, Mapping, Chunk, Sample
<1>3. TablesSame
  BY <1>2, FileStays
<1>4. CASE NextBox
  <2>1. timings' = timings /\ timings = <<>> /\ step = "boxes"
    BY <1>1, <1>4 DEF NextBox, Goes, Stays, Stops, TimesRead
  <2>2. \/ step' \in {"boxes", "refused"}
        \/ step' = "stts" /\ next' = 1
    BY <1>4 DEF NextBox, Goes, Stays, Stops
  <2>3. CASE step' \in {"boxes", "refused"}
    BY <1>1, <2>1, <2>3 DEF TimesRead
  <2>4. CASE step' = "stts" /\ next' = 1
    <3>2. Paced(timings, <<>>)
      BY <2>1 DEF Paced
    <3>3. next' <= Len(index'.stts) + 1
      BY <1>1, <1>2, <2>4, FileTyped
    <3>4. Paced(timings, Flat(Runs, next - 1))'
      <4>1. next' - 1 = 0
        BY <2>4
      <4>2. Flat(Runs, next - 1)' = <<>>
        BY <4>1 DEF Flat
      <4> QED
        BY <2>1, <3>2, <4>2
    <3> QED
      BY <1>1, <2>1, <2>4, <3>3, <3>4 DEF TimesRead
  <2> QED
    BY <2>2, <2>3, <2>4
<1>5. CASE Timing
  <2>1. step = "stts" /\ next <= Len(index.stts) + 1 /\ Paced(timings, Flat(Runs, next - 1))
    BY <1>1, <1>5 DEF Timing, TimesRead
  <2>2. CASE next > Len(index.stts)
    <3>1. /\ timings' = timings
          /\ \/ step' = "refused"
             \/ step' = "stsc" /\ Len(timings) = Count
      <4>1. CASE Ended # index.duration \/ Len(timings) # Count
        <5>1. Stops("refused")
          BY <1>5, <2>2, <4>1, Zenon DEF Timing
        <5> QED
          BY <5>1 DEF Stops
      <4>2. CASE ~(Ended # index.duration \/ Len(timings) # Count)
        BY <1>5, <2>2, <4>2 DEF Timing, Goes
      <4> QED
        BY <4>1, <4>2
    <3>2. CASE step' = "refused"
      BY <1>1, <3>1, <3>2 DEF TimesRead
    <3>3. CASE step' = "stsc" /\ Len(timings) = Count
      <4>1. next - 1 = Len(index.stts)
        BY <1>1, <2>1, <2>2, FileTyped
      <4>2. Paced(timings, Lengths)
        BY <1>1, <2>1, <4>1, RunsTyped
      <4>3. Len(Lengths) = Count
        BY <3>3, <4>2 DEF Paced
      <4> QED
        BY <1>1, <1>3, <3>1, <3>3, <4>2, <4>3 DEF TimesRead, TablesSame
    <3> QED
      BY <3>1, <3>2, <3>3
  <2>3. CASE ~(next > Len(index.stts))
    <3> DEFINE row == index.stts[next]
               l == Flat(Runs, next - 1)
    <3>1. next \in 1..Len(index.stts) /\ next - 1 \in 0..Len(index.stts)
      BY <1>1, <2>3, FileTyped, SMTT(30)
    <3>2. row[1] \in Nat /\ row[2] \in Nat
      BY <1>1, <3>1, FileTyped
    <3>3. l \in Seq(Nat) /\ Flat(Runs, next) = l \o [k \in 1..row[1] |-> row[2]]
      BY <1>1, <3>1, RunsTyped
    <3>4. \/ step' = "refused" /\ timings' = timings
          \/ /\ step' = "stts" /\ next' = next + 1
             /\ timings' = timings \o RunFrom(EndOf(timings), row[1], row[2])
      BY <1>5, <2>3 DEF Timing, Stays, Stops, RunFrom, EndOf, Ended
    <3>5. CASE step' = "refused" /\ timings' = timings
      BY <1>1, <3>5 DEF TimesRead
    <3>6. CASE /\ step' = "stts" /\ next' = next + 1
               /\ timings' = timings \o RunFrom(EndOf(timings), row[1], row[2])
      <4>1. /\ timings' \in Seq(Nat \X Nat)
            /\ Paced(timings', l \o [k \in 1..row[1] |-> row[2]])
        <5>1. Paced(timings, l)
          BY <2>1
        <5> DEFINE c == row[1]
                   d == row[2]
        <5>2. c \in Nat /\ d \in Nat /\ timings' = timings \o RunFrom(EndOf(timings), c, d)
          BY <3>2, <3>6
        <5> HIDE DEF l, c, d
        <5>3. /\ timings' \in Seq(Nat \X Nat)
              /\ Paced(timings', l \o [k \in 1..c |-> d])
          BY <1>1, <3>3, <5>1, <5>2, PacedGoesOn
        <5> QED
          BY <5>3 DEF c, d
      <4>2. next' - 1 = next /\ next' <= Len(index.stts) + 1
        BY <1>1, <3>1, <3>6, FileTyped
      <4>3. Flat(Runs, next - 1)' = Flat(Runs, next)
        BY <1>3, <4>2, Zenon DEF TablesSame
      <4>4. Paced(timings, Flat(Runs, next - 1))'
        BY <3>3, <4>1, <4>3
      <4> HIDE DEF row, l
      <4> QED
        BY <1>2, <3>6, <4>1, <4>2, <4>4 DEF TimesRead
    <3> QED
      BY <3>4, <3>5, <3>6
  <2> QED
    BY <2>2, <2>3
<1>6. CASE Mapping \/ Chunk \/ Sample
  <2>1. timings' = timings /\ step \in {"stsc", "chunks", "samples"}
    BY <1>6 DEF Mapping, Chunk, Sample, Goes, Stays, Stops
  <2>2. step' \in {"stsc", "chunks", "samples", "done", "failed", "refused"}
    BY <1>6 DEF Mapping, Chunk, Sample, Goes, Stays, Stops
  <2>3. Paced(timings, Lengths) /\ Len(Lengths) = Count
    BY <1>1, <2>1 DEF TimesRead
  <2> QED
    BY <1>1, <1>3, <2>1, <2>2, <2>3 DEF TimesRead, TablesSame
<1> QED
  BY <1>4, <1>5, <1>6 DEF Mp4Next

(* The media data found, and the table of chunks.                            *)
LEMMA ExtendedKept ==
    ASSUME Mp4Inv, Mp4Next
    PROVE  Extended' /\ extents' \in Seq(Nat \X Nat)
<1>1. /\ FileOK /\ Extended /\ extents \in Seq(Nat \X Nat) /\ next \in Nat \ {0}
  BY DEF Mp4Inv, Mp4TypeOK
<1>2. index' = index
  BY DEF Mp4Next, NextBox, Timing, Mapping, Chunk, Sample
<1>3. CASE extents' = extents
  BY <1>1, <1>2, <1>3 DEF Extended
<1>4. CASE extents' # extents
  <2> DEFINE b == index.boxes[next]
             x == <<b.start, b.end>>
  <2>1. extents' = Append(extents, x) /\ b.kind = "mdat" /\ ~(next > Len(index.boxes))
    BY <1>4 DEF Mp4Next, NextBox, Timing, Mapping, Chunk, Sample, Goes, Stays, Stops
  <2>2. /\ next \in DOMAIN index.boxes
        /\ b \in [kind : {"ftyp", "moov", "mdat", "moof", "free", "broken"}, start : Nat, end : Nat]
    <3> DEFINE R == [kind : {"ftyp", "moov", "mdat", "moof", "free", "broken"},
                     start : Nat, end : Nat]
               s == index.boxes
    <3>1. s \in Seq(R)
      BY <1>1 DEF FileOK, Mp4FileType
    <3>2. next \in Nat \ {0} /\ ~(next > Len(s))
      BY <1>1, <2>1
    <3> HIDE DEF s, R
    <3>3. next \in DOMAIN s /\ s[next] \in R
      BY <3>1, <3>2
    <3> QED
      BY <3>3 DEF s, R
  <2>3. x \in Nat \X Nat
    <3> HIDE DEF b
    <3> QED
      BY <2>2
  <2>4. /\ extents' \in Seq(Nat \X Nat) /\ Len(extents') = Len(extents) + 1
        /\ extents'[Len(extents) + 1] = x
        /\ \A i \in 1..Len(extents) : extents'[i] = extents[i]
        /\ \A i \in 1..Len(extents') : i \in 1..Len(extents) \/ i = Len(extents) + 1
    <3> HIDE DEF x, b
    <3> QED
      BY <1>1, <2>1, <2>3
  <2>5. ASSUME NEW i \in 1..Len(extents')
        PROVE  \E k \in DOMAIN index.boxes :
                  /\ index.boxes[k].kind = "mdat"
                  /\ extents'[i] = <<index.boxes[k].start, index.boxes[k].end>>
    <3>1. CASE i \in 1..Len(extents)
      BY <1>1, <2>4, <3>1 DEF Extended
    <3>2. CASE i = Len(extents) + 1
      BY <2>1, <2>2, <2>4, <3>2
    <3> QED
      BY <2>4, <3>1, <3>2
  <2> QED
    BY <1>2, <2>4, <2>5 DEF Extended
<1> QED
  BY <1>3, <1>4

LEMMA ChunksReadKept ==
    ASSUME Mp4Inv, Mp4Next
    PROVE  ChunksRead' /\ mapping' \in Seq(Nat \X Nat)
<1>1. /\ FileOK /\ ChunksRead /\ mapping \in Seq(Nat \X Nat) /\ next \in Nat \ {0}
  BY DEF Mp4Inv, Mp4TypeOK
<1>2. index' = index
  BY DEF Mp4Next, NextBox, Timing, Mapping, Chunk, Sample
<1>3. TablesSame
  BY <1>2, FileStays
<1>4. CASE NextBox \/ Timing
  <2>1. mapping' = mapping /\ mapping = <<>>
    BY <1>1, <1>4 DEF NextBox, Timing, Goes, Stays, Stops, ChunksRead
  <2>2. \/ step' \in {"boxes", "stts", "refused"}
        \/ step' = "stsc" /\ next' = 1
    BY <1>4 DEF NextBox, Timing, Goes, Stays, Stops
  <2>3. CASE step' \in {"boxes", "stts", "refused"}
    BY <1>1, <2>1, <2>3 DEF ChunksRead
  <2>4. CASE step' = "stsc" /\ next' = 1
    <3>1. next' <= Len(index'.stsc) + 1
      BY <1>1, <1>2, <2>4, FileTyped
    <3>2. Len(mapping') = next' - 1 /\ \A i \in 1..(next' - 1) : mapping'[i] = index'.stsc[i]
      BY <2>1, <2>4
    <3>3. Rising(mapping)'
      BY <2>1 DEF Rising
    <3> QED
      BY <1>1, <2>1, <2>4, <3>1, <3>2, <3>3 DEF ChunksRead
  <2> QED
    BY <2>2, <2>3, <2>4
<1>5. CASE Mapping
  <2> DEFINE t == index.stsc
  <2>1. /\ step = "stsc" /\ next <= Len(t) + 1 /\ Len(mapping) = next - 1
        /\ \A i \in 1..(next - 1) : mapping[i] = t[i]
        /\ Rising(mapping)
    BY <1>1, <1>5 DEF Mapping, ChunksRead
  <2>2. /\ t \in Seq(Nat \X Nat) /\ Len(t) \in Nat /\ Chunks \in Nat /\ Count \in Nat
        /\ \A i \in 1..Len(t) : t[i] \in Nat \X Nat
    BY <1>1, FileTyped
  <2>3. CASE next > Len(t)
    <3>1. mapping' = mapping
          /\ (step' = "refused" \/ step' = "chunks")
      BY <1>5, <2>3 DEF Mapping, Goes, Stops
    <3>2. CASE step' = "refused"
      BY <1>1, <3>1, <3>2 DEF ChunksRead
    <3>3. CASE step' = "chunks"
      <4>1. ~ \/ Chunks > 0 /\ (mapping = <<>> \/ mapping[1][1] # 1)
              \/ Chunks = 0 /\ Count # 0
        BY <1>5, <2>3, <3>3 DEF Mapping, Stops
      <4>2. mapping = t
        <5>1. next - 1 = Len(t)
          BY <1>1, <2>1, <2>2, <2>3
        <5>2. Len(mapping) = Len(t) /\ \A i \in 1..Len(t) : mapping[i] = t[i]
          BY <2>1, <5>1
        <5> HIDE DEF t
        <5> QED
          BY <1>1, <2>2, <5>2, SeqEqual
      <4>3. CASE Chunks = 0
        <5>1. Count = 0
          BY <4>1, <4>3
        <5> QED
          BY <1>1, <1>3, <3>1, <3>3, <4>3, <5>1 DEF ChunksRead, TablesSame
      <4>4. CASE Chunks # 0
        <5>1. mapping # <<>> /\ mapping[1][1] = 1
          BY <2>2, <4>1, <4>4
        <5>2. TableOK
          BY <2>1, <2>2, <4>2, <5>1 DEF TableOK
        <5>3. TableOK' /\ mapping' = index'.stsc
          BY <1>2, <1>3, <3>1, <4>2, <5>2 DEF TablesSame
        <5> QED
          BY <1>1, <1>3, <3>1, <3>3, <4>4, <5>3 DEF ChunksRead, TablesSame
      <4> QED
        BY <4>3, <4>4
    <3> QED
      BY <3>1, <3>2, <3>3
  <2>4. CASE ~(next > Len(t))
    <3> DEFINE row == t[next]
    <3>1. next \in 1..Len(t) /\ row \in Nat \X Nat
      BY <1>1, <2>2, <2>4
    <3>2. \/ step' = "refused" /\ mapping' = mapping
          \/ /\ step' = "stsc" /\ next' = next + 1 /\ mapping' = Append(mapping, row)
             /\ ~(mapping # <<>> /\ mapping[Len(mapping)][1] >= row[1])
      BY <1>5, <2>4 DEF Mapping, Stays, Stops
    <3>3. CASE step' = "refused" /\ mapping' = mapping
      BY <1>1, <3>3 DEF ChunksRead
    <3>4. CASE /\ step' = "stsc" /\ next' = next + 1 /\ mapping' = Append(mapping, row)
               /\ ~(mapping # <<>> /\ mapping[Len(mapping)][1] >= row[1])
      <4> DEFINE n == Len(mapping)
      <4>1. n \in Nat /\ next = n + 1 /\ next' = (n + 1) + 1 /\ n + 1 <= Len(t)
        BY <1>1, <2>1, <2>2, <3>1, <3>4
      <4>2. /\ mapping' \in Seq(Nat \X Nat) /\ Len(mapping') = n + 1 /\ mapping'[n + 1] = row
            /\ \A i \in 1..n : mapping'[i] = mapping[i]
            /\ \A i \in 1..n : mapping[i] \in Nat \X Nat
        <5> HIDE DEF row
        <5> QED
          BY <1>1, <3>1, <3>4
      <4>3. \A i \in 1..n : mapping[i] = t[i]
        BY <2>1, <4>1
      <4>4. row = t[n + 1]
        BY <4>1
      <4>5. \A i, j \in 1..n : i < j => mapping[i][1] < mapping[j][1]
        BY <2>1 DEF Rising
      <4>6. n # 0 => mapping[n][1] < row[1]
        <5> SUFFICES ASSUME n # 0 PROVE mapping[n][1] < row[1]
          OBVIOUS
        <5>1. mapping # <<>>
          BY <4>1
        <5>2. mapping[n][1] \in Nat /\ row[1] \in Nat
          <6> HIDE DEF n, row
          <6>1. n \in 1..n
            BY <4>1
          <6>2. mapping[n] \in Nat \X Nat
            BY <4>2, <6>1
          <6> QED
            BY <3>1, <6>2
        <5>3. ~(mapping[n][1] >= row[1])
          BY <3>4, <5>1
        <5> QED
          BY <5>2, <5>3
      <4> HIDE DEF n, row, t
      <4>7. ASSUME NEW i \in 1..(n + 1), NEW j \in 1..(n + 1), i < j
            PROVE  mapping'[i][1] < mapping'[j][1]
        <5>1. i \in 1..n /\ (j \in 1..n \/ j = n + 1)
          BY <4>1, <4>7
        <5>2. mapping'[i] = mapping[i]
          BY <4>2, <5>1
        <5>3. CASE j \in 1..n
          BY <4>2, <4>5, <4>7, <5>1, <5>2, <5>3
        <5>4. CASE j = n + 1
          <6>1. n # 0 /\ n \in 1..n
            BY <4>1, <5>1
          <6>2. mapping[i][1] \in Nat /\ mapping[n][1] \in Nat /\ row[1] \in Nat
            BY <3>1, <4>2, <5>1, <6>1
          <6>3. i = n \/ i < n
            BY <4>1, <5>1
          <6>4. i < n => mapping[i][1] < mapping[n][1]
            BY <4>5, <5>1, <6>1
          <6>5. mapping[i][1] <= mapping[n][1]
            BY <6>2, <6>3, <6>4
          <6>6. mapping[i][1] < row[1]
            BY <4>6, <6>1, <6>2, <6>5
          <6> QED
            BY <4>2, <5>2, <5>4, <6>6
        <5> QED
          BY <5>1, <5>3, <5>4
      <4>8. Rising(mapping')
        BY <4>2, <4>7 DEF Rising
      <4>9. next' - 1 = n + 1 /\ next' <= Len(t) + 1
        BY <2>2, <4>1
      <4>10. \A i \in 1..(n + 1) : mapping'[i] = t[i]
        <5>1. \A i \in 1..(n + 1) : i \in 1..n \/ i = n + 1
          BY <4>1
        <5> QED
          BY <4>2, <4>3, <4>4, <5>1
      <4>11. t = index'.stsc
        BY <1>2 DEF t
      <4>12. /\ next' <= Len(index'.stsc) + 1 /\ Len(mapping') = next' - 1
             /\ \A i \in 1..(next' - 1) : mapping'[i] = index'.stsc[i]
        BY <4>2, <4>9, <4>10, <4>11
      <4>13. Rising(mapping)'
        BY <4>8 DEF Rising
      <4> QED
        BY <3>4, <4>2, <4>12, <4>13 DEF ChunksRead
    <3> QED
      BY <3>2, <3>3, <3>4
  <2> QED
    BY <2>3, <2>4
<1>6. CASE Chunk \/ Sample
  <2>1. mapping' = mapping /\ step \in {"chunks", "samples"}
    BY <1>6 DEF Chunk, Sample, Goes, Stays, Stops
  <2>2. step' \in {"chunks", "samples", "done", "failed", "refused"}
    BY <1>6 DEF Chunk, Sample, Goes, Stays, Stops
  <2>3. IF Chunks = 0 THEN Count = 0 ELSE TableOK /\ mapping = index.stsc
    BY <1>1, <2>1 DEF ChunksRead
  <2>4. IF Chunks' = 0 THEN Count' = 0 ELSE TableOK' /\ mapping' = index'.stsc
    BY <1>2, <1>3, <2>1, <2>3 DEF TablesSame
  <2> QED
    BY <1>1, <2>1, <2>2, <2>4 DEF ChunksRead
<1> QED
  BY <1>4, <1>5, <1>6 DEF Mp4Next

(* The samples of one chunk.                                                 *)
LEMMA ChunkLaid ==
    ASSUME Mp4Inv, Chunk, ~(next > Chunks), step' # "refused", NEW c, c = next
    PROVE  /\ placed' \in Seq(Sampled) /\ LaidUpTo(c)'
           /\ run' \in 1..Len(mapping) /\ mapping[run'][1] <= next
           /\ mapping' = mapping /\ next' = next + 1 /\ step' = "chunks"
<1>1. /\ FileOK /\ ChunksRead /\ SamplesLaid /\ TimesRead /\ Extended /\ next \in Nat \ {0}
      /\ placed \in Seq(Sampled) /\ extents \in Seq(Nat \X Nat)
  BY DEF Mp4Inv, Mp4TypeOK, Sampled
<1>2. index' = index
  BY DEF Chunk
<1>3. TablesSame
  BY <1>2, FileStays
<1>4. step = "chunks"
  BY DEF Chunk
<1>5. /\ Chunks \in Nat /\ Count \in Nat
  BY <1>1, FileTyped
<1>6. next \in 1..Chunks /\ Chunks # 0
  BY <1>1, <1>5
<1>7. TableOK /\ mapping = index.stsc
  BY <1>1, <1>4, <1>6 DEF ChunksRead
<1>8. run \in 1..Len(mapping) /\ mapping[run][1] <= next /\ LaidUpTo(next - 1)
  BY <1>1, <1>4, <1>6 DEF SamplesLaid
<1>9. Paced(timings, Lengths) /\ Len(Lengths) = Count /\ Lengths \in Seq(Nat)
  BY <1>1, <1>4, RunsTyped DEF TimesRead
<1>10. /\ Advanced \in 1..Len(mapping) /\ mapping[Advanced][1] <= next
       /\ mapping[Advanced][2] = PerChunk(next)
  BY <1>1, <1>7, <1>8, AdvancedIs
<1> DEFINE n == Len(placed)
           per == PerChunk(next)
           laid == Laid(n, per, index.chunks[next])
<1>11. n \in Nat /\ n = Total(PerChunks, 1, next - 1) /\ n <= Count
       /\ \A i \in 1..n : placed[i] = Declared(i) /\ InMediaData(placed[i])
  BY <1>1, <1>8 DEF LaidUpTo
<1>12. per \in Nat /\ Total(PerChunks, 1, next) = n + per
  <2>1. /\ PerChunk(next) \in Nat
        /\ Total(PerChunks, 1, next) = Total(PerChunks, 1, next - 1) + PerChunk(next)
    BY <1>5, <1>6, <1>7, ChunksCount
  <2> QED
    BY <1>11, <2>1
<1>13. /\ ~(per > Count - n)
       /\ \A i \in DOMAIN laid : Holds(laid[i].offset, laid[i].offset + laid[i].size)
       /\ placed' = placed \o laid /\ run' = Advanced /\ next' = next + 1 /\ step' = "chunks"
       /\ mapping' = mapping
  <2> DEFINE p == mapping[Advanced][2]
             l == Laid(Len(placed), p, index.chunks[next])
             Bad == \/ p > Count - Len(placed)
                    \/ \E i \in DOMAIN l : \/ l[i].size > SampleBytes
                                           \/ ~Holds(l[i].offset, l[i].offset + l[i].size)
  <2>1. IF Bad THEN Stops("refused")
        ELSE /\ placed' = placed \o l /\ run' = Advanced
             /\ Stays /\ UNCHANGED <<kinds, extents, timings, mapping, read, captions>>
    BY <1>6, Zenon DEF Chunk
  <2>2. ~Bad
    <3> HIDE DEF Bad
    <3> QED
      BY <2>1 DEF Stops
  <2>3. placed' = placed \o l /\ run' = Advanced /\ next' = next + 1 /\ step' = "chunks"
        /\ mapping' = mapping
    <3> HIDE DEF Bad, l
    <3> QED
      BY <1>4, <2>1, <2>2 DEF Stays
  <2>4. p = per /\ l = laid
    BY <1>10, Zenon
  <2>5. ~(p > Count - Len(placed)) /\ \A i \in DOMAIN l : Holds(l[i].offset, l[i].offset + l[i].size)
    <3> HIDE DEF p, l
    <3> QED
      BY <2>2
  <2> HIDE DEF p, l, laid, per, n, Bad
  <2> QED
    BY <2>3, <2>4, <2>5 DEF n
<1> HIDE DEF laid, n, per
<1>14. n + per <= Count
  BY <1>5, <1>11, <1>12, <1>13
<1>15. laid \in Seq(Sampled) /\ Len(laid) = per /\ \A k \in 1..per : laid[k] = Declared(n + k)
  <2>1. per = PerChunk(next)
    BY DEF per
  <2>2. /\ TableOK /\ FileOK /\ Lengths \in Seq(Nat) /\ Paced(timings, Lengths)
        /\ Len(Lengths) = Count /\ next \in 1..Chunks
    BY <1>1, <1>6, <1>7, <1>9
  <2>3. n \in Nat /\ n = Total(PerChunks, 1, next - 1) /\ per \in Nat
    BY <1>11, <1>12
  <2> QED
    BY <1>14, <2>1, <2>2, <2>3, LaidIs DEF laid
<1>16. ASSUME NEW k \in 1..per
       PROVE  InMediaData(laid[k])
  <2> DEFINE s == laid[k]
  <2>1. s \in Sampled /\ k \in DOMAIN laid
    BY <1>12, <1>15
  <2>2. Holds(s.offset, s.offset + s.size)
    BY <1>13, <2>1
  <2> HIDE DEF s
  <2>3. InMediaData(s)
    BY <1>1, <2>1, <2>2, InMediaDataIs
  <2> QED
    BY <2>3 DEF s
<1>17. /\ placed' \in Seq(Sampled) /\ Len(placed') = n + per
       /\ \A i \in 1..n : placed'[i] = placed[i]
       /\ \A k \in 1..per : placed'[n + k] = laid[k]
  <2>1. /\ placed \o laid \in Seq(Sampled) /\ Len(placed \o laid) = Len(placed) + Len(laid)
        /\ \A i \in 1..Len(placed) : (placed \o laid)[i] = placed[i]
        /\ \A k \in 1..Len(laid) : (placed \o laid)[Len(placed) + k] = laid[k]
    <3>1. placed \in Seq(Sampled) /\ laid \in Seq(Sampled)
      BY <1>1, <1>15
    <3> QED
      BY <3>1, JoinedAt
  <2>2. placed' = placed \o laid /\ Len(placed) = n /\ Len(laid) = per
    BY <1>13, <1>15 DEF n
  <2> QED
    BY <2>1, <2>2
<1>18. ASSUME NEW i \in 1..(n + per)
       PROVE  placed'[i] = Declared(i) /\ InMediaData(placed'[i])
  <2>1. CASE i \in 1..n
    BY <1>11, <1>17, <2>1
  <2>2. CASE ~(i \in 1..n)
    <3> DEFINE k == i - n
    <3>1. k \in 1..per /\ i = n + k
      BY <1>11, <1>12, <2>2
    <3> HIDE DEF k
    <3>2. placed'[n + k] = laid[k] /\ laid[k] = Declared(n + k) /\ InMediaData(laid[k])
      BY <1>15, <1>16, <1>17, <3>1
    <3> QED
      BY <3>1, <3>2
  <2> QED
    BY <2>1, <2>2
<1>19. LaidUpTo(c)'
  <2>1. \A i \in 1..(n + per) : placed'[i] = Declared(i)' /\ InMediaData(placed[i])'
    <3>1. \A i : Declared(i)' = Declared(i)
      BY <1>3 DEF TablesSame
    <3>2. ASSUME NEW i \in 1..(n + per)
          PROVE  InMediaData(placed[i])'
      BY <1>2, <1>18 DEF InMediaData
    <3> QED
      BY <1>18, <3>1, <3>2
  <2>2. Len(placed') = Total(PerChunks', 1, c) /\ Len(placed') <= Count'
    <3>1. Len(placed') = Total(PerChunks, 1, c) /\ Len(placed') <= Count
      BY <1>12, <1>14, <1>17
    <3> QED
      BY <1>3, <3>1 DEF TablesSame
  <2> QED
    BY <1>17, <2>1, <2>2 DEF LaidUpTo
<1> QED
  BY <1>10, <1>13, <1>17, <1>19

LEMMA SamplesLaidKept ==
    ASSUME Mp4Inv, Mp4Next
    PROVE  SamplesLaid' /\ placed' \in Seq(Sampled) /\ run' \in Nat
<1>1. /\ FileOK /\ ChunksRead /\ SamplesLaid /\ next \in Nat \ {0}
      /\ placed \in Seq(Sampled) /\ run \in Nat /\ mapping \in Seq(Nat \X Nat)
  BY DEF Mp4Inv, Mp4TypeOK, Sampled
<1>2. index' = index
  BY DEF Mp4Next, NextBox, Timing, Mapping, Chunk, Sample
<1>3. TablesSame
  BY <1>2, FileStays
<1>4. Chunks \in Nat /\ Count \in Nat /\ Chunks' = Chunks /\ Count' = Count
  BY <1>1, <1>3, FileTyped DEF TablesSame
<1>5. ChunksRead' /\ mapping' \in Seq(Nat \X Nat)
  BY ChunksReadKept
<1>6. CASE NextBox \/ Timing \/ Mapping
  <2>1. placed' = placed /\ run' = run /\ placed = <<>> /\ run = 1
    BY <1>1, <1>6 DEF NextBox, Timing, Mapping, Goes, Stays, Stops, SamplesLaid
  <2>2. \/ step' \in {"boxes", "stts", "stsc", "refused"}
        \/ step' = "chunks" /\ next' = 1
    BY <1>6 DEF NextBox, Timing, Mapping, Goes, Stays, Stops
  <2>3. CASE step' \in {"boxes", "stts", "stsc", "refused"}
    BY <1>1, <2>1, <2>3 DEF SamplesLaid
  <2>4. CASE step' = "chunks" /\ next' = 1
    <3>1. LaidUpTo(next - 1)'
      <4>1. Len(placed') = 0
        BY <2>1
      <4>2. next' - 1 = 0
        BY <2>4
      <4>3. Total(PerChunks', 1, next' - 1) = 0
        BY <4>2, TotalOfNone
      <4>4. \A i \in 1..Len(placed') : FALSE
        BY <4>1
      <4>5. Len(placed') <= Count'
        BY <1>4, <4>1
      <4> QED
        BY <4>1, <4>3, <4>4, <4>5 DEF LaidUpTo
    <3>2. next' <= Chunks' + 1
      BY <1>4, <2>4
    <3>3. ASSUME Chunks' # 0
          PROVE  run' \in 1..Len(mapping') /\ mapping'[run'][1] <= next'
      <4>1. TableOK' /\ mapping' = index'.stsc
        BY <1>5, <2>4, <3>3 DEF ChunksRead
      <4>2. mapping' # <<>> /\ mapping'[1][1] = 1
        BY <4>1 DEF TableOK
      <4>3. run' = 1 /\ 1 \in 1..Len(mapping')
        BY <1>5, <2>1, <4>2
      <4> QED
        BY <2>4, <4>2, <4>3
    <3> QED
      BY <1>1, <2>1, <2>4, <3>1, <3>2, <3>3 DEF SamplesLaid
  <2> QED
    BY <2>2, <2>3, <2>4
<1>7. CASE Chunk
  <2>1. step = "chunks" /\ next <= Chunks + 1 /\ LaidUpTo(next - 1)
    BY <1>1, <1>7 DEF Chunk, SamplesLaid
  <2>2. CASE next > Chunks
    <3>1. /\ placed' = placed /\ run' = run
          /\ \/ step' = "refused"
             \/ step' = "samples" /\ Len(placed) = Count /\ Disjoint(placed)
      <4>1. CASE Len(placed) # Count \/ ~Disjoint(placed)
        <5>1. Stops("refused")
          BY <1>7, <2>2, <4>1, Zenon DEF Chunk
        <5> QED
          BY <5>1 DEF Stops
      <4>2. CASE ~(Len(placed) # Count \/ ~Disjoint(placed))
        BY <1>7, <2>2, <4>2 DEF Chunk, Goes
      <4> QED
        BY <4>1, <4>2
    <3>2. CASE step' = "refused"
      BY <1>1, <3>1, <3>2 DEF SamplesLaid
    <3>3. CASE step' = "samples" /\ Len(placed) = Count /\ Disjoint(placed)
      <4>1. next - 1 = Chunks
        BY <1>1, <1>4, <2>1, <2>2
      <4>2. LaidUpTo(Chunks)
        BY <2>1, <4>1
      <4>3. LaidUpTo(Chunks)'
        BY <1>3, <1>4, <3>1, <4>2 DEF LaidUpTo, TablesSame
      <4>4. Disjoint(placed)'
        BY <3>1, <3>3 DEF Disjoint
      <4> QED
        BY <1>1, <1>4, <3>1, <3>3, <4>3, <4>4 DEF SamplesLaid
    <3> QED
      BY <3>1, <3>2, <3>3
  <2>3. CASE ~(next > Chunks) /\ step' = "refused"
    <3>1. placed' = placed /\ run' = run
      <4> DEFINE p == mapping[Advanced][2]
                 l == Laid(Len(placed), p, index.chunks[next])
                 Bad == \/ p > Count - Len(placed)
                        \/ \E i \in DOMAIN l : \/ l[i].size > SampleBytes
                                               \/ ~Holds(l[i].offset, l[i].offset + l[i].size)
      <4>1. IF Bad THEN Stops("refused")
            ELSE /\ placed' = placed \o l /\ run' = Advanced
                 /\ Stays /\ UNCHANGED <<kinds, extents, timings, mapping, read, captions>>
        BY <1>7, <2>3, Zenon DEF Chunk
      <4> HIDE DEF Bad, l
      <4>2. Stops("refused")
        BY <2>1, <2>3, <4>1 DEF Stays
      <4> QED
        BY <4>2 DEF Stops
    <3> QED
      BY <1>1, <2>3, <3>1 DEF SamplesLaid
  <2>4. CASE ~(next > Chunks) /\ step' # "refused"
    <3>1. /\ placed' \in Seq(Sampled)
          /\ run' \in 1..Len(mapping) /\ mapping[run'][1] <= next
          /\ mapping' = mapping /\ next' = next + 1 /\ step' = "chunks"
      BY <1>7, <2>4, ChunkLaid
    <3>2. \A e : e = next => LaidUpTo(e)'
      BY <1>7, <2>4, ChunkLaid
    <3>3. next' - 1 = next /\ next' <= Chunks' + 1
      BY <1>1, <1>4, <2>4, <3>1
    <3>4. LaidUpTo(next - 1)'
      BY <3>2, <3>3 DEF LaidUpTo
    <3>5. run' \in 1..Len(mapping') /\ mapping'[run'][1] <= next' /\ run' \in Nat
      <4>1. mapping[run'][1] \in Nat
        BY <1>1, <3>1
      <4> QED
        BY <1>1, <3>1, <4>1
    <3> QED
      BY <3>1, <3>3, <3>4, <3>5 DEF SamplesLaid
  <2> QED
    BY <2>2, <2>3, <2>4
<1>8. CASE Sample
  <2>1. /\ placed' = placed /\ run' = run /\ step = "samples"
        /\ step' \in {"samples", "done", "failed"}
    BY <1>8 DEF Sample, Goes, Stays, Stops
  <2>2. LaidUpTo(Chunks) /\ Len(placed) = Count /\ Disjoint(placed)
    BY <1>1, <2>1 DEF SamplesLaid
  <2>3. LaidUpTo(Chunks)'
    BY <1>3, <1>4, <2>1, <2>2 DEF LaidUpTo, TablesSame
  <2>4. Disjoint(placed)'
    BY <2>1, <2>2 DEF Disjoint
  <2> QED
    BY <1>1, <1>4, <2>1, <2>2, <2>3, <2>4 DEF SamplesLaid
<1> QED
  BY <1>6, <1>7, <1>8 DEF Mp4Next

LEMMA StartsRise ==
    ASSUME FileOK, Lengths \in Seq(Nat), Len(Lengths) = Count, placed \in Seq(Sampled),
           Len(placed) = Count, \A i \in 1..Len(placed) : placed[i] = Declared(i)
    PROVE  /\ \A i \in 1..Count : placed[i] \in Sampled
           /\ \A i, j \in 1..Count : i <= j => placed[i].start <= placed[j].start
<1>1. Count \in Nat /\ \A i \in 1..Count : placed[i] \in Sampled /\ Lengths[i] \in Nat
  <2>1. Count \in Nat
    BY FileTyped
  <2> DEFINE n == Count
  <2>2. n \in Nat /\ n = Len(placed) /\ n = Len(Lengths)
    BY <2>1
  <2> HIDE DEF n
  <2>3. \A i \in 1..n : placed[i] \in Sampled /\ Lengths[i] \in Nat
    BY <2>2
  <2> QED
    BY <2>1, <2>3 DEF n
<1>2. \A i \in 1..Count : placed[i].start = Total(Lengths, 1, i - 1)
  BY DEF Declared
<1>3. ASSUME NEW i \in 1..Count, NEW j \in 1..Count, i <= j
      PROVE  placed[i].start <= placed[j].start
  <2> DEFINE a == i - 1
             b == j - 1
  <2>1. a \in Nat /\ b \in Nat /\ 1 \in Nat /\ 1 <= a + 1 /\ a <= b
    BY <1>1, <1>3
  <2>2. \A k \in 1..b : Lengths[k] \in Nat
    BY <1>1
  <2>3. placed[i].start = Total(Lengths, 1, a) /\ placed[j].start = Total(Lengths, 1, b)
    BY <1>2
  <2> HIDE DEF a, b
  <2>4. Total(Lengths, 1, a) <= Total(Lengths, 1, b)
    BY <2>1, <2>2, TotalGrows
  <2> QED
    BY <2>3, <2>4
<1> QED
  BY <1>1, <1>3

(* Whether a text is shown.                                                  *)
LEMMA VisibleIs ==
    ASSUME FileOK, NEW i \in 1..Count, placed[i] \in Sampled
    PROVE  i \in Visible <=>
              /\ index.texts[i] = "words" /\ Presented(placed[i]) # <<>>
              /\ Presented(placed[i])[1] < Presented(placed[i])[2]
<1> DEFINE s == placed[i]
           Meanwhile == \E n \in 1..((Position(s.start + s.duration) * NsPerSecond) \div Beats) :
                      Position(s.start) * NsPerSecond < n * Beats
<1>1. i \in Visible <=> index.texts[i] = "words" /\ Meanwhile
  BY DEF Visible
<1>2. Meanwhile <=> Presented(s) # <<>> /\ Presented(s)[1] < Presented(s)[2]
  <2> HIDE DEF s
  <2>1. s \in Sampled
    BY DEF s
  <2> QED
    BY <2>1, ShownIs, Zenon
<1> QED
  BY <1>1, <1>2

LEMMA Below ==
    ASSUME NEW m \in Nat, NEW V \in SUBSET (1..m), NEW n \in Nat \ {0}
    PROVE  LET B(k) == {i \in V : i < k}
           IN /\ IsFiniteSet(B(n)) /\ Cardinality(B(n)) \in Nat
              /\ n \in V => Cardinality(B(n + 1)) = Cardinality(B(n)) + 1
              /\ n \notin V => B(n + 1) = B(n)
              /\ n = 1 => Cardinality(B(n)) = 0
              /\ n > m => B(n) = V
<1> DEFINE A == {i \in V : i < n}
           B == {i \in V : i < n + 1}
<1>1. \A i \in V : i \in Nat /\ 1 <= i /\ i <= m
  OBVIOUS
<1>2. IsFiniteSet(A) /\ Cardinality(A) \in Nat
  <2>1. A \subseteq 1..m
    BY Zenon
  <2>2. IsFiniteSet(1..m)
    BY FS_Interval
  <2> HIDE DEF A
  <2> QED
    BY <2>1, <2>2, FS_Subset, FS_CardinalityType
<1>3. ASSUME n \in V
      PROVE  Cardinality(B) = Cardinality(A) + 1
  <2>1. \A i \in V : i < n + 1 <=> (i < n \/ i = n)
    BY <1>1
  <2>2. n \notin A
    OBVIOUS
  <2>3. B = A \union {n}
    BY <1>3, <2>1, Zenon
  <2> HIDE DEF A, B
  <2> QED
    BY <1>2, <2>2, <2>3, FS_AddElement
<1>4. ASSUME n \notin V
      PROVE  B = A
  <2>1. \A i \in V : i < n + 1 <=> i < n
    BY <1>1, <1>4
  <2> QED
    BY <2>1
<1>5. ASSUME n = 1
      PROVE  Cardinality(A) = 0
  <2>1. \A i \in V : ~(i < n)
    BY <1>1, <1>5
  <2>2. A = {}
    BY <2>1, Zenon
  <2> HIDE DEF A
  <2> QED
    BY <2>2, FS_EmptySet
<1>6. ASSUME n > m
      PROVE  A = V
  <2>1. \A i \in V : i < n
    BY <1>1, <1>6
  <2> QED
    BY <2>1
<1> QED
  BY <1>2, <1>3, <1>4, <1>5, <1>6, Zenon

(* The texts shown up to one more sample.                                    *)
LEMMA ShownUp ==
    ASSUME FileOK, NEW n \in Nat \ {0}
    PROVE  /\ Cardinality(ShownBefore(n)) \in Nat
           /\ n \in Visible => Cardinality(ShownBefore(n + 1)) = Cardinality(ShownBefore(n)) + 1
           /\ n \notin Visible => ShownBefore(n + 1) = ShownBefore(n)
           /\ n = 1 => Cardinality(ShownBefore(n)) = 0
           /\ n > Count => ShownBefore(n) = Visible
<1>1. Count \in Nat /\ Visible \in SUBSET (1..Count)
  BY FileTyped DEF Visible
<1> DEFINE V == Visible
           m == Count
<1>2. m \in Nat /\ V \in SUBSET (1..m)
  BY <1>1
<1> HIDE DEF V, m
<1>3. LET B(k) == {i \in V : i < k}
      IN /\ IsFiniteSet(B(n)) /\ Cardinality(B(n)) \in Nat
         /\ n \in V => Cardinality(B(n + 1)) = Cardinality(B(n)) + 1
         /\ n \notin V => B(n + 1) = B(n)
         /\ n = 1 => Cardinality(B(n)) = 0
         /\ n > m => B(n) = V
  BY <1>2, Below
<1> QED
  BY <1>3, Zenon DEF ShownBefore, V, m

(* What is asked of a caption, and of the one before it.                     *)
InTime(s) == \A i \in 1..Len(s) :
                 /\ Lasting(s[i]) /\ WithinEdit(s[i])
                 /\ i > 1 => s[i - 1].start <= s[i].start

LEMMA OrderedGoesOn ==
    ASSUME NEW s \in Seq([start : Nat, end : Nat]), InTime(s), NEW c, Lasting(c), WithinEdit(c),
           s # <<>> => s[Len(s)].start <= c.start
    PROVE  /\ Append(s, c) \in Seq([start : Nat, end : Nat])
           /\ Len(Append(s, c)) = Len(s) + 1 /\ Append(s, c)[Len(s) + 1] = c
           /\ Append(s, c) # <<>> /\ InTime(Append(s, c))
<1> DEFINE C == [start : Nat, end : Nat]
           n == Len(s)
           t == Append(s, c)
<1>1. c \in C /\ s \in Seq(C)
  BY DEF Lasting
<1> HIDE DEF C
<1>2. /\ n \in Nat /\ t \in Seq(C) /\ Len(t) = n + 1 /\ t[n + 1] = c /\ t # <<>>
      /\ \A i \in 1..n : t[i] = s[i]
      /\ n # 0 => s # <<>>
  BY <1>1
<1> HIDE DEF t
<1>3. ASSUME NEW i \in 1..(n + 1)
      PROVE  /\ Lasting(t[i]) /\ WithinEdit(t[i])
             /\ i > 1 => t[i - 1].start <= t[i].start
  <2>1. CASE i \in 1..n
    <3>1. t[i] = s[i] /\ Lasting(s[i]) /\ WithinEdit(s[i])
      BY <1>2, <2>1 DEF InTime
    <3>2. ASSUME i > 1
          PROVE  t[i - 1].start <= t[i].start
      <4> DEFINE h == i - 1
      <4>1. h \in 1..n
        BY <1>2, <2>1, <3>2
      <4>2. s[h].start <= s[i].start
        BY <2>1, <3>2 DEF InTime
      <4> HIDE DEF h
      <4>3. t[h].start <= t[i].start
        BY <1>2, <3>1, <4>1, <4>2
      <4> QED
        BY <4>3 DEF h
    <3> QED
      BY <3>1, <3>2
  <2>2. CASE ~(i \in 1..n)
    <3>1. i = n + 1 /\ t[i] = c /\ i - 1 = n
      BY <1>2, <2>2
    <3>2. ASSUME i > 1
          PROVE  t[i - 1].start <= t[i].start
      <4>1. n \in 1..n /\ s # <<>>
        BY <1>2, <3>1, <3>2
      <4>2. t[n] = s[n] /\ s[n].start <= c.start
        BY <1>2, <4>1
      <4> QED
        BY <3>1, <4>2
    <3> QED
      BY <3>1, <3>2
  <2> QED
    BY <2>1, <2>2
<1>4. InTime(t)
  BY <1>2, <1>3 DEF InTime
<1> QED
  BY <1>2, <1>4 DEF t, n, C

LEMMA VisibleStays ==
    ASSUME index' = index, placed' = placed
    PROVE  Visible' = Visible /\ \A n : ShownBefore(n)' = ShownBefore(n)
<1>1. TablesSame
  BY FileStays
<1>2. Visible' = Visible
  BY <1>1 DEF Visible, TablesSame
<1> QED
  BY <1>2 DEF ShownBefore

(* One sample.                                                               *)
LEMMA SampleShown ==
    ASSUME Mp4Inv, step = "samples", ~(next > Count), index' = index, placed' = placed,
           next' = next + 1, step' = "samples",
           index.texts[next] # "invalid",
           captions' = IF Presented(placed[next]) = <<>> \/ index.texts[next] = "clear" THEN captions
                       ELSE IF Presented(placed[next])[2] <= Presented(placed[next])[1] THEN captions
                       ELSE Append(captions, CaptionAt(Presented(placed[next])[1],
                                                       Presented(placed[next])[2]))
    PROVE  CaptionsMade' /\ captions' \in Seq([start : Nat, end : Nat])
<1> DEFINE s == placed[next]
           p == Presented(s)
           c == CaptionAt(p[1], p[2])
<1>1. /\ FileOK /\ TimesRead /\ SamplesLaid /\ CaptionsMade /\ next \in Nat \ {0} /\ placed \in Seq(Sampled)
      /\ captions \in Seq([start : Nat, end : Nat])
  BY DEF Mp4Inv, Mp4TypeOK, Sampled
<1>2. TablesSame
  BY FileStays
<1>3. Count \in Nat /\ next \in 1..Count /\ Count' = Count
  BY <1>1, <1>2, FileTyped DEF TablesSame
<1>4. /\ \A i \in 1..Count : placed[i] \in Sampled
      /\ \A i, j \in 1..Count : i <= j => placed[i].start <= placed[j].start
  <2>1. Lengths \in Seq(Nat) /\ Len(Lengths) = Count
    BY <1>1, RunsTyped DEF TimesRead
  <2>2. Len(placed) = Count /\ \A i \in 1..Len(placed) : placed[i] = Declared(i)
    BY <1>1 DEF SamplesLaid, LaidUpTo
  <2> QED
    BY <1>1, <2>1, <2>2, StartsRise
<1>5. s \in Sampled
  BY <1>3, <1>4
<1>6. /\ InTime(captions) /\ Len(captions) = Cardinality(ShownBefore(next))
      /\ captions # <<>> => \A j \in next..Count :
            captions[Len(captions)].start <= Opening(placed[j].start)
  BY <1>1 DEF CaptionsMade, InTime
<1>7. index.texts[next] = "words" \/ index.texts[next] = "clear"
  <2> DEFINE t == index.texts
  <2>1. t \in Seq({"words", "clear", "invalid"}) /\ Len(t) = Len(index.sizes)
    BY <1>1 DEF FileOK, Mp4FileType
  <2>2. next \in 1..Len(t)
    BY <1>3, <2>1 DEF Count
  <2> HIDE DEF t
  <2>3. t[next] \in {"words", "clear", "invalid"}
    BY <2>1, <2>2
  <2> QED
    BY <2>3 DEF t
<1>8. next \in Visible <=> index.texts[next] = "words" /\ p # <<>> /\ p[1] < p[2]
  BY <1>1, <1>3, <1>5, VisibleIs
<1>9. p # <<>> => p[1] \in Nat /\ p[2] \in Nat
  <2> DEFINE a == s.start
             b == s.start + s.duration
  <2>1. a \in Nat /\ b \in Nat /\ a <= b
    BY <1>5 DEF Sampled
  <2>2. p # <<>> => p = <<Moment(a), Moment(b)>>
    BY <1>1, <1>5, PresentedIs
  <2> HIDE DEF a, b
  <2>3. Moment(a) \in Nat /\ Moment(b) \in Nat
    BY <1>1, <2>1, MomentTyped
  <2> HIDE DEF p
  <2> QED
    BY <2>2, <2>3
<1>10. captions' = IF next \in Visible THEN Append(captions, c) ELSE captions
  <2>1. captions' = IF p = <<>> \/ index.texts[next] = "clear" THEN captions
                    ELSE IF p[2] <= p[1] THEN captions ELSE Append(captions, c)
    BY Zenon
  <2>2. p # <<>> => (p[2] <= p[1] <=> ~(p[1] < p[2]))
    <3> HIDE DEF p
    <3> QED
      BY <1>9
  <2> HIDE DEF p, c
  <2> QED
    BY <1>7, <1>8, <2>1, <2>2
<1>11. /\ Cardinality(ShownBefore(next)) \in Nat
       /\ next \in Visible => Cardinality(ShownBefore(next + 1)) = Cardinality(ShownBefore(next)) + 1
       /\ next \notin Visible => ShownBefore(next + 1) = ShownBefore(next)
  BY <1>1, ShownUp
<1>12. \A n : ShownBefore(n)' = ShownBefore(n)
  BY VisibleStays
<1>13. /\ InTime(captions') /\ captions' \in Seq([start : Nat, end : Nat])
       /\ Len(captions') = Cardinality(ShownBefore(next + 1))
       /\ captions' # <<>> => \A j \in (next + 1)..Count :
             captions'[Len(captions')].start <= Opening(placed[j].start)
  <2>1. CASE next \notin Visible
    <3>1. captions' = captions
      BY <1>10, <2>1
    <3>2. Len(captions) = Cardinality(ShownBefore(next + 1))
      BY <1>6, <1>11, <2>1
    <3>3. \A j \in (next + 1)..Count : j \in next..Count
      BY <1>3
    <3> QED
      BY <1>1, <1>6, <3>1, <3>2, <3>3, Zenon
  <2>2. CASE next \in Visible
    <3>1. captions' = Append(captions, c)
      BY <1>10, <2>2
    <3>2. p # <<>> /\ p[1] < p[2]
      BY <1>8, <2>2
    <3>3. Lasting(c) /\ WithinEdit(c) /\ c.start = Opening(s.start)
      BY <1>1, <1>5, <3>2, CaptionLies
    <3>4. next \in next..Count
      BY <1>3
    <3>5. captions # <<>> => captions[Len(captions)].start <= c.start
      BY <1>6, <3>3, <3>4
    <3> HIDE DEF c
    <3>6. /\ captions' \in Seq([start : Nat, end : Nat])
          /\ Len(captions') = Len(captions) + 1 /\ captions'[Len(captions) + 1] = c
          /\ InTime(captions')
      BY <1>1, <1>6, <3>1, <3>3, <3>5, OrderedGoesOn
    <3>7. Len(captions') = Cardinality(ShownBefore(next + 1))
      BY <1>6, <1>11, <2>2, <3>6
    <3>8. ASSUME NEW j \in (next + 1)..Count
          PROVE  c.start <= Opening(placed[j].start)
      <4> DEFINE a == s.start
                 b == placed[j].start
      <4>1. j \in 1..Count /\ next <= j
        BY <1>3
      <4>2. a <= b /\ placed[j] \in Sampled
        BY <1>3, <1>4, <4>1
      <4>3. a \in Nat /\ b \in Nat
        BY <1>5, <4>2 DEF Sampled
      <4> HIDE DEF a, b
      <4>4. Opening(a) <= Opening(b)
        BY <1>1, <4>2, <4>3, OpeningGrows
      <4> QED
        BY <3>3, <4>4 DEF a, b
    <3>9. captions'[Len(captions')] = c
      BY <3>6
    <3> QED
      BY <3>6, <3>7, <3>8, <3>9
  <2> QED
    BY <2>1, <2>2
<1>14. \A i \in 1..Len(captions') :
          /\ Lasting(captions'[i]) /\ WithinEdit(captions[i])'
          /\ i > 1 => captions'[i - 1].start <= captions'[i].start
  <2>1. ASSUME NEW i \in 1..Len(captions')
        PROVE  WithinEdit(captions[i])'
    BY <1>13 DEF InTime, WithinEdit
  <2> QED
    BY <1>13, <2>1 DEF InTime
<1>15. /\ next' <= Count' + 1 /\ Len(captions') = Cardinality(ShownBefore(next))'
       /\ captions' # <<>> => \A j \in next'..Count' :
             captions'[Len(captions')].start <= Opening(placed[j].start)'
  <2>1. Len(captions') = Cardinality(ShownBefore(next))'
    <3>1. ShownBefore(next)' = ShownBefore(next + 1)
      <4>1. Visible' = Visible
        BY VisibleStays
      <4> QED
        BY <4>1, Zenon DEF ShownBefore
    <3> QED
      BY <1>13, <3>1
  <2>2. \A j : Opening(placed[j].start)' = Opening(placed[j].start)
    BY <1>2 DEF TablesSame
  <2>3. next' <= Count' + 1
    BY <1>3
  <2> QED
    BY <1>3, <1>13, <2>1, <2>2, <2>3
<1> QED
  BY <1>13, <1>14, <1>15 DEF CaptionsMade

LEMMA CaptionsMadeKept ==
    ASSUME Mp4Inv, Mp4Next
    PROVE  CaptionsMade' /\ captions' \in Seq([start : Nat, end : Nat])
<1>1. /\ FileOK /\ SamplesLaid /\ CaptionsMade /\ next \in Nat \ {0}
      /\ captions \in Seq([start : Nat, end : Nat])
  BY DEF Mp4Inv, Mp4TypeOK
<1>2. index' = index
  BY DEF Mp4Next, NextBox, Timing, Mapping, Chunk, Sample
<1>3. TablesSame
  BY <1>2, FileStays
<1>4. Count \in Nat /\ Count' = Count /\ FileOK'
  BY <1>1, <1>3, FileTyped DEF TablesSame
<1>5. ASSUME captions' = captions
      PROVE  \A i \in 1..Len(captions') :
                /\ Lasting(captions'[i]) /\ WithinEdit(captions[i])'
                /\ i > 1 => captions'[i - 1].start <= captions'[i].start
  <2>1. ASSUME NEW i \in 1..Len(captions)
        PROVE  WithinEdit(captions[i])'
    BY <1>1, <1>2, <1>5 DEF CaptionsMade, WithinEdit
  <2> QED
    BY <1>1, <1>5, <2>1 DEF CaptionsMade
<1>6. CASE NextBox \/ Timing \/ Mapping \/ Chunk
  <2>1. captions' = captions /\ captions = <<>>
    BY <1>1, <1>6 DEF NextBox, Timing, Mapping, Chunk, Goes, Stays, Stops, CaptionsMade
  <2>2. \/ step' \in {"boxes", "stts", "stsc", "chunks", "refused"}
        \/ step' = "samples" /\ next' = 1
    BY <1>6 DEF NextBox, Timing, Mapping, Chunk, Goes, Stays, Stops
  <2>3. CASE step' \in {"boxes", "stts", "stsc", "chunks", "refused"}
    BY <1>1, <1>5, <2>1, <2>3 DEF CaptionsMade
  <2>4. CASE step' = "samples" /\ next' = 1
    <3>1. \A i \in Visible' : ~(i < next')
      BY <1>4, <2>4 DEF Visible
    <3>2. ShownBefore(next)' = {}
      BY <3>1, Zenon DEF ShownBefore
    <3>3. Cardinality(ShownBefore(next))' = 0
      BY <3>2, FS_EmptySet
    <3>4. Len(captions') = 0 /\ next' <= Count' + 1
      BY <1>4, <2>1, <2>4
    <3> QED
      BY <1>1, <1>5, <2>1, <2>4, <3>3, <3>4 DEF CaptionsMade
  <2> QED
    BY <2>2, <2>3, <2>4
<1>7. CASE Sample
  <2>1. step = "samples" /\ next <= Count + 1
    BY <1>1, <1>7 DEF Sample, CaptionsMade
  <2>2. CASE next > Count
    <3>1. captions' = captions /\ placed' = placed /\ step' \in {"failed", "done"}
      BY <1>7, <2>2 DEF Sample, Stops
    <3>2. Len(captions) = Cardinality(Visible)
      BY <1>1, <2>1, <2>2, ShownUp DEF CaptionsMade
    <3>3. Visible' = Visible
      BY <1>2, <3>1, VisibleStays
    <3> QED
      BY <1>1, <1>5, <3>1, <3>2, <3>3 DEF CaptionsMade
  <2>3. CASE ~(next > Count)
    <3>1. CASE Stops("failed")
      <4>1. captions' = captions /\ step' = "failed"
        BY <3>1 DEF Stops
      <4> QED
        BY <1>1, <1>5, <4>1 DEF CaptionsMade
    <3>2. CASE ~Stops("failed")
      <4> DEFINE s == placed[next]
                 p == Presented(s)
                 new == IF p = <<>> \/ index.texts[next] = "clear" THEN captions
                        ELSE IF p[2] <= p[1] THEN captions
                        ELSE Append(captions, CaptionAt(p[1], p[2]))
                 Bad == Overdrawn(s.size) \/ index.texts[next] = "invalid"
      <4>1. IF Bad THEN Stops("failed")
            ELSE /\ read' = read + s.size /\ captions' = new /\ Stays
                 /\ UNCHANGED <<kinds, extents, timings, mapping, run, placed>>
        BY <1>7, <2>3, <3>2, Zenon DEF Sample
      <4> HIDE DEF new
      <4>2. ~Bad
        BY <3>2, <4>1
      <4>3. captions' = new /\ placed' = placed /\ next' = next + 1 /\ step' = "samples"
        <5> HIDE DEF Bad
        <5> QED
          BY <2>1, <4>1, <4>2 DEF Stays
      <4>4. index.texts[next] # "invalid"
        BY <4>2
      <4>5. captions' = IF Presented(placed[next]) = <<>> \/ index.texts[next] = "clear"
                        THEN captions
                        ELSE IF Presented(placed[next])[2] <= Presented(placed[next])[1]
                        THEN captions
                        ELSE Append(captions, CaptionAt(Presented(placed[next])[1],
                                                        Presented(placed[next])[2]))
        BY <4>3, Zenon DEF new
      <4> QED
        BY <1>2, <2>1, <2>3, <4>3, <4>4, <4>5, SampleShown
    <3> QED
      BY <3>1, <3>2
  <2> QED
    BY <2>2, <2>3
<1> QED
  BY <1>6, <1>7 DEF Mp4Next

LEMMA ReadKept ==
    ASSUME Mp4Inv, Mp4Next
    PROVE  /\ step' \in {"boxes", "stts", "stsc", "chunks", "samples", "done", "refused", "failed"}
           /\ next' \in Nat \ {0} /\ kinds' \subseteq {"ftyp", "moov"} /\ read' \in 0..ReadBytes
<1>1. /\ FileOK /\ SamplesLaid /\ TimesRead
      /\ step \in {"boxes", "stts", "stsc", "chunks", "samples", "done", "refused", "failed"}
      /\ next \in Nat \ {0} /\ kinds \subseteq {"ftyp", "moov"} /\ read \in 0..ReadBytes
      /\ placed \in Seq(Sampled) /\ ReadBytes \in Nat
  BY ScalesTyped DEF Mp4Inv, Mp4TypeOK, Sampled
<1>2. step' \in {"boxes", "stts", "stsc", "chunks", "samples", "done", "refused", "failed"}
  BY <1>1 DEF Mp4Next, NextBox, Timing, Mapping, Chunk, Sample, Goes, Stays, Stops
<1>3. next' \in {1, next, next + 1}
  BY <1>1 DEF Mp4Next, NextBox, Timing, Mapping, Chunk, Sample, Goes, Stays, Stops
<1>4. kinds' \subseteq {"ftyp", "moov"}
  BY <1>1 DEF Mp4Next, NextBox, Timing, Mapping, Chunk, Sample, Goes, Stays, Stops
<1>5. read' \in 0..ReadBytes
  <2>1. CASE read' = read
    BY <1>1, <2>1
  <2>2. CASE read' # read /\ NextBox
    <3> DEFINE b == index.boxes[next]
               cost == IF b.kind \in {"ftyp", "moov"} THEN 1 + Size(b) ELSE 1
    <3>1. read' = read + cost /\ ~(read + cost > ReadBytes) /\ ~(next > Len(index.boxes))
      BY <2>2 DEF NextBox, Goes, Stays, Stops, Overdrawn
    <3>2. cost \in Nat
      <4> DEFINE R == [kind : {"ftyp", "moov", "mdat", "moof", "free", "broken"},
                       start : Nat, end : Nat]
                 s == index.boxes
      <4>1. s \in Seq(R) /\ \A i \in DOMAIN s : s[i].start <= s[i].end
        BY <1>1 DEF FileOK, Mp4FileType
      <4>2. next \in Nat \ {0} /\ ~(next > Len(s))
        BY <1>1, <3>1
      <4> HIDE DEF R, s
      <4>3. s[next] \in R /\ s[next].start <= s[next].end
        BY <4>1, <4>2
      <4>4. Size(b) \in Nat
        <5>1. b.start \in Nat /\ b.end \in Nat /\ b.start <= b.end
          BY <4>3 DEF s, R
        <5> HIDE DEF b
        <5> QED
          BY <5>1 DEF Size
      <4> HIDE DEF b
      <4> QED
        BY <4>4
    <3> HIDE DEF cost
    <3> QED
      BY <1>1, <3>1, <3>2
  <2>3. CASE read' # read /\ Sample
    <3>1. step = "samples" /\ read' = read + placed[next].size
          /\ ~(read + placed[next].size > ReadBytes) /\ ~(next > Count)
      BY <2>3 DEF Sample, Stays, Stops, Overdrawn
    <3>2. placed[next] \in Sampled
      <4>1. Len(placed) = Count /\ Count \in Nat
        BY <1>1, <3>1, FileTyped DEF SamplesLaid
      <4>2. next \in 1..Len(placed)
        BY <1>1, <3>1, <4>1
      <4> QED
        BY <1>1, <4>2
    <3>3. placed[next].size \in Nat
      BY <3>2 DEF Sampled
    <3> QED
      BY <1>1, <3>1, <3>3
  <2>4. Timing \/ Mapping \/ Chunk => read' = read
    BY DEF Timing, Mapping, Chunk, Goes, Stays, Stops
  <2> QED
    BY <2>1, <2>2, <2>3, <2>4 DEF Mp4Next
<1> QED
  BY <1>1, <1>2, <1>3, <1>4, <1>5

LEMMA Mp4InvInit == Mp4Init => Mp4Inv
<1> SUFFICES ASSUME Mp4Init PROVE Mp4Inv
  OBVIOUS
<1>1. /\ step = "boxes" /\ next = 1 /\ kinds = {} /\ extents = <<>>
      /\ timings = <<>> /\ mapping = <<>> /\ run = 1 /\ placed = <<>>
      /\ read = 0 /\ captions = <<>>
  BY DEF Mp4Init
<1>2. FileOK
  BY Mp4Assumption DEF Mp4Init, FileOK
<1>3. Mp4TypeOK
  BY <1>1, ScalesTyped DEF Mp4TypeOK
<1>4. Extended /\ TimesRead /\ ChunksRead
  BY <1>1 DEF Extended, TimesRead, ChunksRead
<1>5. SamplesLaid
  BY <1>1 DEF SamplesLaid
<1>6. CaptionsMade
  BY <1>1 DEF CaptionsMade
<1> QED
  BY <1>2, <1>3, <1>4, <1>5, <1>6 DEF Mp4Inv

LEMMA Mp4InvKept == Mp4Inv /\ [Mp4Next]_mp4Vars => Mp4Inv'
<1> SUFFICES ASSUME Mp4Inv, [Mp4Next]_mp4Vars PROVE Mp4Inv'
  OBVIOUS
<1>1. CASE Mp4Next
  <2>1. index' = index
    BY <1>1 DEF Mp4Next, NextBox, Timing, Mapping, Chunk, Sample
  <2>2. FileOK'
    BY <2>1, FileStays DEF Mp4Inv, TablesSame
  <2>3. Extended' /\ extents' \in Seq(Nat \X Nat)
    BY <1>1, ExtendedKept
  <2>4. TimesRead' /\ timings' \in Seq(Nat \X Nat)
    BY <1>1, TimesReadKept
  <2>5. ChunksRead' /\ mapping' \in Seq(Nat \X Nat)
    BY <1>1, ChunksReadKept
  <2>6. SamplesLaid' /\ placed' \in Seq(Sampled) /\ run' \in Nat
    BY <1>1, SamplesLaidKept
  <2>7. CaptionsMade' /\ captions' \in Seq([start : Nat, end : Nat])
    BY <1>1, CaptionsMadeKept
  <2>8. /\ step' \in {"boxes", "stts", "stsc", "chunks", "samples", "done", "refused", "failed"}
        /\ next' \in Nat \ {0} /\ kinds' \subseteq {"ftyp", "moov"} /\ read' \in 0..ReadBytes
    BY <1>1, ReadKept
  <2>9. Mp4TypeOK'
    BY <2>3, <2>4, <2>5, <2>6, <2>7, <2>8 DEF Mp4TypeOK, Sampled
  <2> QED
    BY <2>2, <2>3, <2>4, <2>5, <2>6, <2>7, <2>9 DEF Mp4Inv
<1>2. CASE UNCHANGED mp4Vars
  <2>1. /\ index' = index /\ step' = step /\ next' = next /\ kinds' = kinds /\ extents' = extents
        /\ timings' = timings /\ mapping' = mapping /\ run' = run /\ placed' = placed
        /\ read' = read /\ captions' = captions
    BY <1>2 DEF mp4Vars
  <2>2. TablesSame
    BY <2>1, FileStays
  <2>3. FileOK' /\ Mp4TypeOK' /\ Extended'
    BY <2>1, <2>2 DEF Mp4Inv, TablesSame, Mp4TypeOK, Extended
  <2>4. TimesRead'
    BY <2>1, <2>2 DEF Mp4Inv, TimesRead, TablesSame
  <2>5. ChunksRead'
    BY <2>1, <2>2 DEF Mp4Inv, ChunksRead, TablesSame
  <2>6. SamplesLaid'
    BY <2>1, <2>2 DEF Mp4Inv, SamplesLaid, LaidUpTo, TablesSame
  <2>7. CaptionsMade'
    <3>1. Visible' = Visible /\ \A n : ShownBefore(n)' = ShownBefore(n)
      BY <2>1, VisibleStays
    <3>2. \A c : WithinEdit(c)' = WithinEdit(c)
      BY <2>2 DEF TablesSame
    <3> QED
      BY <2>1, <2>2, <3>1, <3>2 DEF Mp4Inv, CaptionsMade, TablesSame
  <2> QED
    BY <2>3, <2>4, <2>5, <2>6, <2>7 DEF Mp4Inv
<1> QED
  BY <1>1, <1>2

LEMMA PlacedFollows == Mp4Inv => SamplesArePlaced
<1> SUFFICES ASSUME Mp4Inv, Located
             PROVE  /\ Len(placed) = Count /\ Count = Len(Lengths)
                    /\ Count = Total(PerChunks, 1, Chunks)
                    /\ \A i \in 1..Count : placed[i] = Declared(i)
                    /\ \A i \in 1..Count :
                          \E b \in {index.boxes[k] : k \in DOMAIN index.boxes} :
                             /\ b.kind = "mdat" /\ b.start <= placed[i].offset
                             /\ placed[i].offset + placed[i].size <= b.end
                    /\ \A i, j \in 1..Count : i # j =>
                          {placed[i].offset + k : k \in 0..(placed[i].size - 1)}
                          \intersect {placed[j].offset + k : k \in 0..(placed[j].size - 1)} = {}
  BY DEF SamplesArePlaced
<1>1. step \in {"samples", "done", "failed"}
  BY DEF Located
<1>2. FileOK /\ TimesRead /\ SamplesLaid /\ placed \in Seq(Sampled)
  BY DEF Mp4Inv, Mp4TypeOK, Sampled
<1>3. Len(Lengths) = Count /\ LaidUpTo(Chunks) /\ Len(placed) = Count /\ Disjoint(placed)
  BY <1>1, <1>2 DEF TimesRead, SamplesLaid
<1>4. Count = Total(PerChunks, 1, Chunks)
      /\ \A i \in 1..Count : placed[i] = Declared(i) /\ InMediaData(placed[i])
  BY <1>3 DEF LaidUpTo
<1>5. ASSUME NEW i \in 1..Count
      PROVE  \E b \in {index.boxes[k] : k \in DOMAIN index.boxes} :
                /\ b.kind = "mdat" /\ b.start <= placed[i].offset
                /\ placed[i].offset + placed[i].size <= b.end
  BY <1>4 DEF InMediaData
<1>6. ASSUME NEW i \in 1..Count, NEW j \in 1..Count, i # j
      PROVE  {placed[i].offset + k : k \in 0..(placed[i].size - 1)}
             \intersect {placed[j].offset + k : k \in 0..(placed[j].size - 1)} = {}
  <2> DEFINE a == placed[i].offset
             m == placed[i].size
             b == placed[j].offset
             n == placed[j].size
  <2>1. a \in Nat /\ m \in Nat /\ b \in Nat /\ n \in Nat
    <3>1. placed[i] \in Sampled /\ placed[j] \in Sampled
      BY <1>2, <1>3
    <3> QED
      BY <3>1 DEF Sampled
  <2>2. a + m <= b \/ b + n <= a
    <3>1. i \in DOMAIN placed /\ j \in DOMAIN placed
      BY <1>2, <1>3
    <3> QED
      BY <1>3, <1>6, <3>1 DEF Disjoint
  <2> HIDE DEF a, b, m, n
  <2>3. \A k \in 0..(m - 1), l \in 0..(n - 1) : a + k # b + l
    BY <2>1, <2>2
  <2>4. {a + k : k \in 0..(m - 1)} \intersect {b + k : k \in 0..(n - 1)} = {}
    BY <2>3
  <2> QED
    BY <2>4 DEF a, b, m, n
<1> QED
  BY <1>3, <1>4, <1>5, <1>6

LEMMA ShownFollows == Mp4Inv => CaptionsAreShown
<1> SUFFICES ASSUME Mp4Inv, NEW i \in DOMAIN captions
             PROVE  LET c == captions[i] IN
                    /\ c.start < c.end
                    /\ i > 1 => captions[i - 1].start <= c.start
                    /\ index.edit # Whole =>
                          /\ c.start >= Ns(index.edit.delay, MovieScale) \div NsPerMs
                          /\ c.start * NsPerMs * MovieScale
                                < (index.edit.delay + index.edit.length) * NsPerSecond
                    /\ step = "done" => Len(captions) = Cardinality(Visible)
  BY Zenon DEF CaptionsAreShown
<1>1. CaptionsMade /\ captions \in Seq([start : Nat, end : Nat])
  BY DEF Mp4Inv, Mp4TypeOK
<1>2. i \in 1..Len(captions)
  BY <1>1
<1>3. /\ Lasting(captions[i]) /\ WithinEdit(captions[i])
      /\ i > 1 => captions[i - 1].start <= captions[i].start
      /\ step = "done" => Len(captions) = Cardinality(Visible)
  BY <1>1, <1>2, Zenon DEF CaptionsMade
<1> QED
  BY <1>3, Zenon DEF Lasting, WithinEdit

(* The reading of an MP4 file keeps its state typed: in its steps, within    *)
(* its budget, with times that are never negative (demux.rs, mp4.rs).        *)
THEOREM Mp4Typed == Mp4Spec => []Mp4TypeOK
<1>1. Mp4Inv => Mp4TypeOK
  BY DEF Mp4Inv
<1> QED
  BY <1>1, Mp4InvInit, Mp4InvKept, PTL DEF Mp4Spec

(* Whatever the files and the scales: once the tables are accepted, every    *)
(* sample is where, as large, when and as long as the tables declare it,     *)
(* within one extent of media data and disjoint from all others; captions    *)
(* start in order, last, keep within the edit, and a file read to its end    *)
(* has one for every text of which a nanosecond is shown (demux.rs, samples, *)
(* next_sample; mp4.rs, extract).                                            *)
THEOREM ShowsWhereDeclared == Mp4Spec => []CaptionsArePlaced
<1>1. Mp4Inv => CaptionsArePlaced
  BY PlacedFollows, ShownFollows DEF CaptionsArePlaced
<1> QED
  BY <1>1, Mp4InvInit, Mp4InvKept, PTL DEF Mp4Spec

-----------------------------------------------------------------------------
(* The parts of a scan together, as its run checks them: whichever is at     *)
(* work, every part behaves as its own specification says, so that what is   *)
(* proved of a part holds of the whole.                                      *)
LEMMA EachPartAtFirst ==
    ASSUME Init
    PROVE  /\ AlignInit /\ MatchingInit /\ ReadingInit
           /\ PgsInit /\ MatroskaInit /\ Mp4Init
  BY DEF Init, AlignRests, MatchingRests, MatroskaRests, Mp4Rests

LEMMA EachPartGoesOn ==
    ASSUME [Next]_scanPartsVars
    PROVE  /\ [AlignNext]_alignVars /\ [MatchingNext]_matchingVars
           /\ [ReadingNext]_readingVars /\ [PgsNext]_pgsVars
           /\ [MatroskaNext]_matroskaVars /\ [Mp4Next]_mp4Vars
  BY DEF Next, scanPartsVars

(* Every variable of every part keeps its type, whichever part is at work.   *)
THEOREM ScansTyped == Spec => []ScanTyped
<1>1. Init => /\ AlignInit /\ MatchingInit /\ ReadingInit
              /\ PgsInit /\ MatroskaInit /\ Mp4Init
  BY EachPartAtFirst
<1>2. [Next]_scanPartsVars => /\ [AlignNext]_alignVars /\ [MatchingNext]_matchingVars
                              /\ [ReadingNext]_readingVars /\ [PgsNext]_pgsVars
                              /\ [MatroskaNext]_matroskaVars /\ [Mp4Next]_mp4Vars
  BY EachPartGoesOn
<1>3. Spec => /\ AlignSpec /\ MatchingSpec /\ ReadingSpec
              /\ PgsSpec /\ MatroskaSpec /\ Mp4Spec
  BY <1>1, <1>2, PTL DEF Spec, AlignSpec, MatchingSpec, ReadingSpec, PgsSpec, MatroskaSpec, Mp4Spec
<1>4. /\ AlignTypeOK /\ MatchingTypeOK /\ ReadingTypeOK
      /\ PgsTypeOK /\ MatroskaTypeOK /\ Mp4TypeOK
      => ScanTyped
  BY DEF ScanTyped
<1> QED
  BY <1>3, <1>4, AlignTyped, MatchingTyped, ReadingTyped, PgsTyped, MatroskaTyped, Mp4Typed, PTL
=============================================================================
