------------------------------- MODULE Reading -------------------------------
(* Scanning one file (folder.rs): a snapshot, the tracks, one attempt per    *)
(* eligible track and the verdict, while the file may be replaced or         *)
(* rewritten.  An attempt reads a text track to its end (media.rs), or       *)
(* images packet by packet (folder/progressive.rs, media/ocr.rs,             *)
(* media/pgs.rs) until a checkpoint's assessment is confident.  Pixels and   *)
(* words are abstracted to what they make of a display.                      *)
EXTENDS Naturals, Sequences

CONSTANTS Films,        \* the eligible tracks, in order, a file may turn out to have
          Checkpoints,  \* CHECKPOINTS: frames after which the cues are assessed
          PerMilli,     \* ticks of a packet's clock in a millisecond
          TrackTime,      \* MAX_TIMESTAMP_MS, in ticks
          PerPacket, TrackPackets, MaxCues, MaxChanges  \* bounds of the model

ASSUME ReadingAssumption ==
    /\ Films \subseteq Seq({"text", "pgs"})
    /\ Checkpoints \in Seq(Nat \ {0}) /\ Checkpoints # <<>>
    /\ \A i \in 2..Len(Checkpoints) : Checkpoints[i - 1] < Checkpoints[i]
    /\ PerMilli \in Nat \ {0} /\ TrackTime \in Nat
    /\ PerPacket \in Nat /\ MaxCues \in Nat /\ TrackPackets \in 0..MaxCues /\ MaxChanges \in Nat

VARIABLES disk, opened, linked,     \* versions: at the path, behind the open handle
          stage, snapshot, tracks, track, kept, outcome,
          seen,                     \* history: versions of which anything was read
          attempt,                  \* the track being read
          judged                    \* history: what matching says of so many cues
fileVars == <<disk, opened, linked>>
scanVars == <<snapshot, tracks, track, kept, outcome>>
readingVars == <<fileVars, stage, scanVars, seen, attempt, judged>>

NoValue == 999
Findings == {"identified", "ambiguous", "unknown", "failed"}
NewAttempt == [packets |-> 0, left |-> 0, sound |-> TRUE, spoiled |-> FALSE, stopped |-> FALSE,
          failure |-> FALSE, clock |-> 0, cues |-> <<>>, active |-> FALSE, frames |-> 0,
          at |-> 1, assessed |-> <<>>, result |-> "none"]
Milli(t) == t \div PerMilli
Pictures == tracks[track] = "pgs"

ReadingTypeOK ==
    /\ disk \in 0..MaxChanges /\ opened \in 0..MaxChanges /\ linked \in BOOLEAN
    /\ stage \in {"start", "probe", "before", "open", "packet", "display", "assess", "after",
                  "final", "done"}
    /\ snapshot \in 0..MaxChanges \union {NoValue} /\ tracks \in Films \union {<<>>} /\ track \in Nat
    /\ kept \in {"none", "ambiguous", "unknown"} /\ outcome \in Findings \union {"none"}
    /\ seen \subseteq 0..MaxChanges
    /\ judged \in [1..MaxCues -> Findings \union {"?"}]

ReadingInit ==
    /\ disk = 0 /\ opened = 0 /\ linked = FALSE
    /\ stage = "start" /\ snapshot = NoValue /\ tracks = <<>> /\ track = 1
    /\ kept = "none" /\ outcome = "none" /\ seen = {} /\ attempt = NewAttempt
    /\ judged = [n \in 1..MaxCues |-> "?"]

(* Another program puts a new file in its place, or rewrites it.             *)
Replaced ==
    /\ stage \notin {"done"} /\ disk < MaxChanges
    /\ disk' = disk + 1
    /\ \/ linked' = FALSE /\ opened' = opened
       \/ linked' = linked /\ opened' = IF linked THEN disk + 1 ELSE opened
    /\ UNCHANGED <<stage, scanVars, seen, attempt, judged>>
-----------------------------------------------------------------------------
(* The scan of a file                                                        *)

TakeSnapshot ==
    /\ stage = "start"
    /\ \/ snapshot' = disk /\ stage' = "probe" /\ UNCHANGED <<tracks, track, kept, outcome>>
       \/ outcome' = "failed" /\ stage' = "done" /\ UNCHANGED <<snapshot, tracks, track, kept>>
    /\ UNCHANGED <<fileVars, seen, attempt, judged>>

Probe ==
    /\ stage = "probe"
    /\ seen' = seen \union {disk}
    /\ \/ /\ tracks' \in Films \ {<<>>} /\ stage' = "before"
          /\ UNCHANGED <<snapshot, track, kept, outcome>>
       \/ outcome' = "failed" /\ stage' = "done" /\ UNCHANGED <<snapshot, tracks, track, kept>>
    /\ UNCHANGED <<fileVars, attempt, judged>>

Kept(v) == IF v = "ambiguous" \/ (v = "unknown" /\ kept = "none") THEN v ELSE kept
Conclude(v) ==
    /\ kept' = Kept(v)
    /\ attempt' = NewAttempt /\ judged' = [n \in 1..MaxCues |-> "?"]
    /\ UNCHANGED <<snapshot, tracks>>
    /\ IF v = "identified" THEN outcome' = v /\ stage' = "final" /\ UNCHANGED track
       ELSE IF track < Len(tracks)
       THEN track' = track + 1 /\ stage' = "before" /\ UNCHANGED outcome
       ELSE /\ UNCHANGED track
            /\ IF kept' = "none" THEN outcome' = "failed" /\ stage' = "done"
               ELSE outcome' = kept' /\ stage' = "final"

SameFile == disk = snapshot
VerifyBefore ==
    /\ stage = "before"
    /\ IF SameFile THEN stage' = "open" /\ UNCHANGED <<scanVars, attempt, judged>>
       ELSE Conclude("failed")
    /\ UNCHANGED <<fileVars, seen>>
OpenFile ==
    /\ stage = "open"
    /\ opened' = disk /\ linked' = TRUE /\ stage' = "packet"
    /\ UNCHANGED <<disk, scanVars, seen, attempt, judged>>
VerifyAgain ==
    /\ stage = "after"
    /\ Conclude(IF SameFile THEN attempt.result ELSE "failed")
    /\ linked' = FALSE /\ UNCHANGED <<disk, opened, seen>>
MutFinalVerify ==
    /\ stage = "final" /\ stage' = "done"
    /\ UNCHANGED <<fileVars, scanVars, seen, attempt, judged>>
FinalVerify ==
    /\ stage = "final" /\ stage' = "done"
    /\ outcome' = IF SameFile THEN outcome ELSE "failed"
    /\ UNCHANGED <<fileVars, snapshot, tracks, track, kept, seen, attempt, judged>>
-----------------------------------------------------------------------------
(* An attempt                                                                *)

ReadsPacket(a) == attempt' = [attempt EXCEPT !.packets = @ + 1, !.clock = a.clock, !.cues = a.cues,
                                       !.left = a.left, !.sound = a.sound,
                                       !.spoiled = @ \/ ~a.sound]
AttemptFails == Conclude("failed") /\ linked' = FALSE /\ UNCHANGED <<disk, opened>>

(* A whole packet of a text track is one cue: at its time, for its or the    *)
(* track's duration if there is any.                                         *)
Untimed(t, d) == t < attempt.clock \/ Milli(t) >= Milli(TrackTime)
                 \/ (d # NoValue /\ Milli(t + d) > Milli(TrackTime))
Captions(t, d) ==
    [start |-> Milli(t),
     end |-> IF d = NoValue \/ Milli(t + d) <= Milli(t) THEN Milli(t) + 1 ELSE Milli(t + d)]
TextPacket ==
    /\ stage = "packet" /\ ~Pictures /\ attempt.packets < TrackPackets
    /\ seen' = seen \union {opened}
    /\ \E t \in 0..TrackTime, d \in {0, PerMilli, NoValue}, sound \in BOOLEAN :
          IF ~sound \/ Untimed(t, d) THEN AttemptFails
          ELSE /\ ReadsPacket([clock |-> t, cues |-> Append(attempt.cues, Captions(t, d)), left |-> 0,
                         sound |-> sound])
               /\ UNCHANGED <<fileVars, stage, scanVars, judged>>

PgsPacket ==
    /\ stage = "packet" /\ Pictures /\ attempt.packets < TrackPackets
    /\ seen' = seen \union {opened}
    /\ \E t \in attempt.clock..TrackTime, n \in 0..PerPacket, sound \in BOOLEAN :
          ReadsPacket([clock |-> t, cues |-> attempt.cues, left |-> n, sound |-> sound])
    /\ stage' = "display"
    /\ UNCHANGED <<fileVars, scanVars, judged>>

(* A new picture, or none, ends the one shown.                               *)
TrackEnded == IF attempt.active /\ Milli(attempt.clock) > attempt.cues[Len(attempt.cues)].start
         THEN [attempt.cues EXCEPT ![Len(attempt.cues)].end = Milli(attempt.clock)]
         ELSE attempt.cues
Push(d) ==
    CASE d = "unchanged" -> attempt
      [] d = "clear"     -> [attempt EXCEPT !.cues = TrackEnded, !.active = FALSE]
      [] d = "blank"     -> [attempt EXCEPT !.cues = TrackEnded, !.active = FALSE, !.frames = @ + 1]
      [] d = "text"      -> [attempt EXCEPT !.active = TRUE, !.frames = @ + 1,
                                 !.cues = Append(TrackEnded, Captions(attempt.clock, NoValue))]
      [] d = "unreadable" -> [attempt EXCEPT !.cues = TrackEnded, !.active = FALSE, !.stopped = TRUE,
                                  !.failure = TRUE]

Judge(n, v) == v \in (IF judged[n] = "?" THEN Findings ELSE {judged[n]})
               /\ judged' = [judged EXCEPT ![n] = v]
Due(a) == ~a.stopped /\ a.at <= Len(Checkpoints) /\ a.frames >= Checkpoints[a.at]
AtCheckpoint(a) ==
    \/ /\ a.at < Len(Checkpoints)          \* the notice of widening cannot be written
       /\ attempt' = [a EXCEPT !.failure = TRUE, !.stopped = TRUE, !.at = @ + 1]
       /\ UNCHANGED judged
    \/ /\ a.cues = <<>> /\ UNCHANGED judged
       /\ attempt' = [a EXCEPT !.at = @ + 1, !.stopped = (a.at = Len(Checkpoints))]
    \/ /\ a.cues # <<>>
       /\ \E v \in Findings :
             /\ Judge(Len(a.cues), v)
             /\ attempt' = [a EXCEPT !.at = @ + 1, !.failure = (v = "failed"),
                   !.stopped = v \in {"identified", "failed"} \/ a.at = Len(Checkpoints),
                   !.assessed = IF v = "failed" THEN @ ELSE <<a.frames, v>>]
Display ==
    /\ stage = "display" /\ attempt.left > 0
    /\ IF attempt.stopped
       THEN attempt' = [attempt EXCEPT !.left = @ - 1] /\ UNCHANGED judged
       ELSE \E d \in {"unchanged", "clear", "blank", "text", "unreadable"} :
               LET a == [Push(d) EXCEPT !.left = @ - 1]
               IN /\ Len(a.cues) <= MaxCues
                  /\ IF Due(a) THEN AtCheckpoint(a) ELSE attempt' = a /\ UNCHANGED judged
    /\ UNCHANGED <<fileVars, stage, scanVars, seen>>

MutPacketEnds ==
    /\ stage = "display" /\ (attempt.left = 0 \/ attempt.stopped)
    /\ IF ~attempt.sound /\ ~attempt.stopped THEN AttemptFails
       ELSE /\ stage' = IF attempt.stopped THEN "assess" ELSE "packet"
            /\ UNCHANGED <<fileVars, scanVars, attempt, judged>>
    /\ UNCHANGED seen
PacketEnds ==
    /\ stage = "display" /\ attempt.left = 0
    /\ IF ~attempt.sound THEN AttemptFails
       ELSE /\ stage' = IF attempt.stopped THEN "assess" ELSE "packet"
            /\ UNCHANGED <<fileVars, scanVars, attempt, judged>>
    /\ UNCHANGED seen
TrackEnds ==
    /\ stage = "packet"
    /\ \/ stage' = "assess" /\ UNCHANGED <<fileVars, scanVars, attempt, judged>>
       \/ AttemptFails                         \* the container, or a display set left open
    /\ UNCHANGED seen

(* final_assessment: the last checkpoint's, if no frame followed it.         *)
MutReusable == attempt.assessed # <<>>
Reusable == attempt.assessed # <<>> /\ attempt.assessed[1] = attempt.frames
Assessment ==
    /\ stage = "assess"
    /\ \/ (attempt.failure \/ attempt.cues = <<>>) /\ AttemptFails
       \/ /\ ~attempt.failure /\ attempt.cues # <<>>
          /\ \E v \in Findings :
                /\ IF Reusable THEN v = attempt.assessed[2] /\ UNCHANGED judged
                   ELSE Judge(Len(attempt.cues), v)
                /\ attempt' = [attempt EXCEPT !.result = v]
                /\ stage' = "after"
          /\ UNCHANGED <<fileVars, scanVars>>
    /\ UNCHANGED seen

ReadingNext == \/ Replaced \/ TakeSnapshot \/ Probe \/ VerifyBefore \/ OpenFile \/ VerifyAgain \/ FinalVerify
               \/ TextPacket \/ PgsPacket \/ Display \/ PacketEnds \/ TrackEnds \/ Assessment
ReadingSpec == ReadingInit /\ [][ReadingNext]_readingVars
-----------------------------------------------------------------------------
(* An outcome that reaches the rename plan rests on nothing but the file     *)
(* its snapshot is of: no byte of another version was matched, and no track  *)
(* was passed over because of one (folder.rs, match_folder).                 *)
OutcomeOfSnapshot == stage = "done" /\ outcome # "failed" => seen = {snapshot}

(* What an attempt reports is what matching says of every cue collected, all *)
(* packets read were sound to their end, although the scan was to stop in    *)
(* the last, and no cue ends before it starts or runs into the next picture  *)
(* (progressive.rs, final_assessment; ocr.rs, Collector).                    *)
JudgedWhole == attempt.result = judged[Len(attempt.cues)]
CuesTimed == \A i \in DOMAIN attempt.cues : LET c == attempt.cues[i] IN
    /\ c.start < c.end
    /\ i > 1 => attempt.cues[i - 1].start <= c.start
    /\ Pictures /\ i < Len(attempt.cues) => c.end <= attempt.cues[i + 1].start \/ c.end = c.start + 1
AssessmentIsFinal == stage = "after" => JudgedWhole /\ ~attempt.spoiled /\ CuesTimed
=============================================================================
