------------------------------- MODULE Rename -------------------------------
(* The rename plan of rename.rs: Plan::build classifies the scanned files,   *)
(* the preview is confirmed, and apply_with moves one file at a time, in an  *)
(* order that frees occupied destinations first and breaks a cycle by        *)
(* parking one of its files under a temporary name.  Every read of the       *)
(* folder is a step of its own, so another process may act between a check   *)
(* and the move that relies on it, in the phases listed in OpenPhases.       *)
EXTENDS MediaFolder

CONSTANTS N,           \* number of scanned files; they are tried in order
          NoName,      \* no destination
          Path,        \* 1..N -> Names, the scanned paths, in scan order
          Media,       \* 1..N -> Files, the file found under each
          Temps,       \* 1..N -> SUBSET Names, unused temporary names
          Key,         \* Names -> collision_key of the name
          FolderCap,   \* directory entries destination_occupant reads
          OpenPhases,  \* phases in which other processes act
          MovesFail,   \* whether a move may be refused for other reasons
          Scans,       \* results of the scan to start from
          Meddling,    \* bound: steps of other processes ...
          Tireless     \* ... unless they never stop

Entries == 1..N

Phases == {"check", "block", "prompt", "revalidate", "pick",
           "verify", "move", "stage", "park", "retake", "done"}

ASSUME RenameAssumption ==
    /\ N \in Nat
    /\ NoName \notin Names
    /\ Path \in [Entries -> Names]
    /\ Media \in [Entries -> Files]
    /\ Temps \in [Entries -> SUBSET Names]
    /\ FolderCap \in Nat
    /\ OpenPhases \subseteq Phases
    /\ MovesFail \in BOOLEAN
    /\ Meddling \in Nat
    /\ Tireless \in BOOLEAN
    /\ \A i, j \in Entries : Path[i] = Path[j] \/ Media[i] = Media[j] => i = j

VARIABLES scan,      \* per entry: kind of outcome and the name it asks for
          state,     \* per entry: State
          loc,       \* per entry: locations[i], where its file is now
          snap,      \* per entry: snapshots[i]
          staged,    \* entries that were parked under a temporary name
          applying,  \* the preview was approved
          pc,        \* phase
          at,        \* entry at work in this phase
          changed,   \* propagate_blocked changed an entry in this pass
          spare,     \* the temporary name chosen for the entry to park
          original,  \* history: the folder as it was scanned
          refused,   \* history: entries whose move the system refused
          meddled    \* history: steps of other processes, if counted

planVars == <<scan, state, loc, snap, staged, applying, pc, at, changed, spare>>
history == <<original, refused, meddled>>
vars == <<folderVars, planVars, history>>

States == {"Planned", "AlreadyCorrect", "Conflict", "Applied", "Failed",
           "Untouched"}
Kinds == {"identified", "mislabelled", "unknown", "ambiguous", "error"}
Snapshots == [file : Files, data : 0..MaxData, meta : 0..MaxMeta]

(* Names a scan finds or asks for; the others are temporary names.           *)
Ordinary == Names \ UNION {Temps[i] : i \in Entries}

Outcomes == [kind : {"identified"}, target : Ordinary]
            \cup [kind : Kinds \ {"identified"}, target : {NoName}]

ASSUME ScansAssumption == Scans \subseteq [Entries -> Outcomes]

Planned == {i \in Entries : state[i] = "Planned"}
-----------------------------------------------------------------------------
(* Plan::build, first pass: what an entry is before its folder is looked at. *)
Classify(i, s) == IF s.kind = "mislabelled" THEN "Conflict"
                  ELSE IF s.kind # "identified" THEN "Untouched"
                  ELSE IF s.target = Path[i] THEN "AlreadyCorrect"
                  ELSE "Planned"

(* Files nobody scanned may already lie under the other names.               *)
Neighbours ==
    {g \in [Ordinary \ {Path[i] : i \in Entries}
              -> (Files \ {Media[i] : i \in Entries}) \cup {NoFile}] :
        \A m, n \in DOMAIN g : m # n /\ g[m] # NoFile => g[m] # g[n]}

Init ==
    /\ \E g \in Neighbours :
          folder = [n \in Names |->
                      IF \E i \in Entries : Path[i] = n
                      THEN Media[CHOOSE i \in Entries : Path[i] = n]
                      ELSE IF n \in DOMAIN g THEN g[n] ELSE NoFile]
    /\ WellFormed
    /\ stat = [f \in Files |-> [data |-> 0, meta |-> 0]]
    /\ touched = {}
    /\ scan \in Scans
    /\ state = [i \in Entries |-> Classify(i, scan[i])]
    /\ loc = Path
    /\ snap = [i \in Entries |-> [file |-> Media[i], data |-> 0, meta |-> 0]]
    /\ staged = {}
    /\ applying = FALSE
    /\ pc = "check"
    /\ at = 1
    /\ changed = FALSE
    /\ spare = NoName
    /\ original = folder
    /\ refused = {}
    /\ meddled = 0

(* Mutations ("Mut...") are plausible bugs of the definition below them.     *)
MutVerified(i) == Present(loc[i])
Verified(i) == Present(loc[i]) /\ Take(loc[i]) = snap[i]

(* Second pass of Plan::build.  A folder lists no name twice, so its         *)
(* "duplicate source path" cannot arise.                                     *)
MutDuplicateTarget(i) == \E j \in Entries \ {i} : scan[j].target = scan[i].target
DuplicateTarget(i) == \E j \in Entries \ {i} :
                         /\ scan[j].target # NoName
                         /\ Key[scan[j].target] = Key[scan[i].target]
-----------------------------------------------------------------------------
(* destination_occupant: the entries of the folder whose name collides.      *)
Overfull == Cardinality(InFolder) > FolderCap

Occupants(n) == {m \in Names : folder[m] # NoFile /\ Key[m] = Key[n]}

Vacant(n) == ~Overfull /\ Occupants(n) = {} /\ ~Present(n)

(* dependency: Ok(None), Ok(Some(owner)), Err.                               *)
Free(i) == Vacant(scan[i].target)

MutWaitsFor(i, j) == /\ ~Overfull
                     /\ Occupants(scan[i].target) = {loc[j]}
                     /\ \A k \in Entries : loc[k] = loc[j] => k = j
WaitsFor(i, j) == /\ ~Overfull
                  /\ Occupants(scan[i].target) = {loc[j]}
                  /\ \A k \in Entries : loc[k] = loc[j] => k = j
                  /\ state[j] = "Planned"

Blocked(i) == ~Free(i) /\ ~(\E j \in Entries : WaitsFor(i, j))

SetState(i, s) == state' = [state EXCEPT ![i] = s]

Goto(p, i) == pc' = p /\ at' = i

CheckEntry ==
    /\ pc = "check"
    /\ at <= N
    /\ IF scan[at].target = NoName THEN UNCHANGED state
       ELSE IF \/ DuplicateTarget(at)
               \/ state[at] = "Planned" /\ ~Verified(at)
            THEN SetState(at, "Conflict")
       ELSE UNCHANGED state
    /\ Goto("check", at + 1)
    /\ UNCHANGED <<folderVars, scan, loc, snap, staged, applying, changed, spare, history>>

CheckEnd ==
    /\ pc = "check"
    /\ at > N
    /\ Goto("block", 1)
    /\ changed' = FALSE
    /\ UNCHANGED <<folderVars, scan, state, loc, snap, staged, applying, spare, history>>

(* propagate_blocked: passes over the entries until one changes nothing.     *)
BlockEntry ==
    /\ pc = "block"
    /\ at <= N
    /\ IF state[at] = "Planned" /\ Blocked(at)
       THEN /\ SetState(at, IF applying THEN "Failed" ELSE "Conflict")
            /\ changed' = TRUE
       ELSE UNCHANGED <<state, changed>>
    /\ Goto("block", at + 1)
    /\ UNCHANGED <<folderVars, scan, loc, snap, staged, applying, spare, history>>

BlockEnd ==
    /\ pc = "block"
    /\ at > N
    /\ Goto(IF changed THEN "block" ELSE IF applying THEN "pick" ELSE "prompt", 1)
    /\ changed' = FALSE
    /\ UNCHANGED <<folderVars, scan, state, loc, snap, staged, applying, spare, history>>
-----------------------------------------------------------------------------
(* finish: nothing planned, declined or dry run; or y/yes.                   *)
Decline ==
    /\ pc = "prompt"
    /\ Goto("done", 1)
    /\ UNCHANGED <<folderVars, scan, state, loc, snap, staged, applying, changed, spare, history>>

Approve ==
    /\ pc = "prompt"
    /\ Planned # {}
    /\ Goto("revalidate", 1)
    /\ applying' = TRUE
    /\ UNCHANGED <<folderVars, scan, state, loc, snap, staged, changed, spare, history>>

(* apply_with: every source once more, before any file moves.                *)
Revalidate ==
    /\ pc = "revalidate"
    /\ at <= N
    /\ IF at \in Planned /\ ~Verified(at) THEN SetState(at, "Failed")
                                          ELSE UNCHANGED state
    /\ Goto("revalidate", at + 1)
    /\ UNCHANGED <<folderVars, scan, loc, snap, staged, applying, changed, spare, history>>

MutRevalidateEnd ==
    /\ pc = "revalidate"
    /\ at > N
    /\ Goto("block", 0)
    /\ UNCHANGED <<folderVars, scan, state, loc, snap, staged, applying, changed, spare, history>>
RevalidateEnd ==
    /\ pc = "revalidate"
    /\ at > N
    /\ Goto("block", 1)
    /\ UNCHANGED <<folderVars, scan, state, loc, snap, staged, applying, changed, spare, history>>

(* The first pending entry whose destination is free ...                     *)
Pick ==
    /\ pc = "pick"
    /\ Planned # {}
    /\ at <= N
    /\ IF at \in Planned /\ Free(at) THEN Goto("verify", at) ELSE Goto("pick", at + 1)
    /\ UNCHANGED <<folderVars, scan, state, loc, snap, staged, applying, changed, spare, history>>

(* ... else the first one never parked: it breaks a cycle.                   *)
Parkable == Planned \ staged

PickCycle ==
    /\ pc = "pick"
    /\ at > N
    /\ \E i \in Parkable :
          /\ \A j \in Parkable : i <= j
          /\ Goto("stage", i)
    /\ UNCHANGED <<folderVars, scan, state, loc, snap, staged, applying, changed, spare, history>>

GiveUp ==
    /\ pc = "pick"
    /\ at > N
    /\ Planned # {}
    /\ Parkable = {}
    /\ state' = [i \in Entries |-> IF i \in Planned THEN "Failed" ELSE state[i]]
    /\ Goto("done", 1)
    /\ UNCHANGED <<folderVars, scan, loc, snap, staged, applying, changed, spare, history>>

Finish ==
    /\ pc = "pick"
    /\ Planned = {}
    /\ Goto("done", 1)
    /\ UNCHANGED <<folderVars, scan, state, loc, snap, staged, applying, changed, spare, history>>
-----------------------------------------------------------------------------
(* A step of one entry failed: it is Failed, and the loop starts over.       *)
MutFail(i) == /\ Goto("block", 1)  \* a bug: the entry is tried again
              /\ UNCHANGED <<folderVars, state, loc, snap, staged, spare>>
Fail(i) ==
    /\ SetState(i, "Failed")
    /\ Goto("block", 1)
    /\ UNCHANGED <<folderVars, loc, snap, staged, spare>>

(* A refusal for any other reason: no atomic no-replace, permissions.        *)
Refuse(i) ==
    /\ MovesFail
    /\ refused' = refused \cup {i}
    /\ Fail(i)

(* locations[i] follows the file.                                            *)
MutRelocate(i, to) == loc' = loc
Relocate(i, to) == loc' = [loc EXCEPT ![i] = to]

Verify ==
    /\ pc = "verify"
    /\ \/ /\ Verified(at)
          /\ Goto("move", at)
          /\ UNCHANGED <<folderVars, state, loc, snap, staged, spare>>
       \/ ~Verified(at) /\ Fail(at)
    /\ UNCHANGED <<scan, applying, changed, history>>

Move ==
    /\ pc = "move"
    /\ \/ /\ MoveNoReplace(loc[at], scan[at].target)
          /\ Relocate(at, scan[at].target)
          /\ SetState(at, "Applied")
          /\ Goto("block", 1)
          /\ UNCHANGED <<snap, staged, spare, refused>>
       \/ ~CanMove(loc[at], scan[at].target) /\ Fail(at) /\ UNCHANGED refused
       \/ Refuse(at)
    /\ UNCHANGED <<scan, applying, changed, original, meddled>>

(* verify, then temporary_name, which looks for a name nobody occupies.      *)
CanStage(i) == Verified(i) /\ \E t \in Temps[i] : Vacant(t)

Stage ==
    /\ pc = "stage"
    /\ \/ /\ Verified(at)
          /\ \E t \in Temps[at] : Vacant(t) /\ spare' = t
          /\ Goto("park", at)
          /\ UNCHANGED <<folderVars, state, loc, snap, staged>>
       \/ ~CanStage(at) /\ Fail(at)
    /\ UNCHANGED <<scan, applying, changed, history>>

Park ==
    /\ pc = "park"
    /\ \/ /\ MoveNoReplace(loc[at], spare)
          /\ Relocate(at, spare)
          /\ staged' = staged \cup {at}
          /\ Goto("retake", at)
          /\ UNCHANGED <<state, snap, spare, refused>>
       \/ ~CanMove(loc[at], spare) /\ Fail(at) /\ UNCHANGED refused
       \/ Refuse(at)
    /\ UNCHANGED <<scan, applying, changed, original, meddled>>

(* Only the ctime may differ from the snapshot the file was parked under.    *)
MutSameContent(i) == Verified(i)
SameContent(i) == /\ Present(loc[i])
                  /\ Take(loc[i]).file = snap[i].file
                  /\ Take(loc[i]).data = snap[i].data

Retake ==
    /\ pc = "retake"
    /\ \/ /\ SameContent(at)
          /\ snap' = [snap EXCEPT ![at] = Take(loc[at])]
          /\ Goto("block", 1)
          /\ UNCHANGED <<folderVars, state, loc, staged, spare>>
       \/ ~SameContent(at) /\ Fail(at)
    /\ UNCHANGED <<scan, applying, changed, history>>

Interfere == /\ pc \in OpenPhases
             /\ Others
             /\ \/ Tireless /\ UNCHANGED meddled
                \/ ~Tireless /\ meddled < Meddling /\ meddled' = meddled + 1
             /\ UNCHANGED <<planVars, original, refused>>

Answer == Decline \/ Approve
Program == \/ CheckEntry \/ CheckEnd \/ BlockEntry \/ BlockEnd
           \/ Revalidate \/ RevalidateEnd
           \/ Pick \/ PickCycle \/ GiveUp \/ Finish
           \/ Verify \/ Move \/ Stage \/ Park \/ Retake

Next == Program \/ Answer \/ Interfere

Spec == Init /\ [][Next]_vars
(* The program runs on by itself; a user need never answer, and other        *)
(* processes may act for ever.                                               *)
FairSpec == Spec /\ WF_vars(Program)
-----------------------------------------------------------------------------
TypeOK ==
    /\ FolderTypeOK
    /\ scan \in [Entries -> Outcomes]
    /\ state \in [Entries -> States]
    /\ loc \in [Entries -> Names]
    /\ snap \in [Entries -> Snapshots]
    /\ staged \subseteq Entries
    /\ applying \in BOOLEAN
    /\ pc \in Phases
    /\ at \in 1..(N + 1)
    /\ changed \in BOOLEAN
    /\ spare \in Names \cup {NoName}
    /\ original \in [Names -> Files \cup {NoFile}]
    /\ refused \subseteq Entries
    /\ meddled \in 0..Meddling

(* No step of the program makes a file disappear or changes its content,     *)
(* whatever other processes put under a destination after it was probed:     *)
(* "never overwrite another file" (docs/FOLDER.md).                          *)
NoFileLost ==
    [][planVars' # planVars =>
          /\ InFolder' = InFolder
          /\ \A f \in Files : stat'[f].data = stat[f].data]_vars

(* Where the summary says the file of an entry is: at its destination, under *)
(* the temporary name a failed entry reports, or where it was scanned.       *)
Whereabouts(i) == IF state[i] = "Applied" THEN scan[i].target
                  ELSE IF i \in staged THEN loc[i]
                  ELSE Path[i]

(* A file no other process touched is where the plan says it is, however     *)
(* the other files and entries fared.                                        *)
ReportIsTrue == \A i \in Entries :
    Media[i] \notin touched => folder[Whereabouts(i)] = Media[i]

(* If other processes act only while the prompt is open, a rename that was   *)
(* applied moved the very file and content that was scanned.                 *)
StaleNotRenamed == \A i \in Entries :
    state[i] = "Applied" => /\ FileAt(scan[i].target) = Media[i]
                            /\ stat[Media[i]].data = 0

(* summary: 1 before 3 before 2.                                             *)
MutExitCode ==
    IF \E i \in Entries : scan[i].kind = "error" \/ state[i] \in {"Conflict", "Failed"}
    THEN 1
    ELSE IF \E i \in Entries : scan[i].kind = "unknown" THEN 2
    ELSE 0
ExitCode ==
    IF \E i \in Entries : scan[i].kind = "error" \/ state[i] \in {"Conflict", "Failed"}
    THEN 1
    ELSE IF \E i \in Entries : scan[i].kind = "ambiguous" THEN 3
    ELSE IF \E i \in Entries : scan[i].kind = "unknown" THEN 2
    ELSE 0

(* After an approved run that exits 0 every file has the name it should.     *)
CleanExit ==
    pc = "done" /\ applying /\ ExitCode = 0 =>
        \A i \in Entries : Media[i] \notin touched =>
            /\ scan[i].target # NoName
            /\ folder[scan[i].target] = Media[i]

(* Without interference an entry fails only if the system refused its own    *)
(* move or its destination is still taken; one refusal stops no rename that  *)
(* did not wait for it.                                                      *)
FailedForCause ==
    pc = "done" => \A i \in Entries :
        state[i] = "Failed" => i \in refused \/ Occupants(scan[i].target) # {}

(* The summary is no pretence either way: neither a clean exit over a file   *)
(* without its name nor a failure without a cause of its own.                *)
EndingsHaveCause == FailedForCause /\ CleanExit

(* Once approved, the renames come to an end even if other processes never   *)
(* stop: "An entry is staged at most once, bounding progress".               *)
ApplyFinishes == pc = "revalidate" ~> pc = "done"

(* What the whole run does to the folder: all renames at once, or nothing.   *)
Batch == INSTANCE BatchRename
             WITH folder <- IF pc = "done" THEN folder ELSE original,
                  asked <- [i \in Entries |-> scan[i].target],
                  done <- pc = "done"

(* Without interference the chain and cycle steps amount to one simultaneous *)
(* rename of every entry that can be renamed at all.                         *)
ActsAsOneRename == Batch!Spec

(* The preview plans exactly the renames that can all be carried out.        *)
PreviewIsExact == pc = "prompt" => Planned = Batch!Movable
=============================================================================
