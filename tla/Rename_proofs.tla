---------------------------- MODULE Rename_proofs ----------------------------
(* The rename plan keeps every file and reports truly, whatever other        *)
(* processes do and for any number of entries; and when nobody else touches  *)
(* the folder its preview is exact, no entry fails without a cause, and its  *)
(* moves amount to one simultaneous rename.                                  *)
EXTENDS Rename, FiniteSetTheorems, TLAPS

(* The folder: what one move of the program, and one step of another         *)
(* process, can do to it.                                                    *)

(* A path leads to the one file in its slot.                                 *)
LEMMA FileAtSpec ==
    ASSUME WellFormed, NEW n \in Names
    PROVE  /\ \A m \in Slot(n) : folder[m] # NoFile => FileAt(n) = folder[m]
           /\ Present(n) => \E m \in Slot(n) : folder[m] # NoFile /\ FileAt(n) = folder[m]
           /\ ~Present(n) => FileAt(n) = NoFile
<1>1. ASSUME NEW m \in Slot(n), folder[m] # NoFile
      PROVE  FileAt(n) = folder[m]
  <2> DEFINE c == CHOOSE k \in Slot(n) : folder[k] # NoFile
  <2>1. c \in Slot(n) /\ folder[c] # NoFile
    BY <1>1
  <2>2. c = m
    BY <1>1, <2>1 DEF Slot, WellFormed
  <2> QED
    BY <1>1, <2>2 DEF FileAt, Present
<1> QED
  BY <1>1 DEF Present, FileAt

(* A move changes nothing but the name of one file: it keeps the directory   *)
(* well formed, loses and overwrites no file, and leaves every other file    *)
(* under its name.                                                           *)
LEMMA MoveSpec ==
    ASSUME FolderTypeOK, WellFormed, FolderAssumption,
           NEW from \in Names, NEW to \in Names, MoveNoReplace(from, to)
    PROVE  /\ FolderTypeOK'
           /\ WellFormed'
           /\ InFolder' = InFolder
           /\ \A f \in Files : stat'[f].data = stat[f].data
           /\ folder'[to] = FileAt(from)
           /\ \A n \in Names : folder[n] \notin {NoFile, FileAt(from)}
                                  => folder'[n] = folder[n]
<1> DEFINE f == FileAt(from)
<1>1. PICK s \in Slot(from) : folder[s] # NoFile /\ f = folder[s]
  BY FileAtSpec DEF MoveNoReplace, CanMove
<1>2. s \in Names /\ FsKey[s] = FsKey[from] /\ f \in Files
  BY <1>1 DEF Slot, FolderTypeOK
<1>3. \A n \in Names : folder[n] # NoFile => FsKey[n] # FsKey[to]
  BY DEF MoveNoReplace, CanMove, Present, Slot
<1>4. \A n \in Slot(from) : n # s => folder[n] = NoFile
  BY <1>1, <1>2 DEF WellFormed, Slot
<1>5. folder' = [n \in Names |-> IF n = to THEN f
                                 ELSE IF n = s THEN NoFile
                                 ELSE folder[n]]
  <2>1. folder' = [n \in Names |-> IF n = to THEN f
                                   ELSE IF n \in Slot(from) THEN NoFile
                                   ELSE folder[n]]
    BY DEF MoveNoReplace, Moved
  <2> QED
    BY <1>1, <1>4, <2>1
<1>6. s # to
  BY <1>1, <1>2, <1>3
<1>7. \A n \in Names : n # s => folder[n] # f
  BY <1>1, <1>2 DEF WellFormed
<1>8. FolderTypeOK'
  <2>1. folder' \in [Names -> Files \cup {NoFile}]
    BY <1>2, <1>5 DEF FolderTypeOK
  <2>2. PICK c \in 0..MaxMeta : stat' = [stat EXCEPT ![f].meta = c]
    BY DEF MoveNoReplace
  <2>3. stat' \in [Files -> Stats]
    BY <2>2, <1>2 DEF FolderTypeOK, Stats
  <2> QED
    BY <2>1, <2>3 DEF FolderTypeOK, MoveNoReplace
<1>9. WellFormed'
  <2> SUFFICES ASSUME NEW m \in Names, NEW n \in Names,
                      folder'[m] # NoFile, folder'[n] # NoFile,
                      folder'[m] = folder'[n] \/ FsKey[m] = FsKey[n]
               PROVE  m = n
    BY DEF WellFormed
  <2>1. CASE m = to
    BY <2>1, <1>3, <1>5, <1>7
  <2>2. CASE n = to
    BY <2>2, <1>3, <1>5, <1>7
  <2>3. CASE m # to /\ n # to
    BY <2>3, <1>5 DEF WellFormed
  <2> QED
    BY <2>1, <2>2, <2>3
<1>10. InFolder' = InFolder
  <2>1. \A g \in InFolder : g \in InFolder'
    <3> SUFFICES ASSUME NEW n \in Names, folder[n] # NoFile
                 PROVE  \E k \in Names : folder'[k] = folder[n]
      BY DEF InFolder
    <3>1. CASE n = s
      BY <3>1, <1>1, <1>5
    <3>2. CASE n # s
      BY <3>2, <1>3, <1>5
    <3> QED
      BY <3>1, <3>2
  <2>2. \A g \in InFolder' : g \in InFolder
    <3> SUFFICES ASSUME NEW n \in Names, folder'[n] # NoFile
                 PROVE  \E k \in Names : folder[k] = folder'[n]
      BY DEF InFolder
    <3> QED
      BY <1>1, <1>2, <1>5
  <2> QED
    BY <2>1, <2>2
<1>11. \A g \in Files : stat'[g].data = stat[g].data
  BY DEF MoveNoReplace, FolderTypeOK, Stats
<1>12. \A n \in Names : folder[n] \notin {NoFile, f} => folder'[n] = folder[n]
  BY <1>1, <1>3, <1>5
<1> QED
  BY <1>5, <1>8, <1>9, <1>10, <1>11, <1>12

(* Another process leaves the directory well formed, and every file it did   *)
(* not lay hands on where it was; what a path now leads to is what it led to *)
(* before, nothing, or a file that was touched.                              *)
LEMMA OthersSpec ==
    ASSUME FolderTypeOK, WellFormed, FolderAssumption, Others
    PROVE  /\ FolderTypeOK'
           /\ WellFormed'
           /\ touched \subseteq touched'
           /\ \A n \in Names : folder[n] # NoFile /\ folder[n] \notin touched'
                                  => folder'[n] = folder[n]
           /\ \A n \in Names : FileAt(n)' \in {FileAt(n), NoFile} \cup touched'
<1> DEFINE Harmless ==
      /\ FolderTypeOK'
      /\ WellFormed'
      /\ touched \subseteq touched'
      /\ \A n \in Names : folder[n] # NoFile /\ folder[n] \notin touched'
                             => folder'[n] = folder[n]
      /\ \A n \in Names : folder'[n] \in {folder[n], NoFile} \cup touched'
<1>1. Harmless
  <2>1. ASSUME NEW k \in Names, NEW f \in Files, Create(k, f)
        PROVE  Harmless
    <3>1. \A n \in Names : folder[n] # NoFile => folder[n] # f /\ FsKey[n] # FsKey[k]
      BY <2>1 DEF Create, InFolder, Present, Slot
    <3>2. stat' \in [Files -> Stats]
      BY <2>1 DEF Create, FolderTypeOK
    <3>3. folder' = [folder EXCEPT ![k] = f] /\ touched' = touched \cup {f}
      BY <2>1 DEF Create
    <3>4. folder[k] = NoFile
      BY <2>1 DEF Create, Present, Slot
    <3>5. WellFormed'
      BY <3>1, <3>3 DEF WellFormed, FolderTypeOK
    <3> QED
      BY <3>2, <3>3, <3>4, <3>5 DEF FolderTypeOK
  <2>2. ASSUME NEW k \in Names, Remove(k)
        PROVE  Harmless
    <3>1. /\ folder' = [folder EXCEPT ![k] = NoFile]
          /\ touched' = touched \cup {folder[k]}
          /\ stat' = stat
          /\ folder[k] \in Files
      BY <2>2 DEF Remove, FolderTypeOK
    <3>2. WellFormed'
      BY <3>1 DEF WellFormed, FolderTypeOK
    <3> QED
      BY <3>1, <3>2 DEF FolderTypeOK
  <2>3. ASSUME NEW k \in Names, Edit(k)
        PROVE  Harmless
    <3>1. /\ folder' = folder
          /\ touched' = touched \cup {folder[k]}
          /\ stat' \in [Files -> Stats]
          /\ folder[k] \in Files
      BY <2>3 DEF Edit, FolderTypeOK
    <3> QED
      BY <3>1 DEF FolderTypeOK, WellFormed
  <2> QED
    <3>1. CASE \E k \in Names, f \in Files : Create(k, f)
      BY <3>1, <2>1
    <3>2. CASE \E k \in Names : Remove(k) \/ Edit(k)
      BY <3>2, <2>2, <2>3
    <3> QED
      BY <3>1, <3>2 DEF Others
<1>2. ASSUME NEW n \in Names
      PROVE  FileAt(n)' \in {FileAt(n), NoFile} \cup touched'
  <2>1. CASE ~Present(n)'
    BY <2>1 DEF FileAt
  <2>2. CASE Present(n)'
    <3> DEFINE c == CHOOSE k \in Slot(n) : folder'[k] # NoFile
    <3>1. c \in Slot(n) /\ folder'[c] # NoFile /\ FileAt(n)' = folder'[c]
      BY <2>2 DEF Present, FileAt, Slot
    <3>2. CASE folder'[c] = folder[c]
      BY <3>1, <3>2, FileAtSpec
    <3>3. CASE folder'[c] # folder[c]
      BY <3>1, <3>3, <1>1 DEF Slot
    <3> QED
      BY <3>2, <3>3
  <2> QED
    BY <2>1, <2>2
<1> QED
  BY <1>1, <1>2

-----------------------------------------------------------------------------
(* The rename plan                                                           *)

Working == {"verify", "move", "stage", "park", "retake"}

(* The entry at work is planned, so it has a destination.                    *)
AtWork == /\ pc \in Working => at \in Planned
          /\ \A i \in Planned : scan[i].target \in Names
          /\ pc = "park" => spare \in Names
          /\ pc = "check" => loc = Path /\ \A i \in Entries : state[i] # "Applied"

(* locations[] and snapshots[] say what the plan reports.                    *)
Bookkept == \A i \in Entries : /\ loc[i] = Whereabouts(i)
                               /\ snap[i].file = Media[i]

Located == \A i \in Entries :
    Media[i] \notin touched => folder[loc[i]] = Media[i]

(* What is about to move was verified: it is the entry's own file, or one    *)
(* another process put in its place since.                                   *)
MoverKnown == pc \in {"move", "park"} =>
    FileAt(loc[at]) \in {Media[at], NoFile} \cup touched

IInv == /\ TypeOK
        /\ WellFormed
        /\ AtWork
        /\ Bookkept
        /\ Located
        /\ MoverKnown

USE FolderAssumption, RenameAssumption, ScansAssumption

LEMMA InitIInv == Init => IInv
<1> SUFFICES ASSUME Init PROVE IInv
  OBVIOUS
<1>1. PICK g \in Neighbours :
        folder = [n \in Names |->
                    IF \E i \in Entries : Path[i] = n
                    THEN Media[CHOOSE i \in Entries : Path[i] = n]
                    ELSE IF n \in DOMAIN g THEN g[n] ELSE NoFile]
  BY DEF Init
<1>2. \A n \in Names : folder[n] \in Files \cup {NoFile}
  <2> SUFFICES ASSUME NEW n \in Names PROVE folder[n] \in Files \cup {NoFile}
    OBVIOUS
  <2>1. CASE \E i \in Entries : Path[i] = n
    <3>1. (CHOOSE i \in Entries : Path[i] = n) \in Entries
      BY <2>1
    <3> QED
      BY <1>1, <2>1, <3>1
  <2>2. CASE ~ \E i \in Entries : Path[i] = n
    BY <1>1, <2>2 DEF Neighbours
  <2> QED
    BY <2>1, <2>2
<1>3. folder \in [Names -> Files \cup {NoFile}]
  BY <1>1, <1>2
<1>4. \A i \in Entries : folder[Path[i]] = Media[i]
  <2> SUFFICES ASSUME NEW i \in Entries PROVE folder[Path[i]] = Media[i]
    OBVIOUS
  <2>1. (CHOOSE j \in Entries : Path[j] = Path[i]) = i
    OBVIOUS
  <2> QED
    BY <1>1, <2>1
<1>5. \A i \in Entries : /\ scan[i] \in Outcomes
                         /\ state[i] = Classify(i, scan[i])
  BY DEF Init
<1>6. \A i \in Entries : /\ state[i] \in States \ {"Applied", "Failed"}
                         /\ state[i] = "Planned" => scan[i].target \in Names
  BY <1>5 DEF Classify, States, Outcomes, Ordinary, Kinds
<1>7. TypeOK
  <2>0. /\ stat = [f \in Files |-> [data |-> 0, meta |-> 0]]
        /\ touched = {} /\ loc = Path /\ staged = {} /\ pc = "check" /\ at = 1
        /\ spare = NoName /\ original = folder /\ refused = {} /\ meddled = 0
        /\ scan \in Scans
    BY DEF Init
  <2>1. FolderTypeOK
    BY <1>3, <2>0 DEF FolderTypeOK, Stats
  <2>2. state \in [Entries -> States]
    BY <1>6 DEF Init
  <2>3. snap \in [Entries -> Snapshots]
    BY DEF Init, Snapshots
  <2>4. applying \in BOOLEAN /\ changed \in BOOLEAN
    BY Zenon DEF Init
  <2> QED
    BY <1>3, <2>0, <2>1, <2>2, <2>3, <2>4 DEF TypeOK, Phases, Entries
<1>8. AtWork
  BY <1>6 DEF Init, AtWork, Working, Planned
<1>9. Bookkept
  BY <1>6 DEF Init, Bookkept, Whereabouts
<1>10. Located
  BY <1>4 DEF Init, Located
<1>11. MoverKnown
  BY DEF Init, MoverKnown
<1> QED
  BY <1>7, <1>8, <1>9, <1>10, <1>11 DEF Init, IInv

(* Steps that leave the folder alone.                                        *)
LEMMA Bookkeeping ==
    ASSUME IInv,
           UNCHANGED <<folderVars, scan, loc, original, meddled>>,
           TypeOK',
           \A i \in Entries : state'[i] = state[i] \/ state'[i] \in {"Conflict", "Failed"},
           \A i \in Entries : state[i] = "Applied" => state'[i] = "Applied",
           staged' = staged,
           \A i \in Entries : snap'[i].file = snap[i].file,
           pc' \in Working => at' \in Planned',
           pc' = "park" => spare' \in Names,
           pc' = "check" => pc = "check",
           pc' \in {"move", "park"} => FileAt(loc[at])' = Media[at]'
    PROVE  IInv'
<1>1. WellFormed'
  BY DEF IInv, WellFormed, folderVars
<1>2. AtWork'
  BY DEF IInv, AtWork, Planned
<1>3. Bookkept'
  BY DEF IInv, Bookkept, Whereabouts
<1>4. Located'
  BY DEF IInv, Located, folderVars
<1>5. MoverKnown'
  BY DEF MoverKnown
<1> QED
  BY <1>1, <1>2, <1>3, <1>4, <1>5 DEF IInv

(* A move of the entry at work, to a name that was chosen for it.            *)
LEMMA Moving ==
    ASSUME IInv, pc \in {"move", "park"}, NEW to \in Names,
           MoveNoReplace(loc[at], to),
           Relocate(at, to)
    PROVE  /\ FolderTypeOK'
           /\ WellFormed'
           /\ Located'
           /\ loc' \in [Entries -> Names]
<1>1. at \in Entries /\ loc \in [Entries -> Names]
  BY DEF IInv, AtWork, Working, Planned, TypeOK
<1>2. loc' = [loc EXCEPT ![at] = to] /\ loc' \in [Entries -> Names]
  BY <1>1 DEF Relocate
<1>3. /\ FolderTypeOK'
      /\ WellFormed'
      /\ folder'[to] = FileAt(loc[at])
      /\ \A n \in Names : folder[n] \notin {NoFile, FileAt(loc[at])}
                             => folder'[n] = folder[n]
  BY <1>1, MoveSpec DEF IInv, TypeOK
<1>4. touched' = touched
  BY DEF MoveNoReplace
<1>5. ASSUME NEW i \in Entries, Media[i] \notin touched
      PROVE  folder'[loc'[i]] = Media[i]
  <2>1. folder[loc[i]] = Media[i] /\ Media[i] # NoFile
    BY <1>5 DEF IInv, Located
  <2>2. CASE i = at
    <3>1. loc[at] \in Slot(loc[at])
      BY <1>1 DEF Slot
    <3>2. FileAt(loc[at]) = Media[at]
      BY <1>1, <2>1, <2>2, <3>1, FileAtSpec DEF IInv
    <3> QED
      BY <1>1, <1>2, <1>3, <2>2, <3>2
  <2>3. CASE i # at
    <3>1. FileAt(loc[at]) # Media[i]
      BY <1>1, <1>5, <2>1, <2>3 DEF IInv, MoverKnown
    <3>2. folder'[loc[i]] = Media[i]
      BY <1>1, <1>3, <2>1, <3>1
    <3> QED
      BY <1>1, <1>2, <2>3, <3>2
  <2> QED
    BY <2>2, <2>3
<1> QED
  BY <1>2, <1>3, <1>4, <1>5 DEF Located

LEMMA VerifiedFile ==
    ASSUME IInv, NEW i \in Entries, Verified(i)
    PROVE  FileAt(loc[i]) = Media[i]
  BY DEF Verified, Take, IInv, Bookkept

LEMMA NextIInv == IInv /\ [Next]_vars => IInv'
<1> SUFFICES ASSUME IInv, [Next]_vars PROVE IInv'
  OBVIOUS
<1> USE DEF Goto, SetState
<1>1. CASE CheckEntry
  <2>1. at \in Entries
    BY <1>1 DEF CheckEntry, IInv, TypeOK, Entries
  <2>2. TypeOK'
    BY <1>1, <2>1 DEF CheckEntry, IInv, TypeOK, Phases, States, folderVars, history, FolderTypeOK, Entries
  <2>3. \A i \in Entries : state'[i] = state[i] \/ state'[i] = "Conflict"
    BY <1>1, <2>1 DEF CheckEntry, IInv, TypeOK
  <2>4. \A i \in Entries : state[i] # "Applied"
    BY <1>1 DEF CheckEntry, IInv, AtWork
  <2> QED
    BY <1>1, <2>2, <2>3, <2>4, Bookkeeping DEF CheckEntry, history, Working
<1>2. CASE CheckEnd
  <2>0. changed' \in BOOLEAN
    BY <1>2, Zenon DEF CheckEnd
  <2>1. TypeOK'
    BY <1>2, <2>0 DEF CheckEnd, IInv, TypeOK, Phases, folderVars, history, FolderTypeOK
  <2> QED
    BY <1>2, <2>1, Bookkeeping DEF CheckEnd, history, Working
<1>3. CASE BlockEntry
  <2>1. at \in Entries
    BY <1>3 DEF BlockEntry, IInv, TypeOK, Entries
  <2>0. changed' \in BOOLEAN
    BY <1>3, Zenon DEF BlockEntry, IInv, TypeOK
  <2>2. TypeOK'
    BY <1>3, <2>0, <2>1 DEF BlockEntry, IInv, TypeOK, Phases, States, folderVars, history, FolderTypeOK, Entries
  <2>3. \A i \in Entries : \/ state'[i] = state[i]
                           \/ state[i] = "Planned" /\ state'[i] \in {"Conflict", "Failed"}
    BY <1>3, <2>1 DEF BlockEntry, IInv, TypeOK
  <2> QED
    BY <1>3, <2>2, <2>3, Bookkeeping DEF BlockEntry, history, Working
<1>4. CASE BlockEnd
  <2>0. changed' \in BOOLEAN
    BY <1>4, Zenon DEF BlockEnd
  <2>1. TypeOK'
    BY <1>4, <2>0 DEF BlockEnd, IInv, TypeOK, Phases, folderVars, history, FolderTypeOK
  <2> QED
    BY <1>4, <2>1, Bookkeeping DEF BlockEnd, history, Working
<1>5. CASE Decline
  <2>1. TypeOK'
    BY <1>5 DEF Decline, IInv, TypeOK, Phases, folderVars, history, FolderTypeOK
  <2> QED
    BY <1>5, <2>1, Bookkeeping DEF Decline, history, Working
<1>6. CASE Approve
  <2>1. TypeOK'
    BY <1>6 DEF Approve, IInv, TypeOK, Phases, folderVars, history, FolderTypeOK
  <2> QED
    BY <1>6, <2>1, Bookkeeping DEF Approve, history, Working
<1>7. CASE Revalidate
  <2>1. at \in Entries
    BY <1>7 DEF Revalidate, IInv, TypeOK, Entries
  <2>2. TypeOK'
    BY <1>7, <2>1 DEF Revalidate, IInv, TypeOK, Phases, States, folderVars, history, FolderTypeOK, Entries
  <2>3. \A i \in Entries : \/ state'[i] = state[i]
                           \/ state[i] = "Planned" /\ state'[i] = "Failed"
    BY <1>7, <2>1 DEF Revalidate, IInv, TypeOK, Planned
  <2> QED
    BY <1>7, <2>2, <2>3, Bookkeeping DEF Revalidate, history, Working
<1>8. CASE RevalidateEnd
  <2>1. TypeOK'
    BY <1>8 DEF RevalidateEnd, IInv, TypeOK, Phases, folderVars, history, FolderTypeOK
  <2> QED
    BY <1>8, <2>1, Bookkeeping DEF RevalidateEnd, history, Working
<1>9. CASE Pick
  <2>1. TypeOK'
    BY <1>9 DEF Pick, IInv, TypeOK, Phases, folderVars, history, FolderTypeOK
  <2>2. pc' \in Working => at' \in Planned'
    BY <1>9 DEF Pick, Working, Planned
  <2> QED
    BY <1>9, <2>1, <2>2, Bookkeeping DEF Pick, history
<1>10. CASE PickCycle
  <2>1. at' \in Planned /\ pc' = "stage"
    BY <1>10 DEF PickCycle, Parkable
  <2>2. TypeOK'
    BY <1>10, <2>1 DEF PickCycle, IInv, TypeOK, Phases, folderVars, history, FolderTypeOK, Planned, Entries
  <2>3. Planned' = Planned
    BY <1>10 DEF PickCycle, Planned
  <2> QED
    BY <1>10, <2>1, <2>2, <2>3, Bookkeeping DEF PickCycle, history
<1>11. CASE GiveUp
  <2>1. TypeOK'
    BY <1>11 DEF GiveUp, IInv, TypeOK, Phases, States, folderVars, history, FolderTypeOK
  <2>2. \A i \in Entries : \/ state'[i] = state[i]
                           \/ state[i] = "Planned" /\ state'[i] = "Failed"
    BY <1>11 DEF GiveUp, IInv, TypeOK, Planned
  <2> QED
    BY <1>11, <2>1, <2>2, Bookkeeping DEF GiveUp, history, Working
<1>12. CASE Finish
  <2>1. TypeOK'
    BY <1>12 DEF Finish, IInv, TypeOK, Phases, folderVars, history, FolderTypeOK
  <2> QED
    BY <1>12, <2>1, Bookkeeping DEF Finish, history, Working
<1>a. ASSUME pc \in Working, Fail(at), UNCHANGED <<scan, applying, changed, original, meddled>>,
             refused' = refused \/ refused' = refused \cup {at}
      PROVE  IInv'
  <2>1. at \in Planned /\ at \in Entries
    BY <1>a DEF IInv, AtWork, Planned
  <2>a. state' \in [Entries -> States] /\ refused' \subseteq Entries
    BY <1>a, <2>1 DEF Fail, IInv, TypeOK, States
  <2>b. pc' \in Phases /\ at' \in 1..(N + 1)
    BY <1>a DEF Fail, Phases
  <2>c. UNCHANGED <<folderVars, scan, loc, snap, staged, applying, changed, spare, original, meddled>>
    BY <1>a DEF Fail
  <2>2. TypeOK'
    BY <2>a, <2>b, <2>c DEF IInv, TypeOK, folderVars, FolderTypeOK
  <2>3. \A i \in Entries : \/ state'[i] = state[i]
                           \/ state[i] = "Planned" /\ state'[i] = "Failed"
    BY <1>a, <2>1 DEF Fail, IInv, TypeOK, Planned
  <2> QED
    BY <1>a, <2>2, <2>3, Bookkeeping DEF Fail, Working
<1>13. CASE Verify
  <2>1. CASE Verified(at) /\ Goto("move", at) /\ UNCHANGED <<folderVars, state, loc, snap, staged, spare>>
    <3>1. at \in Planned /\ at \in Entries
      BY <1>13 DEF Verify, IInv, AtWork, Working, Planned
    <3>2. TypeOK'
      BY <1>13, <2>1 DEF Verify, IInv, TypeOK, Phases, folderVars, history, FolderTypeOK
    <3>3. FileAt(loc[at]) = Media[at]
      BY <2>1, <3>1, VerifiedFile
    <3>4. FileAt(loc[at])' = Media[at]'
      BY <2>1, <3>3 DEF FileAt, Present, Slot, folderVars
    <3>5. at' \in Planned'
      BY <2>1, <3>1 DEF Planned
    <3> QED
      BY <1>13, <2>1, <3>2, <3>4, <3>5, Bookkeeping DEF Verify, history
  <2>2. CASE ~Verified(at) /\ Fail(at)
    BY <1>13, <2>2, <1>a DEF Verify, history, Working
  <2> QED
    BY <1>13, <2>1, <2>2 DEF Verify
<1>14. CASE Move
  <2>0. pc = "move" /\ at \in Planned /\ at \in Entries
        /\ scan[at].target \in Names /\ UNCHANGED <<scan, applying, changed, original, meddled>>
    BY <1>14 DEF Move, IInv, AtWork, Working, Planned
  <2>1. CASE /\ MoveNoReplace(loc[at], scan[at].target)
             /\ Relocate(at, scan[at].target)
             /\ SetState(at, "Applied")
             /\ Goto("block", 1)
             /\ UNCHANGED <<snap, staged, spare, refused>>
    <3>1. /\ FolderTypeOK' /\ WellFormed' /\ Located' /\ loc' \in [Entries -> Names]
      BY <2>0, <2>1, Moving
    <3>2. TypeOK'
      BY <2>0, <2>1, <3>1 DEF IInv, TypeOK, Phases, States, Entries
    <3>3. state' = [state EXCEPT ![at] = "Applied"] /\ loc' = [loc EXCEPT ![at] = scan[at].target]
          /\ scan' = scan /\ staged' = staged /\ snap' = snap
      BY <2>0, <2>1 DEF Relocate
    <3>4. Bookkept'
      BY <2>0, <3>3 DEF IInv, TypeOK, Bookkept, Whereabouts
    <3>5. AtWork'
      BY <2>0, <2>1, <3>3 DEF IInv, TypeOK, AtWork, Working, Planned
    <3>6. MoverKnown'
      BY <2>1 DEF MoverKnown
    <3> QED
      BY <3>1, <3>2, <3>4, <3>5, <3>6 DEF IInv
  <2>2. CASE Fail(at) /\ UNCHANGED refused
    BY <2>0, <2>2, <1>a DEF Working
  <2>3. CASE Refuse(at)
    BY <2>0, <2>3, <1>a DEF Refuse, Working
  <2> QED
    BY <1>14, <2>1, <2>2, <2>3 DEF Move
<1>15. CASE Stage
  <2>0. at \in Planned /\ at \in Entries
    BY <1>15 DEF Stage, IInv, AtWork, Working, Planned
  <2>1. CASE /\ Verified(at)
             /\ \E t \in Temps[at] : Vacant(t) /\ spare' = t
             /\ Goto("park", at)
             /\ UNCHANGED <<folderVars, state, loc, snap, staged>>
    <3>1. spare' \in Names
      BY <2>0, <2>1
    <3>2. TypeOK'
      BY <1>15, <2>1, <3>1 DEF Stage, IInv, TypeOK, Phases, folderVars, history, FolderTypeOK
    <3>3. FileAt(loc[at]) = Media[at]
      BY <2>0, <2>1, VerifiedFile
    <3>4. FileAt(loc[at])' = Media[at]'
      BY <2>1, <3>3 DEF FileAt, Present, Slot, folderVars
    <3>5. at' \in Planned'
      BY <2>0, <2>1 DEF Planned
    <3> QED
      BY <1>15, <2>1, <3>1, <3>2, <3>4, <3>5, Bookkeeping DEF Stage, history
  <2>2. CASE ~CanStage(at) /\ Fail(at)
    BY <1>15, <2>2, <1>a DEF Stage, history, Working
  <2> QED
    BY <1>15, <2>1, <2>2 DEF Stage
<1>16. CASE Park
  <2>0. pc = "park" /\ at \in Planned /\ at \in Entries
        /\ spare \in Names /\ UNCHANGED <<scan, applying, changed, original, meddled>>
    BY <1>16 DEF Park, IInv, AtWork, Working, Planned
  <2>1. CASE /\ MoveNoReplace(loc[at], spare)
             /\ Relocate(at, spare)
             /\ staged' = staged \cup {at}
             /\ Goto("retake", at)
             /\ UNCHANGED <<state, snap, spare, refused>>
    <3>1. /\ FolderTypeOK' /\ WellFormed' /\ Located' /\ loc' \in [Entries -> Names]
      BY <2>0, <2>1, Moving
    <3>2. TypeOK'
      BY <2>0, <2>1, <3>1 DEF IInv, TypeOK, Phases
    <3>3. loc' = [loc EXCEPT ![at] = spare] /\ scan' = scan /\ state' = state /\ snap' = snap
      BY <2>0, <2>1 DEF Relocate
    <3>4. Bookkept'
      BY <2>0, <2>1, <3>3 DEF IInv, TypeOK, Bookkept, Whereabouts, Planned
    <3>5. AtWork'
      BY <2>0, <2>1, <3>3 DEF IInv, AtWork, Working, Planned
    <3>6. MoverKnown'
      BY <2>1 DEF MoverKnown
    <3> QED
      BY <3>1, <3>2, <3>4, <3>5, <3>6 DEF IInv
  <2>2. CASE Fail(at) /\ UNCHANGED refused
    BY <2>0, <2>2, <1>a DEF Working
  <2>3. CASE Refuse(at)
    BY <2>0, <2>3, <1>a DEF Refuse, Working
  <2> QED
    BY <1>16, <2>1, <2>2, <2>3 DEF Park
<1>17. CASE Retake
  <2>0. at \in Planned /\ at \in Entries
    BY <1>17 DEF Retake, IInv, AtWork, Working, Planned
  <2>1. CASE /\ SameContent(at)
             /\ snap' = [snap EXCEPT ![at] = Take(loc[at])]
             /\ Goto("block", 1)
             /\ UNCHANGED <<folderVars, state, loc, staged, spare>>
    <3>1. Take(loc[at]).file = Media[at] /\ Take(loc[at]).file = FileAt(loc[at])
      BY <2>0, <2>1 DEF SameContent, IInv, Bookkept, Take
    <3>2. Take(loc[at]) \in Snapshots
      BY <2>0, <3>1 DEF Take, Snapshots, IInv, TypeOK, FolderTypeOK, Stats
    <3>3. TypeOK'
      BY <1>17, <2>0, <2>1, <3>2 DEF Retake, IInv, TypeOK, Phases, folderVars, history, FolderTypeOK, Entries
    <3>4. \A i \in Entries : snap'[i].file = snap[i].file
      BY <2>0, <2>1, <3>1 DEF IInv, TypeOK, Bookkept
    <3> QED
      BY <1>17, <2>1, <3>3, <3>4, Bookkeeping DEF Retake, history, Working
  <2>2. CASE ~SameContent(at) /\ Fail(at)
    BY <1>17, <2>2, <1>a DEF Retake, history, Working
  <2> QED
    BY <1>17, <2>1, <2>2 DEF Retake
<1>18. CASE Interfere
  <2>a. meddled' = meddled \/ (meddled < Meddling /\ meddled' = meddled + 1)
    BY <1>18, Zenon DEF Interfere
  <2>b. meddled' \in 0..Meddling
    BY <2>a DEF IInv, TypeOK
  <2>1. Others /\ UNCHANGED <<planVars, original, refused>>
    BY <1>18 DEF Interfere
  <2>2. /\ FolderTypeOK'
        /\ WellFormed'
        /\ touched \subseteq touched'
        /\ \A n \in Names : folder[n] # NoFile /\ folder[n] \notin touched'
                               => folder'[n] = folder[n]
        /\ \A n \in Names : FileAt(n)' \in {FileAt(n), NoFile} \cup touched'
    BY <2>1, OthersSpec DEF IInv, TypeOK
  <2>3. TypeOK'
    BY <2>1, <2>2, <2>b DEF IInv, TypeOK, planVars
  <2>4. AtWork'
    BY <2>1 DEF IInv, AtWork, planVars, Planned
  <2>5. Bookkept'
    BY <2>1 DEF IInv, Bookkept, Whereabouts, planVars
  <2>6. Located'
    BY <2>1, <2>2 DEF IInv, TypeOK, Located, planVars
  <2>7. MoverKnown'
    <3> SUFFICES ASSUME pc \in {"move", "park"}
                 PROVE  FileAt(loc[at])' \in {Media[at], NoFile} \cup touched'
      BY <2>1 DEF MoverKnown, planVars
    <3>1. loc[at] \in Names /\ loc' = loc /\ at' = at
      BY <2>1 DEF IInv, TypeOK, AtWork, Working, Planned, planVars
    <3>2. FileAt(loc[at]) \in {Media[at], NoFile} \cup touched
      BY DEF IInv, MoverKnown
    <3>3. FileAt(loc[at])' \in {FileAt(loc[at]), NoFile} \cup touched'
      BY <2>2, <3>1 DEF FileAt, Present, Slot
    <3> QED
      BY <2>2, <3>2, <3>3
  <2> QED
    BY <2>2, <2>3, <2>4, <2>5, <2>6, <2>7 DEF IInv
<1>19. CASE UNCHANGED vars
  BY <1>19 DEF vars, planVars, folderVars, history, IInv, TypeOK, FolderTypeOK,
               WellFormed, AtWork, Bookkept, Whereabouts, Located, MoverKnown,
               FileAt, Present, Slot, Planned
<1> QED
  BY <1>1, <1>2, <1>3, <1>4, <1>5, <1>6, <1>7, <1>8, <1>9, <1>10, <1>11, <1>12,
     <1>13, <1>14, <1>15, <1>16, <1>17, <1>18, <1>19 DEF Next, Program, Answer

LEMMA SpecIInv == Spec => []IInv
  BY InitIInv, NextIInv, PTL DEF Spec

(* Every variable keeps its type.                                            *)
THEOREM RenameTyped == Spec => []TypeOK
<1>1. IInv => TypeOK
  BY DEF IInv
<1> QED
  BY <1>1, SpecIInv, PTL

(* The report of the plan is true of every file no other process touched.    *)
THEOREM RenameReportsTruly == Spec => []ReportIsTrue
<1>1. IInv => ReportIsTrue
  BY DEF IInv, Bookkept, Located, ReportIsTrue
<1> QED
  BY <1>1, SpecIInv, PTL

(* No step of the program loses, overwrites or alters a file.                *)
THEOREM RenameLosesNothing == Spec => NoFileLost
<1>1. ASSUME IInv, [Next]_vars
      PROVE  [planVars' # planVars =>
                 /\ InFolder' = InFolder
                 /\ \A f \in Files : stat'[f].data = stat[f].data]_vars
  <2>1. ASSUME UNCHANGED folderVars
        PROVE  InFolder' = InFolder /\ \A f \in Files : stat'[f].data = stat[f].data
    BY <2>1 DEF folderVars, InFolder
  <2>2. ASSUME pc \in {"move", "park"}, NEW to \in Names, MoveNoReplace(loc[at], to)
        PROVE  InFolder' = InFolder /\ \A f \in Files : stat'[f].data = stat[f].data
    <3>1. loc[at] \in Names
      BY <1>1, <2>2 DEF IInv, TypeOK, AtWork, Working, Planned
    <3> QED
      BY <1>1, <2>2, <3>1, MoveSpec DEF IInv, TypeOK
  <2>3. CASE Move
    <3>1. scan[at].target \in Names /\ pc = "move"
      BY <1>1, <2>3 DEF Move, IInv, AtWork, Working, Planned
    <3> QED
      BY <2>1, <2>2, <2>3, <3>1 DEF Move, Fail, Refuse
  <2>4. CASE Park
    <3>1. spare \in Names /\ pc = "park"
      BY <1>1, <2>4 DEF Park, IInv, AtWork
    <3> QED
      BY <2>1, <2>2, <2>4, <3>1 DEF Park, Fail, Refuse
  <2>5. CASE Interfere
    BY <2>5 DEF Interfere
  <2>6. CASE CheckEntry \/ CheckEnd \/ BlockEntry \/ BlockEnd \/ Revalidate \/ RevalidateEnd
             \/ Pick \/ PickCycle \/ GiveUp \/ Finish \/ Answer
    BY <2>1, <2>6 DEF CheckEntry, CheckEnd, BlockEntry, BlockEnd, Revalidate, RevalidateEnd,
                      Pick, PickCycle, GiveUp, Finish, Answer, Decline, Approve
  <2>7. CASE Verify \/ Stage \/ Retake
    BY <2>1, <2>7 DEF Verify, Stage, Retake, Fail
  <2> QED
    BY <1>1, <2>1, <2>3, <2>4, <2>5, <2>6, <2>7 DEF Next, Program, vars
<1> QED
  BY <1>1, SpecIInv, PTL DEF Spec, NoFileLost

-----------------------------------------------------------------------------
(* What the plan relies on once the user has approved: every entry still     *)
(* planned leads to its own file, with the content that was scanned, and so  *)
(* does every applied one.  Before, nothing was moved.                       *)
Relied(i) == state[i] \in {"Planned", "Applied"} /\ (pc = "revalidate" => i < at)
AsScanned(i) == FileAt(loc[i]) = Media[i] /\ stat[Media[i]].data = 0
Fresh ==
    /\ \A i \in Entries : snap[i].data = 0
    /\ applying => pc \notin {"check", "prompt"}
    /\ ~applying => pc \in {"check", "block", "prompt", "done"}
    /\ ~applying \/ pc = "revalidate" => \A i \in Entries : state[i] # "Applied"
    /\ applying => \A i \in Entries : Relied(i) => AsScanned(i)

LEMMA FreshStarts == Init => Fresh
<1> SUFFICES ASSUME Init PROVE Fresh
  OBVIOUS
<1>1. ~applying /\ pc = "check" /\ \A i \in Entries : snap[i].data = 0
  BY Zenon DEF Init
<1>2. \A i \in Entries : state[i] # "Applied"
  BY DEF Init, Classify
<1> QED
  BY <1>1, <1>2 DEF Fresh

LEMMA StaysFresh ==
    ASSUME Fresh, UNCHANGED <<folderVars, loc, applying>>,
           \A i \in Entries : snap'[i].data = snap[i].data,
           \A i \in Entries : state'[i] \in {"Planned", "Applied"} => state'[i] = state[i],
           pc # "revalidate", pc' # "revalidate",
           applying => pc' \notin {"check", "prompt"},
           ~applying => pc' \in {"check", "block", "prompt", "done"}
    PROVE  Fresh'
<1>1. \A i \in Entries : Relied(i)' => Relied(i)
  BY DEF Relied
<1>2. \A i \in Entries : AsScanned(i) => AsScanned(i)'
  BY DEF AsScanned, FileAt, Present, Slot, folderVars
<1>3. applying' = applying
  OBVIOUS
<1>4. applying => \A i \in Entries : Relied(i)' => AsScanned(i)'
  BY <1>1, <1>2 DEF Fresh
<1>5. /\ \A i \in Entries : snap'[i].data = 0
      /\ ~applying => \A i \in Entries : state'[i] # "Applied"
  BY DEF Fresh
<1> QED
  BY <1>3, <1>4, <1>5 DEF Fresh

(* A move takes along the entry's own file and leaves the others'.           *)
LEMMA MovesFresh ==
    ASSUME IInv, Fresh, pc \in {"move", "park"}, NEW to \in Names,
           MoveNoReplace(loc[at], to), Relocate(at, to),
           NEW i \in Entries, AsScanned(i), AsScanned(at)
    PROVE  AsScanned(i)'
<1>1. at \in Entries /\ loc \in [Entries -> Names] /\ loc[at] \in Names /\ loc[i] \in Names
  BY DEF IInv, AtWork, Working, Planned, TypeOK
<1>2. loc' = [loc EXCEPT ![at] = to]
  BY DEF Relocate
<1>3. /\ WellFormed' /\ folder'[to] = FileAt(loc[at])
      /\ \A f \in Files : stat'[f].data = stat[f].data
      /\ \A n \in Names : folder[n] \notin {NoFile, FileAt(loc[at])} => folder'[n] = folder[n]
  BY <1>1, MoveSpec DEF IInv, TypeOK
<1>4. stat'[Media[i]].data = 0
  BY <1>3 DEF AsScanned
<1>5. \A n \in Names : \A m \in Slot(n) : folder'[m] # NoFile => FileAt(n)' = folder'[m]
  <2> SUFFICES ASSUME NEW n \in Names, NEW m \in Slot(n), folder'[m] # NoFile
               PROVE  FileAt(n)' = folder'[m]
    OBVIOUS
  <2> DEFINE c == CHOOSE k \in Slot(n) : folder'[k] # NoFile
  <2>1. c \in Slot(n) /\ folder'[c] # NoFile
    OBVIOUS
  <2>2. c = m
    BY <1>3, <2>1 DEF Slot, WellFormed
  <2>3. FileAt(n)' = folder'[c]
    BY DEF FileAt, Present, Slot
  <2> QED
    BY <2>2, <2>3
<1>6. CASE i = at
  <2>1. folder'[to] = Media[i] /\ Media[i] # NoFile /\ to \in Slot(to) /\ loc'[i] = to
    BY <1>1, <1>2, <1>3, <1>6 DEF AsScanned, Slot
  <2>2. FileAt(to)' = Media[i]
    BY <1>5, <2>1
  <2> QED
    BY <1>4, <2>1, <2>2 DEF AsScanned
<1>7. CASE i # at
  <2>1. FileAt(loc[i]) = Media[i] /\ FileAt(loc[at]) = Media[at] /\ Media[i] # Media[at]
        /\ Media[i] # NoFile /\ loc'[i] = loc[i]
    BY <1>1, <1>2, <1>7 DEF AsScanned
  <2>2. PICK m \in Slot(loc[i]) : folder[m] = Media[i]
    BY <1>1, <2>1, FileAtSpec DEF IInv
  <2>3. m \in Names /\ folder'[m] = Media[i]
    BY <1>3, <2>1, <2>2 DEF Slot
  <2>4. FileAt(loc[i])' = Media[i]
    <3> PICK k \in Names : k = loc[i]
      BY <1>1
    <3>1. k = loc'[i] /\ m \in Slot(k)
      BY <2>1, <2>2
    <3>2. FileAt(k)' = Media[i]
      BY <1>5, <2>1, <2>3, <3>1
    <3> QED
      BY <3>1, <3>2
  <2> QED
    BY <1>4, <2>1, <2>4 DEF AsScanned
<1> QED
  BY <1>6, <1>7

(* The entry at work is a planned one the user approved.                     *)
LEMMA WorkerFresh ==
    ASSUME IInv, Fresh, pc \in Working
    PROVE  applying /\ at \in Entries /\ state[at] = "Planned" /\ AsScanned(at)
BY DEF IInv, AtWork, Working, Planned, Fresh, Relied

LEMMA NextFresh ==
    ASSUME OpenPhases \subseteq {"prompt"}, IInv, Fresh, [Next]_vars
    PROVE  Fresh'
<1> USE DEF Goto, SetState
<1>1. CASE CheckEntry \/ CheckEnd \/ BlockEntry \/ BlockEnd \/ Decline \/ Pick \/ PickCycle \/ GiveUp \/ Finish
  <2>1. /\ UNCHANGED <<folderVars, loc, applying, snap>>
        /\ pc \in {"check", "block", "prompt", "pick"}
    BY <1>1 DEF CheckEntry, CheckEnd, BlockEntry, BlockEnd, Decline, Pick, PickCycle, GiveUp, Finish
  <2>2. /\ pc' # "revalidate"
        /\ applying => pc' \notin {"check", "prompt"}
        /\ ~applying => pc' \in {"check", "block", "prompt", "done"}
    BY <1>1 DEF CheckEntry, CheckEnd, BlockEntry, BlockEnd, Decline, Pick, PickCycle, GiveUp, Finish, Fresh
  <2>3. \A i \in Entries : state'[i] \in {"Planned", "Applied"} => state'[i] = state[i]
    BY <1>1 DEF CheckEntry, CheckEnd, BlockEntry, BlockEnd, Decline, Pick, PickCycle, GiveUp, Finish,
       IInv, TypeOK
  <2> QED
    BY <2>1, <2>2, <2>3, StaysFresh
<1>2. CASE Approve
  BY <1>2 DEF Approve, Fresh, Relied, Entries
<1>3. CASE Revalidate \/ RevalidateEnd
  <2>1. UNCHANGED <<folderVars, loc, applying, snap>> /\ pc = "revalidate" /\ applying
        /\ pc' \in {"revalidate", "block"}
    BY <1>3 DEF Revalidate, RevalidateEnd, Fresh
  <2>2. \A i \in Entries : state'[i] \in {"Planned", "Applied"} => state'[i] = state[i]
    BY <1>3 DEF Revalidate, RevalidateEnd, IInv, TypeOK
  <2>3. \A i \in Entries : AsScanned(i) => AsScanned(i)'
    BY <2>1 DEF AsScanned, FileAt, Present, Slot, folderVars
  <2>4. ASSUME NEW i \in Entries, Relied(i)' PROVE AsScanned(i)
    <3>1. state[i] = "Planned"
      BY <2>1, <2>2, <2>4 DEF Relied, Fresh
    <3>2. CASE i < at
      BY <2>1, <3>1, <3>2 DEF Relied, Fresh
    <3>3. CASE i = at
      <4>1. Verified(i)
        BY <1>3, <2>4, <3>1, <3>3 DEF Revalidate, RevalidateEnd, Planned, Relied, Entries, IInv, TypeOK
      <4>2. FileAt(loc[i]) = Media[i]
        BY <4>1, VerifiedFile
      <4>3. stat[FileAt(loc[i])].data = snap[i].data
        BY <4>1 DEF Verified, Take
      <4> QED
        BY <4>2, <4>3 DEF AsScanned, Fresh
    <3>4. ~(i > at)
      BY <1>3, <2>1, <2>4 DEF Revalidate, RevalidateEnd, Relied, Entries, IInv, TypeOK
    <3> QED
      BY <3>2, <3>3, <3>4 DEF IInv, TypeOK, Entries
  <2>5. \A i \in Entries : state'[i] # "Applied"
    BY <2>1, <2>2 DEF Fresh
  <2> QED
    BY <2>1, <2>3, <2>4, <2>5 DEF Fresh
<1>4. ASSUME pc \in Working, Fail(at), UNCHANGED applying
      PROVE  Fresh'
  <2>1. applying /\ at \in Entries
    BY <1>4, WorkerFresh
  <2>2. \A i \in Entries : state'[i] \in {"Planned", "Applied"} => state'[i] = state[i]
    BY <1>4, <2>1 DEF Fail, IInv, TypeOK
  <2> QED
    BY <1>4, <2>1, <2>2, StaysFresh DEF Fail, Working
<1>5. CASE Verify \/ Stage \/ Retake
  <2>1. pc \in Working /\ UNCHANGED applying
    BY <1>5 DEF Verify, Stage, Retake, Working
  <2>2. CASE Fail(at)
    BY <1>4, <2>1, <2>2
  <2>3. CASE ~Fail(at)
    <3>1. UNCHANGED <<folderVars, loc, state>> /\ pc' \in {"move", "park", "block"}
      BY <1>5, <2>3 DEF Verify, Stage, Retake
    <3>2. \A i \in Entries : snap'[i].data = snap[i].data
      BY <1>5, <2>3 DEF Verify, Stage, Retake, SameContent, Take, IInv, TypeOK
    <3>3. applying
      BY <2>1, WorkerFresh
    <3> QED
      BY <2>1, <3>1, <3>2, <3>3, StaysFresh DEF Working
  <2> QED
    BY <2>2, <2>3
<1>6. CASE Move \/ Park
  <2>1. /\ pc \in {"move", "park"} /\ pc \in Working /\ UNCHANGED applying
    BY <1>6 DEF Move, Park, Working
  <2>2. CASE Fail(at)
    BY <1>4, <2>1, <2>2
  <2>3. CASE ~Fail(at)
    <3>1. PICK to \in Names : MoveNoReplace(loc[at], to) /\ Relocate(at, to)
      BY <1>6, <2>3 DEF Move, Park, Refuse, IInv, AtWork, Working, Planned
    <3>2. /\ UNCHANGED snap /\ pc' \in {"block", "retake"}
          /\ state' = state \/ state' = [state EXCEPT ![at] = "Applied"]
      BY <1>6, <2>3 DEF Move, Park, Refuse
    <3>3. /\ applying /\ at \in Entries /\ state[at] = "Planned" /\ AsScanned(at)
      BY <2>1, WorkerFresh
    <3>4. \A i \in Entries : Relied(i)' => AsScanned(i)
      BY <2>1, <3>2, <3>3 DEF Relied, Fresh, IInv, TypeOK
    <3>5. \A i \in Entries : Relied(i)' => AsScanned(i)'
      BY <2>1, <3>1, <3>3, <3>4, MovesFresh
    <3> QED
      BY <2>1, <3>2, <3>3, <3>5 DEF Fresh
  <2> QED
    BY <2>2, <2>3
<1>7. CASE Interfere
  BY <1>7 DEF Interfere, planVars, Fresh
<1>8. CASE UNCHANGED vars
  <2>1. UNCHANGED <<folderVars, state, loc, snap, pc, at, applying>>
    BY <1>8 DEF vars, planVars
  <2>2. \A i \in Entries : (AsScanned(i) <=> AsScanned(i)') /\ (Relied(i) <=> Relied(i)')
    BY <2>1 DEF AsScanned, FileAt, Present, Slot, folderVars, Relied
  <2> QED
    BY <2>1, <2>2 DEF Fresh
<1> QED
  BY <1>1, <1>2, <1>3, <1>5, <1>6, <1>7, <1>8 DEF Next, Program, Answer

(* If others act only while the prompt is open, a rename that was applied    *)
(* moved the very file and content that was scanned, for any number of       *)
(* entries and whatever they did.                                            *)
THEOREM RenamesWhatWasScanned ==
    ASSUME OpenPhases \subseteq {"prompt"}
    PROVE  Spec => []StaleNotRenamed
<1>1. IInv /\ Fresh => StaleNotRenamed
  <2> SUFFICES ASSUME IInv, Fresh, NEW i \in Entries, state[i] = "Applied"
               PROVE  FileAt(scan[i].target) = Media[i] /\ stat[Media[i]].data = 0
    BY DEF StaleNotRenamed
  <2>1. loc[i] = scan[i].target
    BY DEF IInv, Bookkept, Whereabouts
  <2>2. AsScanned(i)
    BY DEF Fresh, Relied
  <2> QED
    BY <2>1, <2>2 DEF AsScanned
<1>2. Init => Fresh
  BY FreshStarts
<1>3. IInv /\ Fresh /\ [Next]_vars => Fresh'
  BY NextFresh
<1> QED
  BY <1>1, <1>2, <1>3, SpecIInv, PTL DEF Spec

-----------------------------------------------------------------------------
(* The preview.  What can be renamed all at once is defined from the folder  *)
(* as it was scanned; the checks and the passes of propagate_blocked are     *)
(* shown to arrive at it.                                                    *)
Target(i) == scan[i].target

(* The program tells no names apart that the file system takes for one.      *)
KeysCoarse == \A m, n \in Names : FsKey[m] = FsKey[n] => Key[m] = Key[n]

(* What can be renamed all at once, said of the plan's own variables.        *)
Asking == {i \in Entries : Target(i) \notin {NoName, Path[i]}}
Sole == {i \in Asking : ~DuplicateTarget(i)}
Held(n) == {m \in Names : original[m] # NoFile /\ Key[m] = Key[n]}
OriginalFiles == {original[n] : n \in Names} \ {NoFile}
Together(S) == \A i \in S : \/ Held(Target(i)) = {}
                            \/ \E j \in S : Held(Target(i)) = {Path[j]}
Feasible == IF Cardinality(OriginalFiles) > FolderCap THEN {}
            ELSE UNION {S \in SUBSET Sole : Together(S)}

(* The preview is computed from the folder as it was scanned: the check      *)
(* leaves the entries that ask for a name of their own, and each pass of     *)
(* propagate_blocked leaves those that can be renamed together.              *)
Early == pc = "check" \/ (pc = "block" /\ ~applying)
Phased == /\ applying => pc \notin {"check", "prompt"}
          /\ ~applying => pc \in {"check", "block", "prompt", "done"}
Still == Early => /\ folder = original /\ loc = Path
                  /\ \A i \in Entries : Verified(i)
Checking == pc = "check" => \A i \in Entries :
                state[i] = "Planned" <=> i \in Asking /\ (i < at => i \in Sole)
Blocking == pc = "block" /\ ~applying =>
    /\ Feasible \subseteq Planned /\ Planned \subseteq Sole
    /\ changed \/ \A i \in Planned : i < at => ~Blocked(i)
Previewed == pc = "prompt" => Planned = Feasible

Previewing == Phased /\ Still /\ Checking /\ Blocking /\ Previewed

(* Together they can be renamed, and whatever can be renamed is of them.     *)
LEMMA FeasibleFacts ==
    /\ Feasible \subseteq Sole
    /\ Together(Feasible)
    /\ Feasible # {} => ~(Cardinality(OriginalFiles) > FolderCap)
    /\ ~(Cardinality(OriginalFiles) > FolderCap) =>
           \A S \in SUBSET Sole : Together(S) => S \subseteq Feasible
<1>1. CASE Cardinality(OriginalFiles) > FolderCap
  BY <1>1 DEF Feasible, Together
<1>2. CASE ~(Cardinality(OriginalFiles) > FolderCap)
  <2>1. Feasible = UNION {S \in SUBSET Sole : Together(S)}
    BY <1>2 DEF Feasible
  <2>2. \A S \in SUBSET Sole : Together(S) => S \subseteq Feasible
    BY <2>1
  <2>3. Together(Feasible)
    <3> SUFFICES ASSUME NEW i \in Feasible
                 PROVE  Held(Target(i)) = {} \/ \E j \in Feasible : Held(Target(i)) = {Path[j]}
      BY DEF Together
    <3>1. PICK S \in SUBSET Sole : Together(S) /\ i \in S
      BY <2>1
    <3>2. Held(Target(i)) = {} \/ \E j \in S : Held(Target(i)) = {Path[j]}
      BY <3>1 DEF Together
    <3> QED
      BY <2>2, <3>1, <3>2
  <2> QED
    BY <1>2, <2>1, <2>2, <2>3
<1> QED
  BY <1>1, <1>2

(* An entry that asks for a name asks for one a scan may ask for.            *)
LEMMA Asked ==
    ASSUME IInv, NEW i \in Asking
    PROVE  /\ i \in Entries /\ Target(i) \in Ordinary /\ Target(i) \in Names
           /\ Target(i) # NoName
BY DEF Asking, IInv, TypeOK, Outcomes, Target, Ordinary

LEMMA SoleFacts ==
    ASSUME IInv, NEW i \in Sole
    PROVE  /\ i \in Asking
           /\ \A j \in Entries \ {i} : Target(j) # NoName => Key[Target(j)] # Key[Target(i)]
BY DEF Sole, DuplicateTarget, Target

(* A name is vacant if no name that collides with it is taken.               *)
LEMMA VacantSpec ==
    ASSUME KeysCoarse, NEW n \in Names
    PROVE  Vacant(n) <=> ~Overfull /\ Occupants(n) = {}
<1>1. Present(n) => Occupants(n) # {}
  BY DEF Present, Slot, Occupants, KeysCoarse
<1> QED
  BY <1>1 DEF Vacant

(* What blocks an entry before anything was moved.                           *)
LEMMA EarlyBlocked ==
    ASSUME KeysCoarse, IInv, Still, Early, NEW i \in Sole
    PROVE  Blocked(i) <=> \/ Cardinality(OriginalFiles) > FolderCap
                          \/ /\ Held(Target(i)) # {}
                             /\ \A j \in Planned : Held(Target(i)) # {Path[j]}
<1>1. folder = original /\ loc = Path
  BY DEF Still
<1>2. Overfull <=> Cardinality(OriginalFiles) > FolderCap
  BY <1>1 DEF Overfull, InFolder, OriginalFiles
<1>3. Occupants(Target(i)) = Held(Target(i))
  BY <1>1 DEF Occupants, Held
<1>4. Free(i) <=> ~Overfull /\ Held(Target(i)) = {}
  <2>1. Target(i) \in Names
    BY Asked, SoleFacts
  <2> QED
    BY <1>3, <2>1, VacantSpec DEF Free, Target
<1>5. \A j \in Entries : WaitsFor(i, j) <=> /\ ~Overfull /\ j \in Planned
                                           /\ Held(Target(i)) = {Path[j]}
  BY <1>1, <1>3 DEF WaitsFor, Target, Planned
<1>6. Planned \subseteq Entries
  BY DEF Planned
<1> QED
  BY <1>2, <1>4, <1>5, <1>6 DEF Blocked

BlockedEarly == \A i \in Sole : Blocked(i) <=>
    \/ Cardinality(OriginalFiles) > FolderCap
    \/ Held(Target(i)) # {} /\ \A j \in Planned : Held(Target(i)) # {Path[j]}

LEMMA EarlyBlockedThen ==
    ASSUME KeysCoarse
    PROVE  IInv' /\ Still' /\ Early' => BlockedEarly'
<1>1. IInv /\ Still /\ Early => BlockedEarly
  BY EarlyBlocked DEF BlockedEarly
<1> QED
  BY <1>1, PTL

(* What is said of the scan and of the folder as scanned stays so.           *)
LEMMA AsPlanned ==
    ASSUME UNCHANGED <<scan, original>>
    PROVE  /\ Sole' = Sole /\ Asking' = Asking /\ Feasible' = Feasible
           /\ OriginalFiles' = OriginalFiles
           /\ \A n : Held(n)' = Held(n)
           /\ \A i : Target(i)' = Target(i)
<1>1. Sole' = Sole /\ Asking' = Asking
  BY DEF Sole, Asking, Target, DuplicateTarget
<1>2. OriginalFiles' = OriginalFiles /\ \A n : Held(n)' = Held(n)
  BY DEF OriginalFiles, Held
<1>3. \A i : Target(i)' = Target(i)
  BY DEF Target
<1>4. \A S : Together(S)' = Together(S)
  BY <1>2, <1>3 DEF Together
<1>5. Feasible' = Feasible
  BY <1>1, <1>2, <1>4 DEF Feasible
<1> QED
  BY <1>1, <1>2, <1>3, <1>5

LEMMA Unplanned == [Next]_vars => UNCHANGED <<scan, original>>
BY DEF Next, Program, Answer, vars, planVars, history, CheckEntry, CheckEnd, BlockEntry,
       BlockEnd, Revalidate, RevalidateEnd, Pick, PickCycle, GiveUp, Finish, Verify, Move,
       Stage, Park, Retake, Decline, Approve, Interfere

-----------------------------------------------------------------------------
LEMMA PreviewStarts == Init => Previewing
<1> SUFFICES ASSUME Init PROVE Previewing
  OBVIOUS
<1>1. /\ pc = "check" /\ at = 1 /\ ~applying /\ folder = original /\ loc = Path
      /\ IInv
  BY InitIInv, Zenon DEF Init
<1>2. \A i \in Entries : Verified(i)
  <2> SUFFICES ASSUME NEW i \in Entries PROVE Verified(i)
    OBVIOUS
  <2>1. folder[Path[i]] = Media[i] /\ Media[i] # NoFile /\ Path[i] \in Slot(Path[i])
    BY <1>1 DEF IInv, Located, Init, Slot
  <2>2. FileAt(Path[i]) = Media[i] /\ Present(Path[i])
    BY <1>1, <2>1, FileAtSpec DEF IInv, Present
  <2>3. stat[Media[i]].data = 0 /\ stat[Media[i]].meta = 0
    BY DEF Init
  <2>4. snap[i] = [file |-> Media[i], data |-> 0, meta |-> 0]
    BY DEF Init
  <2> QED
    BY <1>1, <2>2, <2>3, <2>4 DEF Verified, Take
<1>3. ASSUME NEW i \in Entries PROVE state[i] = "Planned" <=> i \in Asking
  <2>1. state[i] = Classify(i, scan[i]) /\ scan[i] \in Outcomes
    BY <1>1 DEF Init, IInv, TypeOK
  <2> QED
    BY <2>1 DEF Classify, Asking, Target, Outcomes, Ordinary
<1> QED
  BY <1>1, <1>2, <1>3 DEF Previewing, Phased, Still, Early, Checking, Blocking, Previewed, Entries

(* Once the user has answered, the preview is over.                          *)
LEMMA PreviewOver ==
    ASSUME \/ applying' /\ pc' \notin {"check", "prompt"}
           \/ ~applying' /\ pc' = "done"
    PROVE  Previewing'
BY DEF Previewing, Phased, Still, Early, Checking, Blocking, Previewed

LEMMA VerifiedStays ==
    ASSUME UNCHANGED <<folder, stat, loc, snap>>
    PROVE  \A i : Verified(i)' = Verified(i)
BY DEF Verified, Present, Take, FileAt, Slot

LEMMA PreviewGoesOn ==
    ASSUME KeysCoarse, OpenPhases \cap {"check", "block"} = {}, IInv, Previewing, [Next]_vars
    PROVE  Previewing'
<1> USE DEF Goto, SetState
<1>0. UNCHANGED <<scan, original>> /\ IInv'
  BY Unplanned, NextIInv
<1>a. /\ Sole' = Sole /\ Asking' = Asking /\ Feasible' = Feasible
      /\ OriginalFiles' = OriginalFiles
      /\ \A n : Held(n)' = Held(n)
      /\ \A i : Target(i)' = Target(i)
  BY <1>0, AsPlanned
<1>b. /\ Phased /\ Still /\ Checking /\ Blocking /\ Previewed
  BY DEF Previewing
<1>c. ASSUME UNCHANGED <<folderVars, loc, snap, applying>>, Early
      PROVE  Still'
  <2>1. folder' = original' /\ loc' = Path
    BY <1>0, <1>b, <1>c DEF Still, folderVars
  <2>2. \A i \in Entries : Verified(i)'
    BY <1>b, <1>c, VerifiedStays DEF Still, folderVars
  <2> QED
    BY <2>1, <2>2 DEF Still
<1>1. CASE CheckEntry
  <2>1. /\ pc = "check" /\ pc' = "check" /\ at' = at + 1 /\ ~applying /\ Early
        /\ UNCHANGED <<folderVars, loc, snap, applying>> /\ at \in Entries
    BY <1>1, <1>b DEF CheckEntry, Phased, Early, IInv, TypeOK, Entries
  <2>2. ASSUME NEW i \in Entries
        PROVE  state'[i] = "Planned" <=> i \in Asking /\ (i < at + 1 => i \in Sole)
    <3>1. state[i] = "Planned" <=> i \in Asking /\ (i < at => i \in Sole)
      BY <1>b, <2>1 DEF Checking
    <3>2. CASE i # at
      <4>1. state'[i] = state[i]
        BY <1>1, <2>1, <3>2 DEF CheckEntry, IInv, TypeOK
      <4>2. i < at + 1 <=> i < at
        BY <2>1, <3>2 DEF Entries
      <4> QED
        BY <3>1, <4>1, <4>2
    <3>3. CASE i = at
      <4>1. i < at + 1 /\ ~(i < at)
        BY <2>1, <3>3 DEF Entries
      <4>2. state[i] = "Planned" <=> i \in Asking
        BY <3>1, <4>1
      <4>3. Verified(i) /\ scan[i].target = Target(i)
        BY <1>b, <2>1 DEF Still, Target
      <4>4. CASE DuplicateTarget(i) /\ Target(i) # NoName
        <5>1. state'[i] = "Conflict"
          BY <1>1, <2>1, <3>3, <4>3, <4>4 DEF CheckEntry, IInv, TypeOK
        <5>2. i \notin Sole
          BY <4>4 DEF Sole
        <5> QED
          BY <4>1, <5>1, <5>2
      <4>5. CASE ~(DuplicateTarget(i) /\ Target(i) # NoName)
        <5>1. state'[i] = state[i]
          BY <1>1, <2>1, <3>3, <4>3, <4>5 DEF CheckEntry
        <5>2. i \in Asking => i \in Sole
          BY <4>5 DEF Sole, Asking
        <5> QED
          BY <4>1, <4>2, <5>1, <5>2
      <4> QED
        BY <4>4, <4>5
    <3> QED
      BY <3>2, <3>3
  <2>3. Checking'
    BY <1>a, <2>1, <2>2 DEF Checking
  <2> QED
    BY <1>c, <2>1, <2>3 DEF Previewing, Phased, Blocking, Previewed
<1>2. CASE CheckEnd
  <2>1. /\ pc = "check" /\ pc' = "block" /\ ~applying /\ Early /\ at > N /\ at' = 1
        /\ UNCHANGED <<folderVars, loc, snap, applying, state>>
    BY <1>2, <1>b DEF CheckEnd, Phased, Early
  <2>2. Planned = Sole
    BY <1>b, <2>1 DEF Checking, Planned, Sole, Asking, Entries, IInv, TypeOK
  <2>3. Planned' = Planned
    BY <2>1 DEF Planned
  <2>4. \A i \in Planned : ~(i < 1)
    BY DEF Planned, Entries
  <2>5. Blocking'
    BY <1>a, <2>1, <2>2, <2>3, <2>4, FeasibleFacts DEF Blocking
  <2> QED
    BY <1>c, <2>1, <2>5 DEF Previewing, Phased, Checking, Previewed
<1>3. CASE BlockEntry /\ ~applying
  <2>1. /\ pc = "block" /\ pc' = "block" /\ ~applying /\ Early /\ at \in Entries /\ at' = at + 1
        /\ UNCHANGED <<folderVars, loc, snap, applying>>
    BY <1>3 DEF BlockEntry, Early, IInv, TypeOK, Entries
  <2>2. /\ Feasible \subseteq Planned /\ Planned \subseteq Sole /\ Planned \subseteq Entries
        /\ changed \/ \A i \in Planned : i < at => ~Blocked(i)
    BY <1>b, <2>1 DEF Blocking, Planned
  <2>3. CASE at \in Planned /\ Blocked(at)
    <3>1. state' = [state EXCEPT ![at] = "Conflict"] /\ changed'
      BY <1>3, <2>3 DEF BlockEntry, Planned
    <3>2. Planned' = Planned \ {at}
      BY <2>1, <3>1 DEF Planned, IInv, TypeOK
    <3>3. at \notin Feasible
      <4> SUFFICES ASSUME at \in Feasible PROVE FALSE
        OBVIOUS
      <4>1. /\ ~(Cardinality(OriginalFiles) > FolderCap)
            /\ Held(Target(at)) = {} \/ \E j \in Feasible : Held(Target(at)) = {Path[j]}
        BY FeasibleFacts DEF Together
      <4> QED
        BY <1>b, <2>1, <2>2, <2>3, <4>1, EarlyBlocked
    <3>4. Blocking'
      BY <1>a, <2>2, <3>1, <3>2, <3>3 DEF Blocking
    <3> QED
      BY <1>c, <2>1, <3>4 DEF Previewing, Phased, Checking, Previewed
  <2>4. CASE ~(at \in Planned /\ Blocked(at))
    <3>1. state' = state /\ changed' = changed
      BY <1>3, <2>1, <2>4 DEF BlockEntry, Planned
    <3>2. Planned' = Planned
      BY <3>1 DEF Planned
    <3>3. ASSUME NEW i \in Planned, i < at + 1, ~changed PROVE ~Blocked(i)'
      <4>1. i < at \/ i = at
        BY <2>1, <2>2, <3>3 DEF Entries
      <4>2. ~Blocked(i)
        BY <2>2, <2>4, <3>3, <4>1
      <4>3. IInv' /\ Still' /\ Early' /\ i \in Sole' /\ i \in Sole /\ KeysCoarse
        BY <1>0, <1>a, <1>c, <2>1, <2>2 DEF Early
      <4>4. ~(Cardinality(OriginalFiles) > FolderCap) /\
            (Held(Target(i)) = {} \/ \E j \in Planned : Held(Target(i)) = {Path[j]})
        BY <1>b, <2>1, <4>2, <4>3, EarlyBlocked
      <4>5. Blocked(i)' <=> \/ Cardinality(OriginalFiles') > FolderCap
                            \/ /\ Held(Target(i))' # {}
                               /\ \A j \in Planned' : Held(Target(i))' # {Path[j]}
        BY <4>3, EarlyBlockedThen DEF BlockedEarly
      <4>6. Held(Target(i))' = Held(Target(i))
        BY <1>a
      <4> QED
        BY <1>a, <3>2, <4>4, <4>5, <4>6
    <3>4. Blocking'
      BY <1>a, <2>1, <2>2, <3>1, <3>2, <3>3 DEF Blocking
    <3> QED
      BY <1>c, <2>1, <3>4 DEF Previewing, Phased, Checking, Previewed
  <2> QED
    BY <2>3, <2>4
<1>4. CASE BlockEnd /\ ~applying
  <2>1. /\ pc = "block" /\ ~applying /\ Early /\ at > N /\ at' = 1
        /\ UNCHANGED <<folderVars, loc, snap, applying, state>>
        /\ pc' = IF changed THEN "block" ELSE "prompt"
    BY <1>4 DEF BlockEnd, Early
  <2>2. /\ Feasible \subseteq Planned /\ Planned \subseteq Sole /\ Planned \subseteq Entries
        /\ changed \/ \A i \in Planned : i < at => ~Blocked(i)
    BY <1>b, <2>1 DEF Blocking, Planned
  <2>3. Planned' = Planned
    BY <2>1 DEF Planned
  <2>4. CASE changed
    <3>1. \A i \in Planned : ~(i < 1)
      BY DEF Planned, Entries
    <3>2. Blocking'
      BY <1>a, <2>1, <2>2, <2>3, <3>1 DEF Blocking
    <3> QED
      BY <1>c, <2>1, <2>4, <3>2 DEF Previewing, Phased, Checking, Previewed
  <2>5. CASE ~changed
    <3>1. \A i \in Planned : i < at
      BY <2>1, <2>2 DEF Entries, IInv, TypeOK
    <3>2. \A i \in Planned : ~(Cardinality(OriginalFiles) > FolderCap) /\
            (Held(Target(i)) = {} \/ \E j \in Planned : Held(Target(i)) = {Path[j]})
      BY <1>b, <2>1, <2>2, <2>5, <3>1, EarlyBlocked
    <3>3. Planned \subseteq Feasible
      <4>1. Together(Planned)
        BY <3>2 DEF Together
      <4>2. CASE Planned = {}
        BY <4>2
      <4>3. CASE Planned # {}
        BY <2>2, <3>2, <4>1, <4>3, FeasibleFacts
      <4> QED
        BY <4>2, <4>3
    <3>4. Planned' = Feasible'
      BY <1>a, <2>2, <2>3, <3>3
    <3> QED
      BY <2>1, <2>5, <3>4 DEF Previewing, Phased, Checking, Previewed, Still, Early, Blocking
  <2> QED
    BY <2>4, <2>5
<1>5. CASE Decline
  <2>1. pc = "prompt" /\ pc' = "done" /\ applying' = applying
    BY <1>5 DEF Decline
  <2>2. ~applying
    BY <1>b, <2>1 DEF Phased
  <2> QED
    BY <2>1, <2>2, PreviewOver
<1>6. CASE Approve
  BY <1>6, PreviewOver DEF Approve
<1>7. CASE (BlockEntry \/ BlockEnd) /\ applying
  <2>1. applying' = applying /\ applying /\ pc' \in {"block", "pick"}
    BY <1>7 DEF BlockEntry, BlockEnd
  <2> QED
    BY <2>1, PreviewOver
<1>8. CASE Revalidate \/ RevalidateEnd \/ Pick \/ PickCycle \/ GiveUp \/ Finish
           \/ Verify \/ Move \/ Stage \/ Park \/ Retake
  <2>1. /\ pc \in {"revalidate", "pick", "verify", "move", "stage", "park", "retake"}
        /\ applying' = applying
    BY <1>8 DEF Revalidate, RevalidateEnd, Pick, PickCycle, GiveUp, Finish, Verify, Move, Stage,
                Park, Retake
  <2>2. pc' \notin {"check", "prompt"}
    BY <1>8 DEF Revalidate, RevalidateEnd, Pick, PickCycle, GiveUp, Finish, Verify, Move, Stage,
                Park, Retake, Fail, Refuse
  <2>3. applying
    BY <1>b, <2>1 DEF Phased
  <2> QED
    BY <2>1, <2>2, <2>3, PreviewOver
<1>9. CASE Interfere
  <2>1. UNCHANGED planVars /\ pc \in OpenPhases
    BY <1>9 DEF Interfere
  <2>2. ~Early /\ ~Early' /\ pc' = pc /\ pc # "check" /\ ~(pc = "block" /\ ~applying)
    BY <2>1 DEF Early, planVars
  <2>3. Planned' = Planned
    BY <2>1 DEF planVars, Planned
  <2> QED
    BY <1>a, <1>b, <2>1, <2>2, <2>3
       DEF Previewing, Phased, Still, Checking, Blocking, Previewed, planVars
<1>10. CASE UNCHANGED vars
  <2>1. UNCHANGED <<folder, stat, state, loc, snap, pc, at, applying, changed>>
    BY <1>10 DEF vars, folderVars, planVars
  <2>2. Early' = Early /\ Planned' = Planned
    BY <2>1 DEF Early, Planned
  <2>3. Still'
    <3>1. \A i : Verified(i)' = Verified(i)
      BY <2>1, VerifiedStays
    <3> QED
      BY <1>0, <1>b, <2>1, <2>2, <3>1 DEF Still
  <2>4. \A i : Blocked(i)' = Blocked(i)
    BY <1>0, <2>1 DEF Blocked, Free, Vacant, Overfull, InFolder, Occupants, Present, Slot, WaitsFor
  <2>5. Blocking'
    BY <1>a, <1>b, <2>1, <2>2, <2>4 DEF Blocking
  <2> QED
    BY <1>a, <1>b, <2>1, <2>2, <2>3, <2>5 DEF Previewing, Phased, Checking, Previewed
<1> QED
  BY <1>1, <1>2, <1>3, <1>4, <1>5, <1>6, <1>7, <1>8, <1>9, <1>10 DEF Next, Program, Answer

(* The abstract specification says the same of its own variables.            *)
LEMMA Abstracted == pc # "done" => Batch!Movable = Feasible
<1> SUFFICES ASSUME pc # "done" PROVE Batch!Movable = Feasible
  OBVIOUS
<1>1. Batch!Candidates = Sole
  BY DEF Batch!Candidates, Batch!Entries, Sole, Asking, Target, DuplicateTarget, Entries
<1>2. \A n : Batch!Occupants(n) = Held(n)
  BY DEF Batch!Occupants, Held
<1>3. \A S \in SUBSET Sole : Batch!Possible(S) = Together(S)
  BY <1>2 DEF Batch!Possible, Together, Target, Sole, Asking, Entries
<1>4. Batch!FilesOf(IF pc = "done" THEN folder ELSE original) \ {NoFile} = OriginalFiles
  BY DEF Batch!FilesOf, OriginalFiles
<1>5. Batch!Movable = IF Cardinality(OriginalFiles) > FolderCap THEN {}
                      ELSE UNION {S \in SUBSET Sole : Batch!Possible(S)}
  <2>1. \A S : Batch!Cardinality(S) = Cardinality(S)
    BY DEF Batch!Cardinality, Cardinality
  <2> QED
    BY <1>1, <1>4, <2>1 DEF Batch!Movable
<1> QED
  BY <1>3, <1>5 DEF Feasible

(* The preview plans exactly the renames that can all be carried out, for    *)
(* any number of entries and any folder, if nobody else changes the folder   *)
(* while it is computed.                                                     *)
THEOREM PreviewsExactly ==
    ASSUME KeysCoarse, OpenPhases \cap {"check", "block"} = {}
    PROVE  Spec => []PreviewIsExact
<1>1. IInv /\ Previewing => PreviewIsExact
  BY Abstracted DEF Previewing, Previewed, PreviewIsExact
<1>2. Init => Previewing
  BY PreviewStarts
<1>3. IInv /\ Previewing /\ [Next]_vars => Previewing'
  BY PreviewGoesOn
<1> QED
  BY <1>1, <1>2, <1>3, SpecIInv, PTL DEF Spec

-----------------------------------------------------------------------------
(* The whole run, when nobody else touches the folder: where every file is   *)
(* at each step, which entries the plan still counts on, and why the others  *)
(* failed.                                                                   *)
(* Temporary names are of the program's own making: nobody scanned or asked  *)
(* for one, and each entry has one that collides with no other entry's.      *)
TempsApart ==
    /\ \A i, j \in Entries : Path[j] \notin Temps[i]
    /\ \A i \in Entries : \A t \in Temps[i] : \A n \in Ordinary : Key[t] # Key[n]
    /\ \A i \in Entries : \E t \in Temps[i] :
          \A j \in Entries \ {i} : \A u \in Temps[j] : Key[u] # Key[t]

Undisturbed == OpenPhases = {} /\ KeysCoarse /\ TempsApart

Scanned(n) == \E i \in Entries : Path[i] = n

(* The folder holds what it held when it was scanned, ...                    *)
Grounded ==
    /\ touched = {}
    /\ \A i \in Entries : original[Path[i]] = Media[i]
    /\ \A n \in Names : original[n] # NoFile => n \in Ordinary
    /\ {folder[n] : n \in Names} = {original[n] : n \in Names}

(* ... the scanned files where locations[] says, the others where they were. *)
Mapped == \A n \in Names :
    /\ (\A i \in Entries : loc[i] # n) =>
          folder[n] = IF Scanned(n) THEN NoFile ELSE original[n]
    /\ ~Scanned(n) /\ original[n] # NoFile => \A i \in Entries : loc[i] # n

Parked == \A i \in staged : state[i] # "Applied" => loc[i] \in Temps[i]

(* What Classify made of the entries nothing is planned for.                 *)
Sorted == \A i \in Entries :
    /\ state[i] = "AlreadyCorrect" => Target(i) = Path[i]
    /\ state[i] = "Untouched" => scan[i].kind \in {"unknown", "ambiguous", "error"}

(* The plan that was approved is the preview's: whatever becomes of it.      *)
Chosen ==
    /\ applying => \A i \in Entries :
          i \in Feasible <=> state[i] \in {"Planned", "Applied", "Failed"}
    /\ staged \subseteq Feasible
    /\ ~applying => /\ staged = {} /\ refused = {}
                    /\ \A i \in Entries : state[i] \notin {"Applied", "Failed"}

(* A rename fails if it is refused, or waits for one that failed where it    *)
(* was scanned; so none fails before one is refused.                         *)
Caused ==
    /\ \A i \in Entries : state[i] = "Failed" =>
          \/ i \in refused
          \/ \E k \in Feasible : /\ state[k] = "Failed" /\ k \notin staged
                                 /\ Key[Path[k]] = Key[Target(i)]
    /\ refused = {} => \A i \in Entries : state[i] # "Failed"

(* A snapshot is current, except the one a parked file is about to get.      *)
Current == applying \/ pc = "prompt" => \A i \in Planned :
    /\ snap[i].data = stat[Media[i]].data
    /\ (pc = "retake" /\ at = i) \/ snap[i].meta = stat[Media[i]].meta

(* What was probed is still so, as nobody else acts.                         *)
Prepared ==
    /\ pc \in {"verify", "move"} => Free(at)
    /\ pc = "park" => spare \in Temps[at] /\ Vacant(spare)
    /\ pc \in {"stage", "park"} => at \notin staged
    /\ pc = "pick" => \A i \in Planned : i < at => ~Free(i)
    /\ pc = "done" /\ applying => Planned = {}

Orderly == /\ Grounded /\ Mapped /\ Parked /\ Sorted
           /\ Chosen /\ Caused /\ Current /\ Prepared

-----------------------------------------------------------------------------
(* Every scanned file is where locations[] says.                             *)
LEMMA OwnFile ==
    ASSUME IInv, Grounded, NEW i \in Entries
    PROVE  /\ loc[i] \in Names /\ Media[i] \in Files /\ Media[i] # NoFile
           /\ folder[loc[i]] = Media[i]
           /\ Present(loc[i]) /\ FileAt(loc[i]) = Media[i]
<1>1. loc[i] \in Names /\ Media[i] \in Files /\ Media[i] # NoFile
  BY DEF IInv, TypeOK
<1>2. folder[loc[i]] = Media[i]
  BY DEF IInv, Located, Grounded
<1>3. loc[i] \in Slot(loc[i])
  BY <1>1 DEF Slot
<1> QED
  BY <1>1, <1>2, <1>3, FileAtSpec DEF IInv, Present

LEMMA Checked ==
    ASSUME IInv, Orderly, applying, NEW i \in Planned
    PROVE  /\ SameContent(i)
           /\ pc # "retake" \/ at # i => Verified(i)
<1>1. i \in Entries
  BY DEF Planned
<1>2. Present(loc[i]) /\ FileAt(loc[i]) = Media[i] /\ snap[i].file = Media[i]
  BY <1>1, OwnFile DEF Orderly, IInv, Bookkept
<1>3. /\ snap[i].data = stat[Media[i]].data
      /\ pc # "retake" \/ at # i => snap[i].meta = stat[Media[i]].meta
  BY DEF Orderly, Current
<1>4. snap[i] = [file |-> snap[i].file, data |-> snap[i].data, meta |-> snap[i].meta]
  BY <1>1 DEF IInv, TypeOK, Snapshots
<1> QED
  BY <1>2, <1>3, <1>4 DEF SameContent, Verified, Take

(* Where an entry that failed unparked lies, it was scanned.                 *)
LEMMA Whither ==
    ASSUME IInv, Orderly, NEW i \in Entries
    PROVE  /\ state[i] = "Applied" => loc[i] = Target(i)
           /\ state[i] # "Applied" /\ i \in staged => loc[i] \in Temps[i]
           /\ state[i] # "Applied" /\ i \notin staged => loc[i] = Path[i]
BY DEF IInv, Bookkept, Whereabouts, Target, Orderly, Parked

LEMMA RoomLeft ==
    ASSUME Orderly, Feasible # {}
    PROVE  ~Overfull
<1>1. InFolder = OriginalFiles
  BY DEF Orderly, Grounded, InFolder, OriginalFiles
<1> QED
  BY <1>1, FeasibleFacts DEF Overfull

(* What collides with the destination of an entry not yet applied lies there *)
(* since it was scanned.                                                     *)
LEMMA Standing ==
    ASSUME Undisturbed, IInv, Orderly, applying,
           NEW i \in Feasible, state[i] # "Applied",
           NEW m \in Names, folder[m] # NoFile, Key[m] = Key[Target(i)]
    PROVE  /\ original[m] # NoFile
           /\ \A j \in Entries : loc[j] = m =>
                 m = Path[j] /\ state[j] # "Applied" /\ j \notin staged
<1>1. i \in Sole /\ i \in Asking /\ i \in Entries /\ Target(i) \in Ordinary
  BY FeasibleFacts, SoleFacts, Asked
<1>2. ASSUME NEW j \in Entries, loc[j] = m
      PROVE  m = Path[j] /\ state[j] # "Applied" /\ j \notin staged
  <2>1. state[j] # "Applied"
    <3> SUFFICES ASSUME state[j] = "Applied" PROVE FALSE
      OBVIOUS
    <3>1. j \in Feasible /\ j # i
      BY DEF Orderly, Chosen
    <3>2. Target(j) # NoName /\ m = Target(j)
      BY <1>2, <3>1, Whither, FeasibleFacts, SoleFacts, Asked
    <3> QED
      BY <1>1, <3>1, <3>2, SoleFacts
  <2>2. j \notin staged
    <3> SUFFICES ASSUME j \in staged PROVE FALSE
      OBVIOUS
    <3>1. m \in Temps[j]
      BY <1>2, <2>1, Whither
    <3> QED
      BY <1>1, <3>1 DEF Undisturbed, TempsApart
  <2> QED
    BY <1>2, <2>1, <2>2, Whither
<1>3. original[m] # NoFile
  <2>1. CASE \E j \in Entries : loc[j] = m
    BY <1>2, <2>1, OwnFile DEF Orderly, Grounded
  <2>2. CASE \A j \in Entries : loc[j] # m
    BY <2>2 DEF Orderly, Mapped
  <2> QED
    BY <2>1, <2>2
<1> QED
  BY <1>2, <1>3

(* A destination that is taken is taken by one file of the plan, which was   *)
(* not moved yet.                                                            *)
LEMMA Occupied ==
    ASSUME Undisturbed, IInv, Orderly, applying,
           NEW i \in Feasible, state[i] # "Applied", Occupants(Target(i)) # {}
    PROVE  \E k \in Feasible : /\ Occupants(Target(i)) = {Path[k]} /\ loc[k] = Path[k]
                               /\ k \notin staged /\ state[k] \in {"Planned", "Failed"}
                               /\ Key[Path[k]] = Key[Target(i)]
<1>1. Occupants(Target(i)) \subseteq Held(Target(i))
  BY Standing DEF Occupants, Held
<1>2. PICK k \in Feasible : Held(Target(i)) = {Path[k]}
  BY <1>1, FeasibleFacts DEF Together
<1>3. Occupants(Target(i)) = {Path[k]} /\ k \in Entries
  BY <1>1, <1>2, FeasibleFacts, SoleFacts, Asked
<1>4. Path[k] \in Names /\ folder[Path[k]] # NoFile /\ Key[Path[k]] = Key[Target(i)]
  BY <1>3 DEF Occupants
<1>5. PICK j \in Entries : loc[j] = Path[k]
  BY <1>3, <1>4 DEF Orderly, Mapped, Scanned
<1>6. Path[k] = Path[j] /\ state[j] # "Applied" /\ j \notin staged
  BY <1>4, <1>5, Standing
<1>7. j = k
  BY <1>3, <1>6
<1>8. state[k] \in {"Planned", "Failed"}
  BY <1>3, <1>6, <1>7 DEF Orderly, Chosen
<1> QED
  BY <1>3, <1>4, <1>5, <1>6, <1>7, <1>8

(* A planned entry is free, or waits for one that is planned or has failed.  *)
LEMMA FreeUnless ==
    ASSUME Undisturbed, IInv, Orderly, applying, NEW i \in Planned, ~Free(i)
    PROVE  \E k \in Feasible : /\ k \notin staged /\ Key[Path[k]] = Key[Target(i)]
                               /\ \/ state[k] = "Planned" /\ WaitsFor(i, k)
                                  \/ state[k] = "Failed"
<1>1. i \in Entries /\ i \in Feasible /\ state[i] = "Planned"
  BY DEF Planned, Orderly, Chosen
<1>2. ~Overfull /\ Target(i) \in Names
  BY <1>1, RoomLeft, FeasibleFacts, SoleFacts, Asked
<1>3. Occupants(Target(i)) # {}
  BY <1>2, VacantSpec DEF Free, Target, Undisturbed
<1>4. PICK k \in Feasible : /\ Occupants(Target(i)) = {Path[k]} /\ loc[k] = Path[k]
                            /\ k \notin staged /\ state[k] \in {"Planned", "Failed"}
                            /\ Key[Path[k]] = Key[Target(i)]
  BY <1>1, <1>3, Occupied
<1>5. k \in Entries
  BY FeasibleFacts, SoleFacts, Asked
<1>6. \A j \in Entries : loc[j] = loc[k] => j = k
  BY <1>5, OwnFile DEF Orderly
<1>7. WaitsFor(i, k) <=> state[k] = "Planned"
  BY <1>2, <1>4, <1>6 DEF WaitsFor, Target
<1> QED
  BY <1>4, <1>7

(* The entry to park finds a temporary name.                                 *)
LEMMA TempFree ==
    ASSUME Undisturbed, IInv, Orderly, applying, NEW i \in Planned, i \notin staged
    PROVE  \E t \in Temps[i] : Vacant(t)
<1>1. i \in Entries /\ i \in Feasible /\ state[i] = "Planned"
  BY DEF Planned, Orderly, Chosen
<1>2. PICK t \in Temps[i] : \A j \in Entries \ {i} : \A u \in Temps[j] : Key[u] # Key[t]
  BY <1>1 DEF Undisturbed, TempsApart
<1>3. t \in Names /\ \A n \in Ordinary : Key[t] # Key[n]
  BY <1>1 DEF Undisturbed, TempsApart
<1>4. \A j \in Entries : Path[j] \in Ordinary
  BY DEF Undisturbed, TempsApart, Ordinary
<1>5. ASSUME NEW m \in Occupants(t) PROVE FALSE
  <2>1. m \in Names /\ folder[m] # NoFile /\ Key[m] = Key[t]
    BY <1>5 DEF Occupants
  <2>2. CASE \A j \in Entries : loc[j] # m
    <3>1. folder[m] = original[m]
      BY <2>1, <2>2 DEF Orderly, Mapped
    <3> QED
      BY <1>3, <2>1, <3>1 DEF Orderly, Grounded
  <2>3. ASSUME NEW j \in Entries, loc[j] = m PROVE FALSE
    <3>1. CASE state[j] = "Applied"
      <4>1. j \in Feasible
        BY <3>1 DEF Orderly, Chosen
      <4> QED
        BY <1>3, <2>1, <2>3, <3>1, <4>1, Whither, FeasibleFacts, SoleFacts, Asked
    <3>2. CASE state[j] # "Applied" /\ j \in staged
      BY <1>2, <2>1, <2>3, <3>2, Whither
    <3>3. CASE state[j] # "Applied" /\ j \notin staged
      BY <1>3, <1>4, <2>1, <2>3, <3>3, Whither
    <3> QED
      BY <3>1, <3>2, <3>3
  <2> QED
    BY <2>2, <2>3
<1> QED
  BY <1>1, <1>3, <1>5, RoomLeft, VacantSpec DEF Undisturbed

(* What a move of the program does to the folder.                            *)
LEMMA MoveExact ==
    ASSUME IInv, Orderly, NEW i \in Entries, NEW to \in Names, MoveNoReplace(loc[i], to)
    PROVE  /\ folder' = [n \in Names |-> IF n = to THEN Media[i]
                                         ELSE IF n = loc[i] THEN NoFile ELSE folder[n]]
           /\ folder[to] = NoFile /\ loc[i] # to
           /\ touched' = touched
           /\ \A j \in Entries : stat'[Media[j]].data = stat[Media[j]].data
           /\ \A j \in Entries \ {i} : stat'[Media[j]] = stat[Media[j]]
<1>1. /\ loc[i] \in Names /\ Media[i] \in Files /\ Media[i] # NoFile
      /\ folder[loc[i]] = Media[i] /\ FileAt(loc[i]) = Media[i]
  BY OwnFile DEF Orderly
<1>2. \A n \in Slot(loc[i]) : n # loc[i] => folder[n] = NoFile
  BY <1>1 DEF IInv, WellFormed, Slot
<1>3. folder[to] = NoFile /\ loc[i] # to
  BY <1>1 DEF MoveNoReplace, CanMove, Present, Slot
<1>4. loc[i] \in Slot(loc[i])
  BY <1>1 DEF Slot
<1>5. folder' = [n \in Names |-> IF n = to THEN Media[i]
                                 ELSE IF n \in Slot(loc[i]) THEN NoFile ELSE folder[n]]
  BY <1>1 DEF MoveNoReplace, Moved
<1>6. folder' = [n \in Names |-> IF n = to THEN Media[i]
                                 ELSE IF n = loc[i] THEN NoFile ELSE folder[n]]
  BY <1>2, <1>4, <1>5
<1>7. PICK c \in 0..MaxMeta : stat' = [stat EXCEPT ![Media[i]].meta = c]
  BY <1>1 DEF MoveNoReplace
<1>8. \A j \in Entries \ {i} : Media[j] # Media[i] /\ Media[j] \in Files
  OBVIOUS
<1>9. stat \in [Files -> Stats]
  BY DEF IInv, TypeOK, FolderTypeOK
<1>10. \A j \in Entries : stat'[Media[j]].data = stat[Media[j]].data
  BY <1>7, <1>9 DEF Stats
<1>11. \A j \in Entries \ {i} : stat'[Media[j]] = stat[Media[j]]
  BY <1>7, <1>8, <1>9
<1> QED
  BY <1>3, <1>6, <1>10, <1>11 DEF MoveNoReplace

-----------------------------------------------------------------------------
LEMMA OrderlyStarts == TempsApart /\ Init => Orderly
<1> SUFFICES ASSUME TempsApart, Init PROVE Orderly
  OBVIOUS
<1>1. /\ pc = "check" /\ ~applying /\ original = folder /\ loc = Path /\ touched = {}
      /\ staged = {} /\ refused = {} /\ IInv
  BY InitIInv, Zenon DEF Init
<1>2. PICK g \in Neighbours :
        folder = [n \in Names |->
                    IF \E i \in Entries : Path[i] = n
                    THEN Media[CHOOSE i \in Entries : Path[i] = n]
                    ELSE IF n \in DOMAIN g THEN g[n] ELSE NoFile]
  BY DEF Init
<1>3. DOMAIN g = Ordinary \ {Path[i] : i \in Entries}
  BY DEF Neighbours
<1>4. \A i \in Entries : folder[Path[i]] = Media[i] /\ Path[i] \in Ordinary
  BY <1>1 DEF IInv, Located, Ordinary, TempsApart
<1>5. \A n \in Names : folder[n] # NoFile => n \in Ordinary
  BY <1>2, <1>3, <1>4
<1>6. Grounded
  BY <1>1, <1>4, <1>5 DEF Grounded
<1>7. Mapped
  <2> SUFFICES ASSUME NEW n \in Names
               PROVE  /\ (\A i \in Entries : Path[i] # n) =>
                            folder[n] = IF Scanned(n) THEN NoFile ELSE folder[n]
                      /\ ~Scanned(n) => \A i \in Entries : Path[i] # n
    BY <1>1 DEF Mapped
  <2> QED
    BY DEF Scanned
<1>8. \A i \in Entries : state[i] = Classify(i, scan[i]) /\ scan[i] \in Outcomes
  BY <1>1 DEF Init, IInv, TypeOK
<1>9. Sorted
  BY <1>8 DEF Sorted, Classify, Target, Outcomes, Kinds
<1>10. \A i \in Entries : state[i] \notin {"Applied", "Failed"}
  BY <1>8 DEF Classify
<1>11. Chosen /\ Caused /\ Parked
  BY <1>1, <1>10 DEF Chosen, Caused, Parked
<1>12. Current /\ Prepared
  BY <1>1 DEF Current, Prepared
<1> QED
  BY <1>6, <1>7, <1>9, <1>11, <1>12 DEF Orderly

(* Steps that leave the folder alone and apply nothing.                      *)
LEMMA Landscape ==
    ASSUME Orderly, UNCHANGED <<folderVars, loc, scan, original, staged>>,
           \A i \in Entries : state'[i] = "Applied" <=> state[i] = "Applied",
           \A i \in Entries : state'[i] \in {"AlreadyCorrect", "Untouched"}
                                  => state'[i] = state[i],
           staged \subseteq Entries
    PROVE  Grounded' /\ Mapped' /\ Parked' /\ Sorted'
<1>1. folder' = folder /\ touched' = touched /\ original' = original /\ loc' = loc
  BY DEF folderVars
<1>2. Grounded'
  BY ONLY <1>1, Orderly DEF Orderly, Grounded
<1>3. Mapped'
  BY <1>1 DEF Orderly, Mapped, Scanned
<1>4. Parked'
  BY DEF Orderly, Parked
<1>5. Sorted'
  BY DEF Orderly, Sorted, Target
<1> QED
  BY <1>2, <1>3, <1>4, <1>5

(* Before the user has answered.                                             *)
LEMMA PlanningStep ==
    ASSUME IInv, Orderly, UNCHANGED <<folderVars, loc, scan, original, staged, snap, refused>>,
           ~applying, ~applying',
           \A i \in Entries : state'[i] = state[i] \/ state'[i] = "Conflict",
           pc' \in {"check", "block", "done", "prompt"},
           pc' = "prompt" => Current'
    PROVE  Orderly'
<1>1. Grounded' /\ Mapped' /\ Parked' /\ Sorted'
  <2>1. \A i \in Entries : state[i] \notin {"Applied", "Failed"}
    BY DEF Orderly, Chosen
  <2> QED
    BY <2>1, Landscape DEF IInv, TypeOK
<1>2. Chosen'
  <2>1. Feasible' = Feasible
    BY AsPlanned
  <2> QED
    BY <2>1 DEF Orderly, Chosen
<1>3. Caused'
  BY <1>2 DEF Chosen, Caused
<1>4. Current'
  BY DEF Current
<1>5. Prepared'
  BY DEF Prepared
<1> QED
  BY <1>1, <1>2, <1>3, <1>4, <1>5 DEF Orderly

(* The plan as approved, after a step that changes neither folder nor plan.  *)
LEMMA LookingStep ==
    ASSUME IInv, Orderly,
           UNCHANGED <<folderVars, loc, scan, original, staged, snap, refused, state, applying>>,
           applying, pc # "retake", Prepared'
    PROVE  Orderly'
<1>1. Grounded' /\ Mapped' /\ Parked' /\ Sorted'
  BY Landscape DEF IInv, TypeOK
<1>2. Feasible' = Feasible /\ \A i : Target(i)' = Target(i)
  BY AsPlanned
<1>3. Chosen'
  BY <1>2 DEF Orderly, Chosen
<1>4. Caused'
  BY <1>2 DEF Orderly, Caused
<1>5. Current'
  BY DEF Orderly, Current, Planned, folderVars
<1> QED
  BY <1>1, <1>3, <1>4, <1>5 DEF Orderly

(* An entry fails: the system refused its move, or it waits for one that     *)
(* failed.                                                                   *)
LEMMA FailingStep ==
    ASSUME IInv, Orderly, NEW S \in SUBSET Planned,
           UNCHANGED <<folderVars, loc, scan, original, staged, snap, applying>>,
           applying, pc = "retake" => at \in S,
           pc' \in {"block", "done"},
           pc' = "done" => S = Planned,
           state' = [i \in Entries |-> IF i \in S THEN "Failed" ELSE state[i]],
           refused \subseteq refused',
           \A i \in S : \/ i \in refused'
                        \/ \E k \in Feasible : /\ state[k] = "Failed" /\ k \notin staged
                                               /\ Key[Path[k]] = Key[Target(i)]
    PROVE  Orderly'
<1>1. S \subseteq Entries /\ \A i \in S : state[i] = "Planned"
  BY DEF Planned
<1>2. \A i \in Entries : state'[i] = IF i \in S THEN "Failed" ELSE state[i]
  OBVIOUS
<1>3. Grounded' /\ Mapped' /\ Parked' /\ Sorted'
  BY <1>1, <1>2, Landscape DEF IInv, TypeOK
<1>4. /\ Feasible' = Feasible /\ Feasible \subseteq Entries
      /\ \A i : Target(i)' = Target(i)
  BY AsPlanned, FeasibleFacts, SoleFacts, Asked
<1>5. Chosen'
  BY <1>1, <1>2, <1>4 DEF Orderly, Chosen
<1>6. Caused'
  <2>1. ASSUME NEW i \in Entries, state'[i] = "Failed"
        PROVE  \/ i \in refused'
               \/ \E k \in Feasible : /\ state[k] = "Failed" /\ k \notin staged
                                      /\ Key[Path[k]] = Key[Target(i)]
    BY <1>2, <2>1 DEF Orderly, Caused
  <2>2. \A k \in Feasible : state[k] = "Failed" => state'[k] = "Failed"
    BY <1>2, <1>4
  <2>3. ASSUME NEW i \in Entries, state'[i] = "Failed"
        PROVE  \/ i \in refused'
               \/ \E k \in Feasible' : /\ state'[k] = "Failed" /\ k \notin staged'
                                       /\ Key[Path[k]] = Key[Target(i)']
    BY <1>4, <2>1, <2>2, <2>3
  <2>4. refused' = {} => \A i \in Entries : state'[i] # "Failed"
    <3> SUFFICES ASSUME refused' = {}, NEW i \in Entries, state'[i] = "Failed" PROVE FALSE
      OBVIOUS
    <3>1. PICK k \in Feasible : state[k] = "Failed"
      BY <2>1
    <3> QED
      BY <1>4, <3>1 DEF Orderly, Caused
  <2> QED
    BY <2>3, <2>4 DEF Caused
<1>7. Planned' = Planned \ S
  BY <1>1, <1>2 DEF Planned
<1>8. Current'
  BY <1>7 DEF Orderly, Current, folderVars
<1>9. Prepared'
  BY <1>7 DEF Prepared
<1> QED
  BY <1>3, <1>5, <1>6, <1>8, <1>9 DEF Orderly

LEMMA SameImage ==
    ASSUME NEW f, NEW g, NEW S,
           \A x : (\E n \in S : f[n] = x) <=> \E n \in S : g[n] = x
    PROVE  {f[n] : n \in S} = {g[n] : n \in S}
<1>1. ASSUME NEW n \in S PROVE f[n] \in {g[m] : m \in S}
  <2>1. PICK m \in S : g[m] = f[n]
    OBVIOUS
  <2> QED
    BY <2>1
<1>2. ASSUME NEW n \in S PROVE g[n] \in {f[m] : m \in S}
  <2>1. PICK m \in S : f[m] = g[n]
    OBVIOUS
  <2> QED
    BY <2>1
<1> QED
  BY <1>1, <1>2

(* A move of the entry at work.                                              *)
LEMMA MovingStep ==
    ASSUME Undisturbed, IInv, Orderly, applying, pc \in {"move", "park"},
           NEW to \in Names, MoveNoReplace(loc[at], to), Relocate(at, to),
           UNCHANGED <<scan, original, snap, applying, refused>>,
           \/ /\ SetState(at, "Applied") /\ staged' = staged /\ pc' = "block"
              /\ to = Target(at)
           \/ /\ state' = state /\ staged' = staged \cup {at} /\ pc' = "retake" /\ at' = at
              /\ to \in Temps[at]
    PROVE  Orderly'
<1>1. at \in Entries /\ state[at] = "Planned" /\ at \in Feasible
  BY DEF IInv, AtWork, Working, Planned, Orderly, Chosen
<1>2. /\ folder' = [n \in Names |-> IF n = to THEN Media[at]
                                    ELSE IF n = loc[at] THEN NoFile ELSE folder[n]]
      /\ folder[to] = NoFile /\ loc[at] # to
      /\ touched' = touched
      /\ \A j \in Entries : stat'[Media[j]].data = stat[Media[j]].data
      /\ \A j \in Entries \ {at} : stat'[Media[j]] = stat[Media[j]]
  BY <1>1, MoveExact
<1>3. loc' = [loc EXCEPT ![at] = to] /\ loc \in [Entries -> Names]
  BY DEF Relocate, IInv, TypeOK
<1>4. \A i \in Entries : loc'[i] = IF i = at THEN to ELSE loc[i]
  BY <1>1, <1>3
<1>5. folder[loc[at]] = Media[at] /\ loc[at] \in Names
  BY <1>1, OwnFile DEF Orderly
<1>6. Grounded'
  <2>1. ASSUME NEW f
        PROVE  (\E n \in Names : folder'[n] = f) <=> \E n \in Names : folder[n] = f
    <3>1. CASE f = Media[at]
      BY <1>2, <1>5, <3>1
    <3>2. CASE f = NoFile
      BY <1>2, <1>5, <3>2
    <3>3. CASE f # Media[at] /\ f # NoFile
      BY <1>2, <1>5, <3>3
    <3> QED
      BY <3>1, <3>2, <3>3
  <2>2. {folder'[n] : n \in Names} = {folder[n] : n \in Names}
    <3> DEFINE g == folder'
    <3>1. \A f : (\E n \in Names : g[n] = f) <=> \E n \in Names : folder[n] = f
      BY <2>1
    <3>2. {g[n] : n \in Names} = {folder[n] : n \in Names}
      <4> HIDE DEF g
      <4> QED
        BY ONLY <3>1, SameImage
    <3> QED
      BY <3>2
  <2>3. touched' = {} /\ original' = original
    BY <1>2 DEF Orderly, Grounded
  <2> QED
    BY ONLY Orderly, <2>2, <2>3 DEF Orderly, Grounded
<1>7. Mapped'
  <2> SUFFICES ASSUME NEW n \in Names
               PROVE  /\ (\A i \in Entries : loc'[i] # n) =>
                            folder'[n] = IF Scanned(n) THEN NoFile ELSE original[n]
                      /\ ~Scanned(n) /\ original[n] # NoFile => \A i \in Entries : loc'[i] # n
    BY DEF Mapped, Scanned
  <2>1. /\ (\A i \in Entries : loc[i] # n) =>
              folder[n] = IF Scanned(n) THEN NoFile ELSE original[n]
        /\ ~Scanned(n) /\ original[n] # NoFile => \A i \in Entries : loc[i] # n
    BY DEF Orderly, Mapped
  <2>2. ASSUME \A i \in Entries : loc'[i] # n
        PROVE  folder'[n] = IF Scanned(n) THEN NoFile ELSE original[n]
    <3>1. n # to
      BY <1>1, <1>4, <2>2
    <3>2. CASE n = loc[at]
      BY <1>1, <1>2, <2>1, <3>1, <3>2
    <3>3. CASE n # loc[at]
      BY <1>1, <1>2, <1>4, <2>1, <2>2, <3>1, <3>3
    <3> QED
      BY <3>2, <3>3
  <2>3. ASSUME ~Scanned(n), original[n] # NoFile, NEW i \in Entries
        PROVE  loc'[i] # n
    BY <1>2, <1>4, <2>1, <2>3
  <2> QED
    BY <2>2, <2>3
<1>8. state \in [Entries -> States] /\ staged \subseteq Entries
  BY DEF IInv, TypeOK
<1>9. \A i \in Entries : state'[i] = state[i] \/ (i = at /\ state'[i] = "Applied")
  BY <1>1, <1>8 DEF SetState
<1>10. Parked'
  <2> SUFFICES ASSUME NEW i \in staged', state'[i] # "Applied" PROVE loc'[i] \in Temps[i]
    BY DEF Parked
  <2>1. CASE i = at
    BY <1>1, <1>4, <1>8, <2>1 DEF SetState, Prepared, Orderly
  <2>2. CASE i # at
    <3>1. i \in staged /\ i \in Entries /\ state[i] # "Applied"
      BY <1>8, <1>9, <2>2
    <3> QED
      BY <1>4, <2>2, <3>1 DEF Orderly, Parked
  <2> QED
    BY <2>1, <2>2
<1>11. Sorted'
  BY <1>9 DEF Orderly, Sorted, Target
<1>12. Feasible' = Feasible /\ Feasible \subseteq Entries /\ \A i : Target(i)' = Target(i)
  BY AsPlanned, FeasibleFacts, SoleFacts, Asked
<1>13. Chosen'
  BY <1>1, <1>9, <1>12 DEF Orderly, Chosen
<1>14. Caused'
  <2>1. \A i \in Entries : state'[i] = "Failed" <=> state[i] = "Failed"
    BY <1>1, <1>9
  <2>2. \A k \in Feasible : state[k] = "Failed" /\ k \notin staged => k \notin staged'
    BY <1>1
  <2>3. \A i \in Entries : state[i] = "Failed" =>
          \/ i \in refused
          \/ \E k \in Feasible : /\ state[k] = "Failed" /\ k \notin staged
                                 /\ Key[Path[k]] = Key[Target(i)]
    BY DEF Orderly, Caused
  <2>4. ASSUME NEW i \in Entries, state'[i] = "Failed"
        PROVE  \/ i \in refused'
               \/ \E k \in Feasible' : /\ state'[k] = "Failed" /\ k \notin staged'
                                       /\ Key[Path[k]] = Key[Target(i)']
    BY <1>12, <2>1, <2>2, <2>3, <2>4
  <2>5. refused' = {} => \A i \in Entries : state'[i] # "Failed"
    BY <2>1 DEF Orderly, Caused
  <2> QED
    BY <2>4, <2>5 DEF Caused
<1>15. Current'
  <2> SUFFICES ASSUME NEW i \in Planned'
               PROVE  /\ snap[i].data = stat'[Media[i]].data
                      /\ (pc' = "retake" /\ at' = i) \/ snap[i].meta = stat'[Media[i]].meta
    BY DEF Current
  <2>1. i \in Entries /\ i \in Planned
    BY <1>9 DEF Planned
  <2>2. /\ snap[i].data = stat[Media[i]].data
        /\ snap[i].meta = stat[Media[i]].meta
    BY <2>1 DEF Orderly, Current
  <2>3. CASE i = at
    BY <1>1, <1>2, <1>8, <2>2, <2>3 DEF SetState, Planned
  <2>4. CASE i # at
    BY <1>2, <2>1, <2>2, <2>4
  <2> QED
    BY <2>3, <2>4
<1>16. Prepared'
  BY DEF Prepared
<1> QED
  BY <1>6, <1>7, <1>10, <1>11, <1>13, <1>14, <1>15, <1>16 DEF Orderly

-----------------------------------------------------------------------------
(* While the program works on an entry, or looks for the next one.           *)
LEMMA PlannedAtWork ==
    ASSUME IInv, Orderly, Phased, pc \in Working
    PROVE  applying /\ at \in Planned /\ at \in Entries /\ at \in Feasible
<1>1. at \in Planned /\ applying
  BY DEF IInv, AtWork, Working, Phased
<1> QED
  BY <1>1 DEF Planned, Orderly, Chosen

LEMMA ApproveStep ==
    ASSUME IInv, Orderly, Previewing, Approve
    PROVE  Orderly'
<1>1. /\ pc = "prompt" /\ pc' = "revalidate" /\ ~applying /\ applying'
      /\ UNCHANGED <<folderVars, scan, state, loc, snap, staged, original, refused>>
  BY DEF Approve, Goto, history, Previewing, Phased
<1>2. Grounded' /\ Mapped' /\ Parked' /\ Sorted'
  BY <1>1, Landscape DEF IInv, TypeOK
<1>3. Feasible' = Feasible /\ Planned = Feasible /\ \A i : Target(i)' = Target(i)
  BY <1>1, AsPlanned DEF Previewing, Previewed
<1>4. Chosen'
  BY <1>1, <1>3 DEF Orderly, Chosen, Planned, Sole, Asking
<1>5. Caused'
  BY <1>1 DEF Orderly, Chosen, Caused
<1>6. Current'
  BY <1>1 DEF Orderly, Current, Planned, folderVars
<1>7. Prepared'
  BY <1>1 DEF Prepared
<1> QED
  BY <1>2, <1>4, <1>5, <1>6, <1>7 DEF Orderly

(* As the preview ends, its snapshots are current.                           *)
LEMMA CurrentAtPrompt ==
    ASSUME IInv, Still, Early, UNCHANGED <<folderVars, snap, state>>
    PROVE  \A i \in Planned' : /\ snap'[i].data = stat'[Media[i]].data
                               /\ snap'[i].meta = stat'[Media[i]].meta
<1> SUFFICES ASSUME NEW i \in Planned
             PROVE  snap[i].data = stat[Media[i]].data /\ snap[i].meta = stat[Media[i]].meta
  BY DEF Planned, folderVars
<1>1. i \in Entries /\ Verified(i)
  BY DEF Planned, Still
<1>2. FileAt(loc[i]) = Media[i] /\ Take(loc[i]) = snap[i]
  BY <1>1, VerifiedFile DEF Verified
<1> QED
  BY <1>2 DEF Take

(* Verify and the move itself succeed unless the system refuses the move.    *)
LEMMA NeverInTheWay ==
    ASSUME IInv, Orderly, Phased, Undisturbed
    PROVE  /\ pc = "revalidate" => \A i \in Planned : Verified(i)
           /\ pc = "verify" => Verified(at)
           /\ pc = "move" => CanMove(loc[at], Target(at))
           /\ pc = "stage" => CanStage(at)
           /\ pc = "park" => CanMove(loc[at], spare)
           /\ pc = "retake" => SameContent(at)
<1>1. pc = "revalidate" => \A i \in Planned : Verified(i)
  BY Checked DEF Phased, Orderly
<1>2. pc = "verify" => Verified(at)
  BY Checked, PlannedAtWork DEF Working
<1>3. pc = "move" => CanMove(loc[at], Target(at))
  BY PlannedAtWork, OwnFile DEF Working, CanMove, Orderly, Prepared, Free, Vacant, Target
<1>4. pc = "stage" => CanStage(at)
  <2> SUFFICES ASSUME pc = "stage" PROVE CanStage(at)
    OBVIOUS
  <2>1. applying /\ at \in Planned
    BY PlannedAtWork DEF Working
  <2>2. at \notin staged
    BY DEF Orderly, Prepared
  <2>3. Verified(at)
    BY <2>1, Checked
  <2>4. \E t \in Temps[at] : Vacant(t)
    BY <2>1, <2>2, TempFree
  <2> QED
    BY <2>3, <2>4 DEF CanStage
<1>5. pc = "park" => CanMove(loc[at], spare)
  BY PlannedAtWork, OwnFile DEF Working, CanMove, Orderly, Prepared, Vacant
<1>6. pc = "retake" => SameContent(at)
  BY Checked, PlannedAtWork DEF Working
<1> QED
  BY <1>1, <1>2, <1>3, <1>4, <1>5, <1>6

LEMMA NextOrderly ==
    ASSUME Undisturbed, IInv, Previewing, Orderly, [Next]_vars
    PROVE  Orderly'
<1> USE DEF Goto
<1>0. IInv' /\ Phased /\ Phased' /\ Previewing'
  BY NextIInv, PreviewGoesOn DEF Undisturbed, Previewing
<1>a. UNCHANGED <<scan, original>>
  BY Unplanned
<1>b. state \in [Entries -> States] /\ at \in 1..(N + 1) /\ Planned \subseteq Entries
  BY DEF IInv, TypeOK, Planned
<1>1. CASE CheckEntry
  <2>1. /\ UNCHANGED <<folderVars, loc, scan, original, staged, snap, refused, applying>>
        /\ ~applying /\ pc' = "check"
    BY <1>0, <1>1 DEF CheckEntry, Phased, history
  <2>2. \A i \in Entries : state'[i] = state[i] \/ state'[i] = "Conflict"
    BY <1>1, <1>b DEF CheckEntry, SetState
  <2> QED
    BY <2>1, <2>2, PlanningStep
<1>2. CASE CheckEnd
  <2>1. /\ UNCHANGED <<folderVars, loc, scan, original, staged, snap, refused, state, applying>>
        /\ ~applying /\ pc' = "block"
    BY <1>0, <1>2 DEF CheckEnd, Phased, history
  <2> QED
    BY <2>1, PlanningStep
<1>3. CASE BlockEntry /\ ~applying
  <2>1. /\ UNCHANGED <<folderVars, loc, scan, original, staged, snap, refused, applying>>
        /\ ~applying /\ pc' = "block"
    BY <1>3 DEF BlockEntry, history
  <2>2. \A i \in Entries : state'[i] = state[i] \/ state'[i] = "Conflict"
    BY <1>3, <1>b DEF BlockEntry, SetState
  <2> QED
    BY <2>1, <2>2, PlanningStep
<1>4. CASE BlockEnd /\ ~applying
  <2>1. /\ UNCHANGED <<folderVars, loc, scan, original, staged, snap, refused, state, applying>>
        /\ ~applying /\ pc = "block" /\ pc' \in {"block", "prompt"}
    BY <1>4 DEF BlockEnd, history
  <2>2. Current'
    BY <2>1, CurrentAtPrompt DEF Previewing, Early, Current
  <2> QED
    BY <2>1, <2>2, PlanningStep
<1>5. CASE Decline
  <2>1. /\ UNCHANGED <<folderVars, loc, scan, original, staged, snap, refused, state, applying>>
        /\ ~applying /\ pc' = "done"
    BY <1>0, <1>5 DEF Decline, Phased, history
  <2> QED
    BY <2>1, PlanningStep
<1>6. CASE Approve
  BY <1>6, ApproveStep
<1>7. CASE Revalidate
  <2>1. /\ UNCHANGED <<folderVars, loc, scan, original, staged, snap, refused, applying>>
        /\ applying /\ pc = "revalidate" /\ pc' = "revalidate"
    BY <1>0, <1>7 DEF Revalidate, Phased, history
  <2>2. state' = state
    BY <1>0, <1>7, <2>1, NeverInTheWay DEF Revalidate
  <2>3. Prepared'
    BY <2>1 DEF Prepared
  <2> QED
    BY <2>1, <2>2, <2>3, LookingStep
<1>8. CASE RevalidateEnd \/ (BlockEnd /\ applying)
  <2>1. /\ UNCHANGED <<folderVars, loc, scan, original, staged, snap, refused, state, applying>>
        /\ applying /\ pc # "retake" /\ pc' \in {"block", "pick"} /\ at' = 1
    BY <1>0, <1>8 DEF RevalidateEnd, BlockEnd, Phased, history
  <2>2. \A i \in Planned' : ~(i < at')
    BY <2>1 DEF Planned, Entries
  <2>3. Prepared'
    BY <2>1, <2>2 DEF Prepared
  <2> QED
    BY <2>1, <2>3, LookingStep
<1>9. CASE BlockEntry /\ applying
  <2>1. /\ UNCHANGED <<folderVars, loc, scan, original, staged, snap, refused, applying>>
        /\ applying /\ pc = "block" /\ pc' = "block" /\ at \in Entries
    BY <1>9, <1>b DEF BlockEntry, history, Entries
  <2>2. CASE state[at] = "Planned" /\ Blocked(at)
    <3>1. at \in Planned /\ {at} \in SUBSET Planned /\ ~Free(at)
      BY <2>1, <2>2 DEF Planned, Blocked
    <3>2. PICK k \in Feasible : /\ k \notin staged /\ Key[Path[k]] = Key[Target(at)]
                                /\ \/ state[k] = "Planned" /\ WaitsFor(at, k)
                                   \/ state[k] = "Failed"
      BY <2>1, <3>1, FreeUnless
    <3>3. state[k] = "Failed"
      BY <2>2, <3>2, FeasibleFacts, SoleFacts, Asked DEF Blocked
    <3>4. state' = [i \in Entries |-> IF i \in {at} THEN "Failed" ELSE state[i]]
      BY <1>9, <1>b, <2>1, <2>2 DEF BlockEntry, SetState
    <3> QED
      BY <2>1, <3>1, <3>2, <3>3, <3>4, FailingStep
  <2>3. CASE ~(state[at] = "Planned" /\ Blocked(at))
    <3>1. state' = state
      BY <1>9, <2>3 DEF BlockEntry
    <3>2. Prepared'
      BY <2>1 DEF Prepared
    <3> QED
      BY <2>1, <3>1, <3>2, LookingStep
  <2> QED
    BY <2>2, <2>3
<1>10. CASE Pick
  <2>1. /\ UNCHANGED <<folderVars, loc, scan, original, staged, snap, refused, state, applying>>
        /\ applying /\ pc = "pick" /\ pc' \in {"verify", "pick"}
    BY <1>0, <1>10 DEF Pick, Phased, history
  <2>2. \A i : Free(i)' = Free(i)
    BY <2>1 DEF Free, Vacant, Overfull, InFolder, Occupants, Present, Slot, folderVars
  <2>3. CASE at \in Planned /\ Free(at)
    <3>1. pc' = "verify" /\ at' = at
      BY <1>10, <2>3 DEF Pick
    <3>2. Free(at)'
      BY <2>2, <2>3, <3>1 DEF Free
    <3>3. Prepared'
      BY <3>1, <3>2 DEF Prepared
    <3> QED
      BY <2>1, <3>3, LookingStep
  <2>4. CASE ~(at \in Planned /\ Free(at))
    <3>1. pc' = "pick" /\ at' = at + 1 /\ Planned' = Planned
      BY <1>10, <2>1, <2>4 DEF Pick, Planned
    <3>2. ASSUME NEW i \in Planned, i < at + 1 PROVE ~Free(i)'
      <4>1. i < at \/ i = at
        BY <1>b, <3>2 DEF Entries
      <4> QED
        BY <2>1, <2>2, <2>4, <3>2, <4>1 DEF Orderly, Prepared
    <3>3. Prepared'
      BY <3>1, <3>2 DEF Prepared
    <3> QED
      BY <2>1, <3>3, LookingStep
  <2> QED
    BY <2>3, <2>4
<1>11. CASE PickCycle
  <2>1. /\ UNCHANGED <<folderVars, loc, scan, original, staged, snap, refused, state, applying>>
        /\ applying /\ pc = "pick" /\ pc' = "stage" /\ at' \notin staged
    BY <1>0, <1>11 DEF PickCycle, Phased, history, Parkable
  <2>2. Prepared'
    BY <2>1 DEF Prepared
  <2> QED
    BY <2>1, <2>2, LookingStep
<1>12. CASE GiveUp
  <2>1. /\ UNCHANGED <<folderVars, loc, scan, original, staged, snap, refused, applying>>
        /\ applying /\ pc = "pick" /\ pc' = "done" /\ at > N /\ Parkable = {}
        /\ state' = [i \in Entries |-> IF i \in Planned THEN "Failed" ELSE state[i]]
    BY <1>0, <1>12 DEF GiveUp, Phased, history
  <2>2. ASSUME NEW i \in Planned
        PROVE  \E k \in Feasible : /\ state[k] = "Failed" /\ k \notin staged
                                   /\ Key[Path[k]] = Key[Target(i)]
    <3>1. ~Free(i)
      BY <1>b, <2>1 DEF Orderly, Prepared, Entries
    <3>2. PICK k \in Feasible : /\ k \notin staged /\ Key[Path[k]] = Key[Target(i)]
                                /\ state[k] = "Planned" \/ state[k] = "Failed"
      BY <2>1, <3>1, FreeUnless
    <3>3. state[k] # "Planned"
      BY <2>1, <3>2, FeasibleFacts, SoleFacts, Asked DEF Parkable, Planned
    <3> QED
      BY <3>2, <3>3
  <2> QED
    BY <2>1, <2>2, FailingStep
<1>13. CASE Finish
  <2>1. /\ UNCHANGED <<folderVars, loc, scan, original, staged, snap, refused, state, applying>>
        /\ applying /\ pc = "pick" /\ pc' = "done" /\ Planned = {}
    BY <1>0, <1>13 DEF Finish, Phased, history
  <2>2. Prepared'
    BY <2>1 DEF Prepared, Planned
  <2> QED
    BY <2>1, <2>2, LookingStep
<1>14. CASE Verify
  <2>1. applying /\ Verified(at)
    BY <1>0, <1>14, NeverInTheWay DEF Verify, Phased
  <2>2. /\ UNCHANGED <<folderVars, loc, scan, original, staged, snap, refused, state, applying>>
        /\ pc = "verify" /\ pc' = "move" /\ at' = at
    BY <1>14, <2>1 DEF Verify, history
  <2>3. \A i : Free(i)' = Free(i)
    BY <2>2 DEF Free, Vacant, Overfull, InFolder, Occupants, Present, Slot, folderVars
  <2>4. Prepared'
    BY <2>2, <2>3 DEF Orderly, Prepared, Free
  <2> QED
    BY <2>1, <2>2, <2>4, LookingStep
<1>15. CASE Refuse(at) /\ pc \in {"move", "park"} /\ UNCHANGED <<scan, applying, changed, original, meddled>>
  <2>1. applying /\ at \in Planned /\ {at} \in SUBSET Planned /\ at \in Entries
    BY <1>0, <1>15, PlannedAtWork DEF Working
  <2>2. /\ UNCHANGED <<folderVars, loc, scan, original, staged, snap, applying>>
        /\ pc' = "block" /\ refused' = refused \cup {at}
        /\ state' = [i \in Entries |-> IF i \in {at} THEN "Failed" ELSE state[i]]
    BY <1>15, <1>b, <2>1 DEF Refuse, Fail, SetState
  <2> QED
    BY <1>15, <2>1, <2>2, FailingStep
<1>16. CASE Move /\ ~Refuse(at)
  <2>1. applying /\ at \in Planned /\ CanMove(loc[at], Target(at)) /\ Target(at) \in Names
    BY <1>0, <1>16, NeverInTheWay, PlannedAtWork DEF Move, Working, IInv, AtWork, Target
  <2>2. /\ pc = "move" /\ MoveNoReplace(loc[at], Target(at)) /\ Relocate(at, Target(at))
        /\ SetState(at, "Applied") /\ pc' = "block" /\ staged' = staged
        /\ UNCHANGED <<scan, original, snap, applying, refused>>
    BY <1>16, <2>1 DEF Move, Target
  <2> QED
    BY <2>1, <2>2, MovingStep
<1>17. CASE Stage
  <2>1. applying /\ CanStage(at)
    BY <1>0, <1>17, NeverInTheWay DEF Stage, Phased
  <2>2. /\ UNCHANGED <<folderVars, loc, scan, original, staged, snap, refused, state, applying>>
        /\ pc = "stage" /\ pc' = "park" /\ at' = at
        /\ spare' \in Temps[at] /\ Vacant(spare')
    BY <1>17, <2>1 DEF Stage, history
  <2>3. \A n : Vacant(n)' = Vacant(n)
    BY <2>2 DEF Vacant, Overfull, InFolder, Occupants, Present, Slot, folderVars
  <2>4. Vacant(spare)'
    BY <2>2 DEF Vacant, Overfull, InFolder, Occupants, Present, Slot, folderVars
  <2>5. Prepared'
    BY <2>2, <2>4 DEF Orderly, Prepared
  <2> QED
    BY <2>1, <2>2, <2>5, LookingStep
<1>18. CASE Park /\ ~Refuse(at)
  <2>1. applying /\ at \in Planned /\ CanMove(loc[at], spare) /\ spare \in Names
    BY <1>0, <1>18, NeverInTheWay, PlannedAtWork DEF Park, Working, IInv, AtWork
  <2>2. /\ pc = "park" /\ MoveNoReplace(loc[at], spare) /\ Relocate(at, spare)
        /\ state' = state /\ staged' = staged \cup {at} /\ pc' = "retake" /\ at' = at
        /\ UNCHANGED <<scan, original, snap, applying, refused>>
    BY <1>18, <2>1 DEF Park
  <2>3. spare \in Temps[at]
    BY <2>2 DEF Orderly, Prepared
  <2> QED
    BY <2>1, <2>2, <2>3, MovingStep
<1>19. CASE Retake
  <2>1. applying /\ at \in Planned /\ at \in Entries /\ SameContent(at)
    BY <1>0, <1>19, NeverInTheWay, PlannedAtWork DEF Retake, Working
  <2>2. /\ UNCHANGED <<folderVars, loc, scan, original, staged, refused, state, applying>>
        /\ pc = "retake" /\ pc' = "block"
        /\ snap' = [snap EXCEPT ![at] = Take(loc[at])]
    BY <1>19, <2>1 DEF Retake, history
  <2>3. FileAt(loc[at]) = Media[at]
    BY <2>1, OwnFile DEF Orderly
  <2>4. Grounded' /\ Mapped' /\ Parked' /\ Sorted'
    BY <2>2, Landscape DEF IInv, TypeOK
  <2>5. Feasible' = Feasible /\ \A i : Target(i)' = Target(i)
    BY <2>2, AsPlanned
  <2>6. Chosen' /\ Caused'
    BY <2>2, <2>5 DEF Orderly, Chosen, Caused
  <2>7. ASSUME NEW i \in Planned
        PROVE  snap'[i].data = stat[Media[i]].data /\ snap'[i].meta = stat[Media[i]].meta
    <3>1. CASE i = at
      <4>1. snap'[i] = Take(loc[at])
        BY <2>1, <2>2, <3>1 DEF IInv, TypeOK
      <4> QED
        BY <2>3, <3>1, <4>1 DEF Take
    <3>2. CASE i # at
      <4>1. snap'[i] = snap[i]
        BY <1>b, <2>2, <3>2 DEF IInv, TypeOK
      <4> QED
        BY <2>1, <3>2, <4>1 DEF Orderly, Current
    <3> QED
      BY <3>1, <3>2
  <2>8. Current'
    BY <2>2, <2>7 DEF Current, Planned, folderVars
  <2>9. Prepared'
    BY <2>2 DEF Prepared
  <2> QED
    BY <2>4, <2>6, <2>8, <2>9 DEF Orderly
<1>20. CASE UNCHANGED vars
  <2>1. /\ UNCHANGED <<folderVars, loc, scan, original, staged, snap, refused, state>>
        /\ applying' = applying /\ pc' = pc /\ at' = at /\ spare' = spare
    BY <1>20 DEF vars, planVars, history
  <2>2. Grounded' /\ Mapped' /\ Parked' /\ Sorted'
    BY <2>1, Landscape DEF IInv, TypeOK
  <2>3. Feasible' = Feasible /\ (\A i : Target(i)' = Target(i)) /\ Planned' = Planned
    BY <2>1, AsPlanned DEF Planned
  <2>4. Chosen' /\ Caused'
    BY <2>1, <2>3 DEF Orderly, Chosen, Caused
  <2>5. Current'
    BY <2>1, <2>3 DEF Orderly, Current, folderVars
  <2>6. (\A i : Free(i)' = Free(i)) /\ Vacant(spare)' = Vacant(spare)
    BY <2>1 DEF Free, Vacant, Overfull, InFolder, Occupants, Present, Slot, folderVars
  <2>7. Free(at)' = Free(at)
    BY <2>1, <2>6 DEF Free
  <2>8. Prepared'
    BY <2>1, <2>3, <2>6, <2>7 DEF Orderly, Prepared
  <2> QED
    BY <2>2, <2>4, <2>5, <2>8 DEF Orderly
<1>21. ~Interfere
  BY DEF Interfere, Undisturbed
<1>22. CASE Move /\ Refuse(at)
  BY <1>15, <1>22 DEF Move
<1>23. CASE Park /\ Refuse(at)
  BY <1>15, <1>23 DEF Park
<1> QED
  BY <1>1, <1>2, <1>3, <1>4, <1>5, <1>6, <1>7, <1>8, <1>9, <1>10, <1>11, <1>12, <1>13,
     <1>14, <1>16, <1>17, <1>18, <1>19, <1>20, <1>21, <1>22, <1>23 DEF Next, Program, Answer

-----------------------------------------------------------------------------
LEMMA SpecOrderly ==
    ASSUME Undisturbed
    PROVE  Spec => [](IInv /\ Orderly)
<1>1. TempsApart /\ KeysCoarse /\ OpenPhases \cap {"check", "block"} = {}
  BY DEF Undisturbed
<1>2. Init => IInv /\ Previewing /\ Orderly
  BY <1>1, InitIInv, PreviewStarts, OrderlyStarts
<1>3. (IInv /\ Previewing /\ Orderly) /\ [Next]_vars => (IInv /\ Previewing /\ Orderly)'
  BY <1>1, NextIInv, PreviewGoesOn, NextOrderly
<1> QED
  BY <1>2, <1>3, PTL DEF Spec

(* Why an entry failed, and what a clean exit says: the summary pretends     *)
(* nothing, for any plan, any order of its steps and any refused moves.      *)
THEOREM RenameEndsForCause ==
    ASSUME Undisturbed
    PROVE  Spec => []EndingsHaveCause
<1>1. ASSUME IInv, Orderly, pc = "done", NEW i \in Entries, state[i] = "Failed"
      PROVE  i \in refused \/ Occupants(scan[i].target) # {}
  <2>1. CASE i \in refused
    BY <2>1
  <2>2. CASE i \notin refused
    <3>1. PICK k \in Feasible : /\ state[k] = "Failed" /\ k \notin staged
                                /\ Key[Path[k]] = Key[Target(i)]
      BY <1>1, <2>2 DEF Orderly, Caused
    <3>2. k \in Entries /\ Path[k] \in Names /\ folder[Path[k]] # NoFile
      BY <1>1, <3>1, Whither, OwnFile, FeasibleFacts, SoleFacts, Asked DEF Orderly
    <3> QED
      BY <3>1, <3>2 DEF Occupants, Target
  <2> QED
    BY <2>1, <2>2
<1>2. ASSUME IInv, Orderly, pc = "done", applying, ExitCode = 0, NEW i \in Entries
      PROVE  scan[i].target # NoName /\ folder[scan[i].target] = Media[i]
  <2>1. /\ scan[i].kind \notin {"error", "ambiguous", "unknown"}
        /\ state[i] \notin {"Conflict", "Failed"}
    BY <1>2 DEF ExitCode
  <2>2. state[i] # "Planned"
    BY <1>2 DEF Orderly, Prepared, Planned
  <2>3. state[i] \in {"AlreadyCorrect", "Applied"}
    BY <1>2, <2>1, <2>2 DEF IInv, TypeOK, States, Orderly, Sorted
  <2>4. CASE state[i] = "AlreadyCorrect"
    <3>1. i \notin staged
      BY <1>2, <2>4 DEF Orderly, Chosen
    <3>2. loc[i] = Path[i] /\ Target(i) = Path[i]
      BY <1>2, <2>4, <3>1, Whither DEF Orderly, Sorted
    <3> QED
      BY <1>2, <3>2, OwnFile DEF Target, Orderly
  <2>5. CASE state[i] = "Applied"
    <3>1. loc[i] = Target(i)
      BY <1>2, <2>5, Whither
    <3> QED
      BY <1>2, <3>1, OwnFile DEF Target, Orderly
  <2> QED
    BY <2>3, <2>4, <2>5
<1>3. IInv /\ Orderly => EndingsHaveCause
  BY <1>1, <1>2 DEF EndingsHaveCause, FailedForCause, CleanExit
<1> QED
  BY <1>3, SpecOrderly, PTL

-----------------------------------------------------------------------------
(* The renames of the plan, all at once.                                     *)
AllAtOnce == [n \in Names |->
    IF \E i \in Feasible : Target(i) = n
    THEN original[Path[CHOOSE i \in Feasible : Target(i) = n]]
    ELSE IF \E i \in Feasible : Path[i] = n THEN NoFile
    ELSE original[n]]

LEMMA EndsRenamed ==
    ASSUME IInv, Orderly, pc = "done", applying, refused = {}
    PROVE  folder = AllAtOnce
<1>1. \A i \in Entries : state[i] \notin {"Planned", "Failed"}
  BY DEF Orderly, Caused, Prepared, Planned
<1>2. ASSUME NEW i \in Feasible
      PROVE  i \in Entries /\ loc[i] = Target(i) /\ folder[Target(i)] = Media[i]
  <2>1. i \in Entries
    BY FeasibleFacts, SoleFacts, Asked
  <2>2. state[i] = "Applied"
    BY <1>1, <2>1 DEF Orderly, Chosen
  <2> QED
    BY <2>1, <2>2, Whither, OwnFile DEF Orderly
<1>3. ASSUME NEW i \in Entries \ Feasible
      PROVE  loc[i] = Path[i] /\ folder[Path[i]] = Media[i]
  <2>1. state[i] # "Applied" /\ i \notin staged
    BY DEF Orderly, Chosen
  <2> QED
    BY <2>1, Whither, OwnFile DEF Orderly
<1>4. ASSUME NEW n \in Names PROVE folder[n] = AllAtOnce[n]
  <2>1. CASE \E i \in Feasible : Target(i) = n
    <3> DEFINE c == CHOOSE i \in Feasible : Target(i) = n
    <3>1. c \in Feasible /\ Target(c) = n
      BY <2>1
    <3>2. AllAtOnce[n] = original[Path[c]]
      BY <2>1 DEF AllAtOnce
    <3> HIDE DEF c
    <3> QED
      BY <1>2, <3>1, <3>2 DEF Orderly, Grounded
  <2>2. CASE (~\E i \in Feasible : Target(i) = n) /\ \E i \in Feasible : Path[i] = n
    <3>1. PICK i \in Feasible : Path[i] = n
      BY <2>2
    <3>2. \A j \in Entries : loc[j] # n
      BY <1>2, <1>3, <2>2, <3>1
    <3>3. folder[n] = NoFile
      BY <1>2, <3>1, <3>2 DEF Orderly, Mapped, Scanned
    <3> QED
      BY <2>2, <3>3 DEF AllAtOnce
  <2>3. CASE (~\E i \in Feasible : Target(i) = n) /\ ~\E i \in Feasible : Path[i] = n
    <3>1. AllAtOnce[n] = original[n]
      BY <2>3 DEF AllAtOnce
    <3>2. CASE \E j \in Entries : Path[j] = n
      BY <1>3, <2>3, <3>1, <3>2 DEF Orderly, Grounded
    <3>3. CASE ~\E j \in Entries : Path[j] = n
      <4>1. \A j \in Entries : loc[j] # n
        BY <1>2, <1>3, <2>3, <3>3
      <4> QED
        BY <3>1, <3>3, <4>1 DEF Orderly, Mapped, Scanned
    <3> QED
      BY <3>2, <3>3
  <2> QED
    BY <2>1, <2>2, <2>3
<1>5. folder \in [Names -> Files \cup {NoFile}] /\ DOMAIN AllAtOnce = Names
  BY DEF IInv, TypeOK, FolderTypeOK, AllAtOnce
<1>6. AllAtOnce = [n \in Names |-> AllAtOnce[n]]
  BY DEF AllAtOnce
<1> HIDE DEF AllAtOnce
<1> QED
  BY <1>4, <1>5, <1>6

LEMMA EndsUntouched ==
    ASSUME IInv, Orderly, ~applying
    PROVE  folder = original
<1>1. \A i \in Entries : loc[i] = Path[i] /\ folder[Path[i]] = original[Path[i]]
  BY Whither, OwnFile DEF Orderly, Chosen, Grounded
<1>2. ASSUME NEW n \in Names PROVE folder[n] = original[n]
  BY <1>1 DEF Orderly, Mapped, Scanned
<1> QED
  BY <1>2 DEF IInv, TypeOK, FolderTypeOK

(* How the folder is when the run is over.                                   *)
Outcome == pc = "done" =>
    \/ folder = original
    \/ folder = AllAtOnce
    \/ /\ refused # {}
       /\ {folder[n] : n \in Names} = {original[n] : n \in Names}

LEMMA OutcomeThen == IInv' /\ Orderly' => Outcome'
<1>1. IInv /\ Orderly => Outcome
  BY EndsRenamed, EndsUntouched DEF Outcome, Orderly, Grounded
<1> QED
  BY <1>1, PTL

LEMMA BatchRenamed ==
    ASSUME pc # "done"
    PROVE  Batch!Renamed = AllAtOnce
<1>1. Batch!Movable = Feasible
  BY Abstracted
<1>2. \A i \in Feasible : i \in Entries
  BY DEF Feasible, Sole, Asking
<1> QED
  BY <1>1, <1>2 DEF Batch!Renamed, AllAtOnce, Target

LEMMA OneRenameStep ==
    ASSUME Undisturbed, IInv, Previewing, Orderly, [Next]_vars
    PROVE  [Batch!Next]_<<IF pc = "done" THEN folder ELSE original,
                          [i \in Entries |-> scan[i].target], refused, pc = "done">>
<1>1. UNCHANGED <<scan, original>>
  BY Unplanned
<1>2. CASE pc = "done"
  BY <1>2 DEF Next, Program, Answer, vars, planVars, history, folderVars, CheckEntry, CheckEnd,
              BlockEntry, BlockEnd, Revalidate, RevalidateEnd, Pick, PickCycle, GiveUp, Finish,
              Verify, Move, Stage, Park, Retake, Decline, Approve, Interfere, Undisturbed
<1>3. CASE pc # "done" /\ pc' # "done"
  BY <1>1, <1>3 DEF Batch!Next, Batch!Refuse
<1>4. CASE pc # "done" /\ pc' = "done"
  <2>1. refused' = refused
    BY <1>4 DEF Next, Program, Answer, vars, planVars, history, CheckEntry, CheckEnd,
              BlockEntry, BlockEnd, Revalidate, RevalidateEnd, Pick, PickCycle, GiveUp, Finish,
              Verify, Move, Stage, Park, Retake, Decline, Approve, Interfere, Goto, Fail, Refuse
  <2>2. Outcome'
    BY NextIInv, NextOrderly, OutcomeThen
  <2>3. AllAtOnce' = AllAtOnce
    <3>1. Feasible' = Feasible /\ \A i : Target(i)' = Target(i)
      BY <1>1, AsPlanned
    <3> QED
      BY <1>1, <3>1 DEF AllAtOnce
  <2>4. \/ folder' = original
        \/ folder' = Batch!Renamed
        \/ /\ refused # {}
           /\ {folder'[n] : n \in Names} = {original[n] : n \in Names}
    BY <1>1, <1>4, <2>1, <2>2, <2>3, BatchRenamed DEF Outcome
  <2> QED
    BY <1>1, <1>4, <2>1, <2>4 DEF Batch!Next, Batch!Finish, Batch!FilesOf
<1> QED
  BY <1>2, <1>3, <1>4

(* The chain and cycle steps amount to one simultaneous rename.              *)
THEOREM RenamesAsOne ==
    ASSUME Undisturbed
    PROVE  Spec => ActsAsOneRename
<1>1. Init => Batch!Init
  BY DEF Init, Batch!Init
<1>2. TempsApart /\ KeysCoarse /\ OpenPhases \cap {"check", "block"} = {}
  BY DEF Undisturbed
<1>3. Init => IInv /\ Previewing /\ Orderly
  BY <1>2, InitIInv, PreviewStarts, OrderlyStarts
<1>4. (IInv /\ Previewing /\ Orderly) /\ [Next]_vars => (IInv /\ Previewing /\ Orderly)'
  BY <1>2, NextIInv, PreviewGoesOn, NextOrderly
<1>5. IInv /\ Previewing /\ Orderly /\ [Next]_vars
         => [Batch!Next]_<<IF pc = "done" THEN folder ELSE original,
                           [i \in Entries |-> scan[i].target], refused, pc = "done">>
  BY OneRenameStep
<1> QED
  BY <1>1, <1>3, <1>4, <1>5, PTL DEF Spec, ActsAsOneRename, Batch!Spec

-----------------------------------------------------------------------------
(* Progress                                                                  *)

Data == INSTANCE Sums

(* What is left to do: entries to decide, and entries that may be parked.    *)
Pending == Cardinality(Planned) + Cardinality(Parkable)

(* How far the pass over them has come.  A pass of propagate_blocked that    *)
(* changed an entry is followed by one more.                                 *)
Passes(p) == IF changed THEN p + 1 ELSE p

Level == CASE pc = "check" -> 12
           [] pc = "block" /\ ~applying -> Passes(10)
           [] pc = "prompt" -> 9
           [] pc = "revalidate" -> 8
           [] pc = "retake" -> 7
           [] pc = "block" /\ applying -> Passes(5)
           [] pc = "pick" -> 4
           [] pc \in {"verify", "stage"} -> 3
           [] pc \in {"move", "park"} -> 2
           [] pc = "done" -> 0

Width == N + 2

(* Steps of the program that can follow, at most.                            *)
Remaining == (Pending * 13 + Level) * Width + (N + 1 - at)
Longest == (2 * N + 1) * 13 * Width

(* Files are moved only after the approval, and none is parked twice.        *)
Underway == /\ pc \in Working \cup {"pick", "revalidate"} => applying
            /\ pc \in {"stage", "park"} => at \in Parkable

LEMMA LevelType ==
    ASSUME TypeOK
    PROVE  Level \in 0..12
<1>1. Passes(10) \in 10..11 /\ Passes(5) \in 5..6
  BY DEF Passes
<1>2. pc \in Phases /\ (applying \/ ~applying)
  BY DEF TypeOK
<1> QED
  BY <1>1, <1>2 DEF Level, Phases

(* Both sets are finite, so they count.                                      *)
LEMMA PendingType ==
    /\ IsFiniteSet(Planned) /\ IsFiniteSet(Parkable)
    /\ Cardinality(Planned) \in 0..N /\ Cardinality(Parkable) \in 0..N
    /\ Pending \in 0..(2 * N)
<1>1. IsFiniteSet(Entries) /\ Cardinality(Entries) = N
  BY FS_Interval DEF Entries
<1>2. Planned \subseteq Entries /\ Parkable \subseteq Entries
  BY DEF Planned, Parkable
<1>3. /\ IsFiniteSet(Planned) /\ Cardinality(Planned) <= N
      /\ IsFiniteSet(Parkable) /\ Cardinality(Parkable) <= N
  BY <1>1, <1>2, FS_Subset
<1>4. Cardinality(Planned) \in 0..N /\ Cardinality(Parkable) \in 0..N
  BY <1>3, FS_CardinalityType
<1> QED
  BY <1>3, <1>4 DEF Pending

(* A finite set that loses an element has fewer.                             *)
LEMMA Shrinking ==
    ASSUME NEW S, NEW T, IsFiniteSet(S), T \subseteq S
    PROVE  /\ Cardinality(T) <= Cardinality(S)
           /\ T # S => Cardinality(T) < Cardinality(S)
<1>1. Cardinality(T) <= Cardinality(S)
  BY FS_Subset
<1>2. ASSUME T # S
      PROVE  Cardinality(T) < Cardinality(S)
  <2>1. PICK x \in S : x \notin T
    BY <1>2
  <2>2. /\ IsFiniteSet(S \ {x}) /\ Cardinality(S \ {x}) = Cardinality(S) - 1
        /\ Cardinality(S) \in Nat
    BY <2>1, FS_RemoveElement, FS_CardinalityType
  <2>3. Cardinality(T) <= Cardinality(S \ {x}) /\ Cardinality(T) \in Nat
    BY <2>1, <2>2, FS_Subset, FS_CardinalityType
  <2> QED
    BY <2>2, <2>3
<1> QED
  BY <1>1, <1>2

(* An entry decided or parked is one fewer, and none comes back.             *)
LEMMA FewerPending ==
    ASSUME Planned' \subseteq Planned, Parkable' \subseteq Parkable,
           Planned' # Planned \/ Parkable' # Parkable
    PROVE  Pending' < Pending
<1>1. /\ Cardinality(Planned) \in Nat /\ Cardinality(Parkable) \in Nat
      /\ Cardinality(Planned') \in Nat /\ Cardinality(Parkable') \in Nat
  <2>1. IsFiniteSet(Planned') /\ IsFiniteSet(Parkable')
    BY PendingType, FS_Subset
  <2> QED
    BY <2>1, PendingType, FS_CardinalityType
<1>2. /\ Cardinality(Planned') <= Cardinality(Planned)
      /\ Cardinality(Parkable') <= Cardinality(Parkable)
      /\ \/ Cardinality(Planned') < Cardinality(Planned)
         \/ Cardinality(Parkable') < Cardinality(Parkable)
  BY PendingType, Shrinking
<1> QED
  BY <1>1, <1>2 DEF Pending

LEMMA Numerals ==
    TypeOK => /\ Pending \in Nat /\ Pending <= 2 * N
              /\ Level \in 0..(13 - 1)
              /\ Width \in Nat
              /\ N + 1 - at \in 0..(Width - 1)
              /\ Pending * 13 + Level \in Nat
<1> SUFFICES ASSUME TypeOK
             PROVE  /\ Pending \in Nat /\ Pending <= 2 * N
                    /\ Level \in 0..(13 - 1)
                    /\ Width \in Nat
                    /\ N + 1 - at \in 0..(Width - 1)
                    /\ Pending * 13 + Level \in Nat
  OBVIOUS
<1>1. Pending \in Nat /\ Pending <= 2 * N /\ Level \in 0..12
  BY PendingType, LevelType
<1>2. Width \in Nat /\ N + 1 - at \in 0..(Width - 1)
  BY DEF TypeOK, Width
<1> QED
  BY <1>1, <1>2

(* A step that decides nothing and parks nothing goes on to the next entry   *)
(* or to a later pass.                                                       *)
LEMMA Lower ==
    ASSUME TypeOK, TypeOK',
           \/ Pending' < Pending
           \/ Pending' = Pending /\ Level' < Level
           \/ Pending' = Pending /\ Level' = Level /\ at' = at + 1
    PROVE  Remaining' < Remaining
<1>1. /\ Pending \in Nat /\ Level \in 0..(13 - 1) /\ Width \in Nat
      /\ N + 1 - at \in 0..(Width - 1) /\ Pending * 13 + Level \in Nat
  BY Numerals
<1>2. /\ Pending' \in Nat /\ Level' \in 0..(13 - 1) /\ Width' = Width
      /\ N + 1 - at' \in 0..(Width - 1) /\ Pending' * 13 + Level' \in Nat
  <2>1. (/\ Pending \in Nat /\ Pending <= 2 * N
         /\ Level \in 0..(13 - 1)
         /\ Width \in Nat
         /\ N + 1 - at \in 0..(Width - 1)
         /\ Pending * 13 + Level \in Nat)'
    BY Numerals, PTL
  <2> QED
    BY <2>1 DEF Width
<1> DEFINE u == Pending * 13 + Level
           v == Pending' * 13 + Level'
<1>3. v < u \/ (v = u /\ at' = at + 1)
  <2> DEFINE p == Pending
             q == Pending'
             k == Level
             l == Level'
  <2>1. p \in Nat /\ q \in Nat /\ k \in 0..12 /\ l \in 0..12
    BY <1>1, <1>2
  <2>2. q < p \/ (q = p /\ l < k) \/ (q = p /\ l = k /\ at' = at + 1)
    OBVIOUS
  <2> HIDE DEF p, q, k, l
  <2>3. \/ q * 13 + l < p * 13 + k
        \/ q * 13 + l = p * 13 + k /\ at' = at + 1
    BY <2>1, <2>2
  <2> QED
    BY <2>3 DEF p, q, k, l
<1>4. Remaining = u * Width + (N + 1 - at) /\ Remaining' = v * Width + (N + 1 - at')
  BY <1>2 DEF Remaining
<1>5. u \in Nat /\ v \in Nat
  BY <1>1, <1>2
<1>0. at \in Nat /\ at' \in Nat
  BY DEF TypeOK
<1> HIDE DEF u, v
<1>6. v < u \/ (v = u /\ N + 1 - at' < N + 1 - at)
  <2>1. ASSUME at' = at + 1
        PROVE  N + 1 - at' < N + 1 - at
    BY <1>0, <2>1
  <2> QED
    BY <1>3, <2>1
<1>7. v * Width + (N + 1 - at') < u * Width + (N + 1 - at)
  BY <1>1, <1>2, <1>5, <1>6, Data!Digits
<1> QED
  BY <1>4, <1>7

(* What is left never exceeds a bound that depends on the number of files    *)
(* alone.                                                                    *)
LEMMA RemainingType ==
    ASSUME TypeOK
    PROVE  Remaining \in 0..Longest
<1>1. /\ Pending \in Nat /\ Pending <= 2 * N /\ Level \in 0..(13 - 1) /\ Width \in Nat
      /\ N + 1 - at \in 0..(Width - 1) /\ Pending * 13 + Level \in Nat
  BY Numerals
<1> DEFINE u == Pending * 13 + Level
           t == (2 * N + 1) * 13
<1>2. u \in Nat /\ t \in Nat /\ u < t
  BY <1>1
<1>3. Remaining = u * Width + (N + 1 - at) /\ Longest = t * Width + 0
  BY <1>1, <1>2 DEF Remaining, Longest
<1>4. Width - 1 \in Nat /\ 0 \in 0..(Width - 1)
  BY <1>1
<1> HIDE DEF u, t
<1>5. u * Width + (N + 1 - at) < t * Width + 0
  BY <1>1, <1>2, <1>4, Data!Digits
<1>6. u * Width \in Nat /\ t * Width \in Nat
  BY <1>1, <1>2
<1> QED
  BY <1>1, <1>3, <1>5, <1>6

LEMMA NextUnderway == IInv /\ IInv' /\ Underway /\ [Next]_vars => Underway'
<1> SUFFICES ASSUME IInv, IInv', Underway, [Next]_vars PROVE Underway'
  OBVIOUS
<1> USE DEF Goto, SetState
<1>1. CASE CheckEntry \/ CheckEnd \/ BlockEntry \/ Decline \/ Approve
  BY <1>1 DEF CheckEntry, CheckEnd, BlockEntry, Decline, Approve, Underway, Working
<1>2. CASE BlockEnd
  BY <1>2 DEF BlockEnd, Underway, Working
<1>3. CASE Revalidate \/ RevalidateEnd \/ GiveUp \/ Finish
  BY <1>3 DEF Revalidate, RevalidateEnd, GiveUp, Finish, Underway, Working
<1>4. CASE Pick
  BY <1>4 DEF Pick, Underway, Working
<1>5. CASE PickCycle
  BY <1>5 DEF PickCycle, Underway, Working, Parkable, Planned
<1>6. CASE Verify
  BY <1>6 DEF Verify, Fail, Underway, Working
<1>7. CASE Move
  BY <1>7 DEF Move, Fail, Refuse, Underway, Working
<1>8. CASE Stage
  BY <1>8 DEF Stage, Fail, Underway, Working, Parkable, Planned
<1>9. CASE Park
  BY <1>9 DEF Park, Fail, Refuse, Underway, Working
<1>10. CASE Retake
  BY <1>10 DEF Retake, Fail, Underway, Working
<1>11. CASE Interfere \/ UNCHANGED vars
  BY <1>11 DEF Interfere, vars, planVars, Underway, Working, Parkable, Planned
<1> QED
  BY <1>1, <1>2, <1>3, <1>4, <1>5, <1>6, <1>7, <1>8, <1>9, <1>10, <1>11
     DEF Next, Program, Answer

(* The entry at work failed: it is not tried again.                          *)
LEMMA FailLowers ==
    ASSUME IInv, pc \in Working, Fail(at)
    PROVE  Pending' < Pending
<1>1. at \in Planned /\ at \in Entries
  BY DEF IInv, AtWork, Planned
<1>2. state' = [state EXCEPT ![at] = "Failed"] /\ staged' = staged
  BY DEF Fail, SetState
<1>3. at \notin Planned' /\ Planned' \subseteq Planned /\ Parkable' \subseteq Parkable
  BY <1>1, <1>2 DEF Planned, Parkable, IInv, TypeOK
<1> QED
  BY <1>1, <1>3, FewerPending

(* An entry leaves the plan, or none does.                                   *)
LEMMA EntryLowers ==
    ASSUME IInv, at \in Planned, UNCHANGED staged, NEW s \in States \ {"Planned"},
           state' = [state EXCEPT ![at] = s]
    PROVE  Pending' < Pending
<1>1. at \in Entries
  BY DEF Planned
<1>2. at \notin Planned' /\ Planned' \subseteq Planned /\ Parkable' \subseteq Parkable
  BY <1>1 DEF Planned, Parkable, IInv, TypeOK
<1> QED
  BY <1>2, FewerPending

LEMMA SamePending ==
    ASSUME UNCHANGED <<state, staged>>
    PROVE  Pending' = Pending
  BY DEF Pending, Planned, Parkable

LEMMA StepLowers ==
    ASSUME IInv, IInv', Underway, Next, planVars' # planVars
    PROVE  Remaining' < Remaining
<1> USE DEF Goto, SetState
<1>t. TypeOK /\ TypeOK'
  BY DEF IInv
<1>p. Passes(10) \in {10, 11} /\ Passes(5) \in {5, 6}
  BY DEF Passes
<1>1. CASE CheckEntry
  <2>1. at \in Entries /\ pc = "check" /\ pc' = "check" /\ at' = at + 1
    BY <1>1, <1>t DEF CheckEntry, TypeOK, Entries
  <2>2. Level' = Level
    BY <2>1 DEF Level
  <2>3. CASE UNCHANGED state
    <3>1. Pending' = Pending
      BY <1>1, <2>3, SamePending DEF CheckEntry
    <3> QED
      BY <1>t, <2>1, <2>2, <3>1, Lower
  <2>4. CASE state' = [state EXCEPT ![at] = "Conflict"] /\ at \in Planned
    <3>1. Pending' < Pending
      BY <1>1, <2>4, EntryLowers DEF CheckEntry, States
    <3> QED
      BY <1>t, <3>1, Lower
  <2>5. CASE state' = [state EXCEPT ![at] = "Conflict"] /\ at \notin Planned
    <3>1. Planned' = Planned /\ staged' = staged
      BY <1>1, <1>t, <2>1, <2>5 DEF CheckEntry, Planned, TypeOK
    <3>2. Pending' = Pending
      BY <3>1 DEF Pending, Parkable
    <3> QED
      BY <1>t, <2>1, <2>2, <3>2, Lower
  <2> QED
    BY <1>1, <2>3, <2>4, <2>5 DEF CheckEntry
<1>2. CASE BlockEntry
  <2>1. at \in Entries /\ pc = "block" /\ pc' = "block" /\ at' = at + 1 /\ applying' = applying
    BY <1>2, <1>t DEF BlockEntry, TypeOK, Entries
  <2>2. CASE UNCHANGED <<state, changed>>
    <3>1. Pending' = Pending /\ Level' = Level
      BY <1>2, <2>1, <2>2, SamePending DEF BlockEntry, Level, Passes
    <3> QED
      BY <1>t, <2>1, <3>1, Lower
  <2>3. CASE /\ state[at] = "Planned"
             /\ state' = [state EXCEPT ![at] = IF applying THEN "Failed" ELSE "Conflict"]
    <3>1. (IF applying THEN "Failed" ELSE "Conflict") \in States \ {"Planned"}
      BY DEF States
    <3>2. at \in Planned /\ staged' = staged
      BY <1>2, <2>1, <2>3 DEF BlockEntry, Planned
    <3>3. Pending' < Pending
      BY <2>3, <3>1, <3>2, EntryLowers
    <3> QED
      BY <1>t, <3>3, Lower
  <2> QED
    BY <1>2, <2>2, <2>3 DEF BlockEntry
<1>3. CASE BlockEnd
  <2>1. Pending' = Pending
    BY <1>3, SamePending DEF BlockEnd
  <2>2. pc = "block" /\ changed' = FALSE /\ applying' = applying
        /\ pc' = IF changed THEN "block" ELSE IF applying THEN "pick" ELSE "prompt"
    BY <1>3 DEF BlockEnd
  <2>3. Level' < Level
    BY <2>2 DEF Level, Passes
  <2> QED
    BY <1>t, <2>1, <2>3, Lower
<1>4. CASE CheckEnd \/ Decline \/ Approve
  <2>1. Pending' = Pending
    BY <1>4, SamePending DEF CheckEnd, Decline, Approve
  <2>2. Level' < Level
    BY <1>4 DEF CheckEnd, Decline, Approve, Level, Passes
  <2> QED
    BY <1>t, <2>1, <2>2, Lower
<1>5. CASE Revalidate
  <2>1. at \in Entries /\ pc = "revalidate" /\ pc' = "revalidate" /\ at' = at + 1
    BY <1>5, <1>t DEF Revalidate, TypeOK, Entries
  <2>2. CASE UNCHANGED state
    <3>1. Pending' = Pending /\ Level' = Level
      BY <1>5, <2>1, <2>2, SamePending DEF Revalidate, Level
    <3> QED
      BY <1>t, <2>1, <3>1, Lower
  <2>3. CASE at \in Planned /\ state' = [state EXCEPT ![at] = "Failed"]
    <3>1. Pending' < Pending
      BY <1>5, <2>3, EntryLowers DEF Revalidate, States
    <3> QED
      BY <1>t, <3>1, Lower
  <2> QED
    BY <1>5, <2>2, <2>3 DEF Revalidate
<1>6. CASE RevalidateEnd \/ PickCycle \/ Finish
  <2>1. Pending' = Pending
    BY <1>6, SamePending DEF RevalidateEnd, PickCycle, Finish
  <2>2. applying' = applying /\ (pc = "revalidate" => applying)
    BY <1>6 DEF RevalidateEnd, PickCycle, Finish, Underway
  <2>3. Level' < Level
    BY <1>6, <1>p, <2>2 DEF RevalidateEnd, PickCycle, Finish, Level, Passes
  <2> QED
    BY <1>t, <2>1, <2>3, Lower
<1>7. CASE Pick
  <2>1. Pending' = Pending
    BY <1>7, SamePending DEF Pick
  <2>2. CASE Goto("verify", at)
    <3>1. Level = 4 /\ Level' = 3
      BY <1>7, <2>2 DEF Pick, Level
    <3> QED
      BY <1>t, <2>1, <3>1, Lower
  <2>3. CASE Goto("pick", at + 1)
    <3>1. Level = 4 /\ Level' = 4 /\ at' = at + 1
      BY <1>7, <2>3 DEF Pick, Level
    <3> QED
      BY <1>t, <2>1, <3>1, Lower
  <2> QED
    BY <1>7, <2>2, <2>3 DEF Pick
<1>8. CASE GiveUp
  <2>1. state' = [i \in Entries |-> IF i \in Planned THEN "Failed" ELSE state[i]]
        /\ staged' = staged /\ Planned # {}
    BY <1>8 DEF GiveUp
  <2>2. Planned' = {}
    BY <2>1 DEF Planned
  <2>3. Parkable' = {}
    BY <2>2 DEF Parkable
  <2>4. Pending' < Pending
    BY <2>1, <2>2, <2>3, FewerPending
  <2> QED
    BY <1>t, <2>4, Lower
<1>f. ASSUME pc \in Working, Fail(at)
      PROVE  Remaining' < Remaining
  BY <1>t, <1>f, FailLowers, Lower
<1>9. CASE Verify
  <2>1. CASE Goto("move", at) /\ UNCHANGED <<state, staged>>
    <3>1. Pending' = Pending /\ Level' < Level
      BY <1>9, <2>1, SamePending DEF Verify, Level
    <3> QED
      BY <1>t, <3>1, Lower
  <2> QED
    BY <1>9, <1>f, <2>1 DEF Verify, Working
<1>10. CASE Move
  <2>1. CASE SetState(at, "Applied") /\ UNCHANGED staged
    <3>1. at \in Planned
      BY <1>10 DEF Move, IInv, AtWork, Working
    <3>2. Pending' < Pending
      BY <2>1, <3>1, EntryLowers DEF States
    <3> QED
      BY <1>t, <3>2, Lower
  <2> QED
    BY <1>10, <1>f, <2>1 DEF Move, Refuse, Working
<1>11. CASE Stage
  <2>1. CASE Goto("park", at) /\ UNCHANGED <<state, staged>>
    <3>1. Pending' = Pending /\ Level' < Level
      BY <1>11, <2>1, SamePending DEF Stage, Level
    <3> QED
      BY <1>t, <3>1, Lower
  <2> QED
    BY <1>11, <1>f, <2>1 DEF Stage, Working
<1>12. CASE Park
  <2>1. CASE staged' = staged \cup {at} /\ UNCHANGED state
    <3>1. at \in Parkable
      BY <1>12 DEF Park, Underway
    <3>2. Planned' = Planned
      BY <2>1 DEF Planned
    <3>3. at \notin Parkable' /\ Parkable' \subseteq Parkable
      BY <2>1, <3>2 DEF Parkable
    <3>4. Pending' < Pending
      BY <3>1, <3>2, <3>3, FewerPending
    <3> QED
      BY <1>t, <3>4, Lower
  <2> QED
    BY <1>12, <1>f, <2>1 DEF Park, Refuse, Working
<1>13. CASE Retake
  <2>1. CASE Goto("block", 1) /\ UNCHANGED <<state, staged>>
    <3>1. applying /\ applying' = applying
      BY <1>13 DEF Retake, Underway, Working
    <3>2. Pending' = Pending
      BY <2>1, SamePending
    <3>3. Level = 7 /\ Level' = Passes(5)'
      BY <1>13, <2>1, <3>1 DEF Retake, Level
    <3>4. Passes(5)' < 7
      BY DEF Passes
    <3> QED
      BY <1>t, <3>2, <3>3, <3>4, Lower
  <2> QED
    BY <1>13, <1>f, <2>1 DEF Retake, Working
<1>14. CASE Interfere
  BY <1>14 DEF Interfere
<1> QED
  BY <1>1, <1>2, <1>3, <1>4, <1>5, <1>6, <1>7, <1>8, <1>9, <1>10, <1>11, <1>12,
     <1>13, <1>14 DEF Next, Program, Answer

(* However long other processes go on, every step of the program and every   *)
(* answer of the user leaves fewer that can follow: the plan is never        *)
(* reconsidered for ever, nor a file parked again and again ("An entry is    *)
(* staged at most once, bounding progress"), and the whole rename takes no   *)
(* more steps than a bound fixed by the number of files.                     *)
THEOREM RenameAdvances ==
    Spec => /\ [](Remaining \in 0..Longest)
            /\ [][planVars' # planVars => Remaining' < Remaining]_vars
<1>1. Init => Underway
  BY DEF Init, Underway, Working
<1>2. IInv => Remaining \in 0..Longest
  BY RemainingType DEF IInv
<1>3. ASSUME IInv, IInv', Underway, [Next]_vars
      PROVE  [planVars' # planVars => Remaining' < Remaining]_vars
  <2>1. CASE UNCHANGED vars
    BY <2>1
  <2>2. CASE Next /\ planVars' = planVars
    BY <2>2
  <2>3. CASE Next /\ planVars' # planVars
    BY <1>3, <2>3, StepLowers
  <2> QED
    BY <1>3, <2>1, <2>2, <2>3
<1> QED
  BY <1>1, <1>2, <1>3, InitIInv, NextIInv, NextUnderway, PTL DEF Spec
=============================================================================
