---------------------------- MODULE MediaFolder ----------------------------
(* One folder of the file system, as rename.rs and rename/native.rs use it.  *)
(* A name holds at most one file; a file is an inode, whose identity is      *)
(* (st_dev, st_ino).  FsKey says which spellings the file system itself      *)
(* takes for the same name: the identity on Linux, case folding on Windows   *)
(* and macOS, anything coarser for aliases (8.3 names, normalisation).       *)
(* Other processes of the user share the folder: Create, Remove and Edit are *)
(* their steps, and `touched' remembers the files they laid hands on.        *)
EXTENDS Naturals, FiniteSets

CONSTANTS Names,    \* spellings of names in this folder
          Files,    \* inodes
          NoFile,   \* no file under a name
          FsKey,    \* Names -> the key the file system resolves names by
          MaxData,  \* contents (length, mtime) are 0..MaxData
          MaxMeta   \* change times are 0..MaxMeta

ASSUME FolderAssumption == /\ NoFile \notin Files
                           /\ MaxData \in Nat
                           /\ MaxMeta \in Nat

VARIABLES folder,   \* Names -> Files or NoFile
          stat,     \* Files -> what a snapshot reads besides the identity
          touched   \* files other processes created, removed or edited

folderVars == <<folder, stat, touched>>

Stats == [data : 0..MaxData, meta : 0..MaxMeta]

FolderTypeOK == /\ folder \in [Names -> Files \cup {NoFile}]
                /\ stat \in [Files -> Stats]
                /\ touched \subseteq Files

(* Every spelling that reaches the directory entry n reaches.                *)
Slot(n) == {m \in Names : FsKey[m] = FsKey[n]}

Present(n) == \E m \in Slot(n) : folder[m] # NoFile

FileAt(n) == IF Present(n)
             THEN folder[CHOOSE m \in Slot(n) : folder[m] # NoFile]
             ELSE NoFile

InFolder == {folder[n] : n \in Names} \ {NoFile}

(* A directory: no file under two names, no slot with two entries.           *)
WellFormed == \A m, n \in Names :
                 /\ folder[m] # NoFile
                 /\ folder[n] # NoFile
                 /\ folder[m] = folder[n] \/ FsKey[m] = FsKey[n]
                 => m = n

(* What Snapshot::take reads through a path.                                 *)
Take(n) == [file |-> FileAt(n),
            data |-> stat[FileAt(n)].data,
            meta |-> stat[FileAt(n)].meta]

(* renameat2(RENAME_NOREPLACE), renamex_np(RENAME_EXCL), MoveFileExW(0).     *)
MutCanMove(from, to) == Present(from)  \* a bug: rename(2), which replaces
CanMove(from, to) == Present(from) /\ ~Present(to)

Moved(from, to) == [m \in Names |-> IF m = to THEN FileAt(from)
                                    ELSE IF m \in Slot(from) THEN NoFile
                                    ELSE folder[m]]

(* A rename may change the ctime of the file it renames, never its content.  *)
MoveNoReplace(from, to) ==
    /\ CanMove(from, to)
    /\ folder' = Moved(from, to)
    /\ \E c \in 0..MaxMeta : stat' = [stat EXCEPT ![FileAt(from)].meta = c]
    /\ UNCHANGED touched

-----------------------------------------------------------------------------
(* Other processes.  A rename of theirs is a Remove and a Create.            *)
Create(n, f) == /\ ~Present(n)
                /\ f \notin InFolder
                /\ folder' = [folder EXCEPT ![n] = f]
                /\ \E s \in Stats : stat' = [stat EXCEPT ![f] = s]
                /\ touched' = touched \cup {f}

Remove(n) == /\ folder[n] # NoFile
             /\ folder' = [folder EXCEPT ![n] = NoFile]
             /\ touched' = touched \cup {folder[n]}
             /\ UNCHANGED stat

Edit(n) == /\ folder[n] # NoFile
           /\ \E s \in Stats : /\ s # stat[folder[n]]
                               /\ stat' = [stat EXCEPT ![folder[n]] = s]
           /\ touched' = touched \cup {folder[n]}
           /\ UNCHANGED folder

Others == \/ \E n \in Names, f \in Files : Create(n, f)
          \/ \E n \in Names : Remove(n) \/ Edit(n)
=============================================================================
