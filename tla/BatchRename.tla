---------------------------- MODULE BatchRename ----------------------------
(* What a rename plan promises when nobody else touches the folder: it is    *)
(* either declined, or every entry whose rename is possible gets its name,   *)
(* all at once, and nothing else in the folder changes.  Only if the system  *)
(* refuses a move may the folder come out otherwise, with all its files.     *)
EXTENDS Naturals, FiniteSets

CONSTANTS N, Names, NoFile, NoName, Path, Key, FolderCap

VARIABLES folder,  \* Names -> file or NoFile
          asked,   \* per entry, the name it should get or NoName
          refused, \* entries the move of which the system refused
          done

Entries == 1..N

(* Entries that ask for a new name no other entry of the plan asks for.      *)
Candidates == {i \in Entries :
    /\ asked[i] \notin {NoName, Path[i]}
    /\ \A j \in Entries \ {i} :
          asked[j] # NoName => Key[asked[j]] # Key[asked[i]]}

Occupants(n) == {m \in Names : folder[m] # NoFile /\ Key[m] = Key[n]}

(* A set of renames is possible together if each of its destinations is free *)
(* or held by one file, which the set moves away.                            *)
Possible(S) == \A i \in S : \/ Occupants(asked[i]) = {}
                            \/ \E j \in S : Occupants(asked[i]) = {Path[j]}

FilesOf(f) == {f[n] : n \in Names}

Movable == IF Cardinality(FilesOf(folder) \ {NoFile}) > FolderCap
           THEN {}
           ELSE UNION {S \in SUBSET Candidates : Possible(S)}

Renamed == [n \in Names |->
    IF \E i \in Movable : asked[i] = n
    THEN folder[Path[CHOOSE i \in Movable : asked[i] = n]]
    ELSE IF \E i \in Movable : Path[i] = n THEN NoFile
    ELSE folder[n]]

Init == done = FALSE

Finish == /\ ~done
          /\ done'
          /\ \/ folder' = folder
             \/ folder' = Renamed
             \/ refused # {} /\ FilesOf(folder') = FilesOf(folder)
          /\ UNCHANGED <<asked, refused>>

Refuse == ~done /\ refused' # refused /\ UNCHANGED <<folder, asked, done>>

Next == Finish \/ Refuse

Spec == Init /\ [][Next]_<<folder, asked, refused, done>>
=============================================================================
