------------------------------- MODULE Matroska ------------------------------
(* The bounded walk of a Matroska file (media-mkv-webm/src/streaming.rs,     *)
(* streaming/bounded.rs): discover the children of the segment, then read    *)
(* cluster by cluster, emitting the blocks of one track, under one budget of *)
(* elements for both.  A file is its tree of elements; bytes are abstracted  *)
(* to whether an element lies within its parent and decodes.                 *)
EXTENDS Integers, Sequences, SequencesExt, Functions

CONSTANTS MkvFiles,   \* files: [head, whole, tops]
          Selected,   \* the track filter
          Elements,   \* StreamingLimits.elements
          Scale       \* TimestampScale

Once == {"info", "tracks", "cues"}
Opaque == {"opaque", "void"}

(* The tree of a file.  An odd element has an ID that means nothing there.   *)
PartElements ==
    [kind : {"block"}, valid : BOOLEAN, track : Nat, delta : Int, laced : BOOLEAN]
    \union [kind : {"timestamp", "duration"}, valid : BOOLEAN, ticks : Nat]
    \union [kind : Opaque \union {"reference", "odd"}, valid : BOOLEAN]
ChildElements ==
    PartElements \union [kind : {"group"}, valid : BOOLEAN, parts : Seq(PartElements)]
TopElements ==
    [kind : {"cluster"}, valid : BOOLEAN, fields : Nat, children : Seq(ChildElements)]
    \union [kind : Once \union Opaque \union {"odd"}, valid : BOOLEAN, fields : Nat]

ASSUME MatroskaAssumption ==
    /\ Elements \in Nat /\ Scale \in Nat
    /\ MkvFiles \subseteq [head : Nat, whole : BOOLEAN, tops : Seq(TopElements)]

VARIABLES file, grown,   \* the argument; whether its length has changed
          walk,          \* "open", "discover", "walk", "cluster", "group",
                         \* "done", "refused", "broken"
          top, child, part,          \* positions: in the segment, a cluster, a group
          had, budget, time,         \* seen kinds, elements left, Cluster->Timestamp
          block, duration,           \* of the group
          emitted
place == <<top, child, part>>
matroskaVars == <<file, grown, walk, place, had, budget, time, block, duration, emitted>>

Undeclared == -99

MatroskaTypeOK ==
    /\ grown \in BOOLEAN
    /\ walk \in {"open", "discover", "walk", "cluster", "group", "done", "refused", "broken"}
    /\ top \in Nat /\ child \in Nat /\ part \in Nat /\ budget \in 0..Elements
    /\ had \subseteq Once /\ time \in Nat \union {Undeclared} /\ duration \in Int
    /\ block \in {"none", "skipped", "selected"}

MatroskaInit ==
    /\ file \in MkvFiles /\ grown = FALSE
    /\ walk = "open" /\ top = 1 /\ child = 1 /\ part = 1
    /\ had = {} /\ budget = Elements /\ time = Undeclared
    /\ block = "none" /\ duration = Undeclared /\ emitted = <<>>

Ends(how) == walk' = how /\ UNCHANGED <<place, had, budget, time, block, duration, emitted>>
Walks == UNCHANGED <<file, grown>>

(* The disk                                                                  *)
Grows == /\ walk \notin {"open", "done", "refused", "broken"} /\ ~grown
         /\ grown' = TRUE
         /\ UNCHANGED <<file, walk, place, had, budget, time, block, duration, emitted>>
Breaks == /\ walk \notin {"done", "refused", "broken"}    \* an error, or the budget, of I/O
          /\ Ends("broken") /\ Walks
-----------------------------------------------------------------------------
(* open_streaming_with_limits                                                *)

OpenMatroska ==
    /\ walk = "open" /\ Walks
    /\ IF file.head > budget \/ ~file.whole THEN Ends("refused")
       ELSE /\ walk' = "discover" /\ budget' = budget - file.head
            /\ UNCHANGED <<place, had, time, block, duration, emitted>>

Top == file.tops[top]
Undiscoverable(e) ==
    \/ budget < 1 + e.fields \/ ~e.valid
    \/ e.kind \in Once /\ e.kind \in had
    \/ e.kind \notin Once \union Opaque \union {"cluster"}
FirstCluster(tops) ==
    IF \E i \in DOMAIN tops : tops[i].kind = "cluster"
    THEN CHOOSE i \in DOMAIN tops : /\ tops[i].kind = "cluster"
                                   /\ \A j \in 1..(i - 1) : tops[j].kind # "cluster"
    ELSE Len(tops) + 1
Discover ==
    /\ walk = "discover" /\ Walks
    /\ IF top <= Len(file.tops)
       THEN IF Undiscoverable(Top) THEN Ends("refused")
            ELSE /\ top' = top + 1 /\ budget' = budget - 1 - Top.fields
                 /\ had' = had \union (Once \intersect {Top.kind})
                 /\ UNCHANGED <<walk, child, part, time, block, duration, emitted>>
       ELSE IF "tracks" \notin had \/ Scale = 0 THEN Ends("refused")
            ELSE /\ walk' = "walk" /\ top' = FirstCluster(file.tops)
                 /\ UNCHANGED <<child, part, had, budget, time, block, duration, emitted>>
-----------------------------------------------------------------------------
(* next_frame_into                                                           *)

NextTop ==
    /\ walk = "walk" /\ Walks
    /\ IF top > Len(file.tops) THEN Ends(IF grown THEN "refused" ELSE "done")
       ELSE IF budget = 0 THEN Ends("refused")
       ELSE /\ budget' = budget - 1
            /\ IF Top.kind = "cluster"
               THEN walk' = "cluster" /\ child' = 1 /\ time' = Undeclared /\ UNCHANGED top
               ELSE top' = top + 1 /\ UNCHANGED <<walk, child, time>>
            /\ UNCHANGED <<part, had, block, duration, emitted>>

Child == Top.children[child]
Part == Child.parts[part]
Presents(b) == (time + b.delta) * Scale
(* stream_block_into: another track's block is skipped unseen.               *)
Undeliverable(b) == ~b.valid \/ (b.track \in Selected /\ (b.laced \/ Presents(b) < 0))
Frame(b, d) == IF b.track \in Selected THEN <<[time |-> Presents(b), duration |-> d]>> ELSE <<>>

MutRefusedChild(e) == ~e.valid \/ (e.kind \in {"block", "group"} /\ time = Undeclared)
                      \/ e.kind \notin {"timestamp", "block", "group"} \union Opaque
                      \/ (e.kind = "block" /\ Undeliverable(e))
RefusedChild(e) ==
    \/ ~e.valid
    \/ e.kind = "timestamp" /\ time # Undeclared
    \/ e.kind \in {"block", "group"} /\ time = Undeclared
    \/ e.kind = "block" /\ Undeliverable(e)
    \/ e.kind \notin {"timestamp", "block", "group"} \union Opaque
NextChild ==
    /\ walk = "cluster" /\ Walks
    /\ IF child > Len(Top.children)
       THEN /\ walk' = "walk" /\ top' = top + 1
            /\ UNCHANGED <<child, part, had, budget, time, block, duration, emitted>>
       ELSE IF budget = 0 \/ RefusedChild(Child) THEN Ends("refused")
       ELSE /\ budget' = budget - 1
            /\ time' = IF Child.kind = "timestamp" THEN Child.ticks ELSE time
            /\ emitted' = IF Child.kind = "block" THEN emitted \o Frame(Child, Undeclared)
                          ELSE emitted
            /\ IF Child.kind = "group"
               THEN /\ walk' = "group" /\ part' = 1 /\ block' = "none" /\ duration' = Undeclared
                    /\ UNCHANGED child
               ELSE child' = child + 1 /\ UNCHANGED <<walk, part, block, duration>>
            /\ UNCHANGED <<top, had>>

RefusedPart(e) ==
    \/ ~e.valid
    \/ e.kind = "block" /\ (block # "none" \/ Undeliverable(e))
    \/ e.kind = "duration" /\ duration # Undeclared
    \/ e.kind \notin {"block", "duration", "reference"} \union Opaque
(* The block is delivered when its group is read, with the group's duration. *)
NextPart ==
    /\ walk = "group" /\ Walks
    /\ IF part > Len(Child.parts)
       THEN IF block = "none" THEN Ends("refused")
            ELSE /\ emitted' = IF block = "skipped" THEN emitted
                      ELSE [emitted EXCEPT ![Len(emitted)].duration =
                               IF duration = Undeclared THEN @ ELSE duration * Scale]
                 /\ walk' = "cluster" /\ child' = child + 1
                 /\ UNCHANGED <<top, part, had, budget, time, block, duration>>
       ELSE IF budget = 0 \/ RefusedPart(Part) THEN Ends("refused")
       ELSE /\ budget' = budget - 1 /\ part' = part + 1
            /\ duration' = IF Part.kind = "duration" THEN Part.ticks ELSE duration
            /\ IF Part.kind = "block"
               THEN /\ block' = IF Part.track \in Selected THEN "selected" ELSE "skipped"
                    /\ emitted' = emitted \o Frame(Part, Undeclared)
               ELSE UNCHANGED <<block, emitted>>
            /\ UNCHANGED <<walk, top, child, had, time>>

MatroskaNext == Grows \/ Breaks \/ OpenMatroska \/ Discover \/ NextTop \/ NextChild \/ NextPart
MatroskaSpec == MatroskaInit /\ [][MatroskaNext]_matroskaVars
-----------------------------------------------------------------------------
(* What a file says, read as a tree.                                         *)

Among(s, kind) == {i \in DOMAIN s : s[i].kind = kind}
AtMostOne(s, kind) == \A i, j \in Among(s, kind) : i = j
Sole(s, kind) == s[CHOOSE i \in Among(s, kind) : TRUE]
AllValid(s, kinds) == \A i \in DOMAIN s : s[i].valid /\ s[i].kind \in kinds
Playable(start, b) == b.valid /\ (b.track \in Selected => ~b.laced /\ start + b.delta >= 0)
GroupFormed(start, g) ==
    /\ AllValid(g.parts, {"block", "duration", "reference"} \union Opaque)
    /\ AtMostOne(g.parts, "block") /\ Among(g.parts, "block") # {}
    /\ AtMostOne(g.parts, "duration")
    /\ Playable(start, Sole(g.parts, "block"))
Starts(s) == Sole(s, "timestamp").ticks
ClusterFormed(s) ==
    /\ AllValid(s, {"timestamp", "block", "group"} \union Opaque)
    /\ AtMostOne(s, "timestamp")
    /\ \A i \in Among(s, "block") \union Among(s, "group") :
          \E t \in Among(s, "timestamp") : t < i
    /\ \A i \in Among(s, "block") : Playable(Starts(s), s[i])
    /\ \A i \in Among(s, "group") : GroupFormed(Starts(s), s[i])
WellFormed(f) ==
    /\ f.whole /\ Scale # 0 /\ AllValid(f.tops, Once \union Opaque \union {"cluster"})
    /\ \A kind \in Once : AtMostOne(f.tops, kind)
    /\ Among(f.tops, "tracks") # {}
    /\ \A i \in Among(f.tops, "cluster") : ClusterFormed(f.tops[i].children)

FrameOf(start, b, others) ==
    IF b.track \notin Selected THEN <<>>
    ELSE <<[time |-> (start + b.delta) * Scale,
            duration |-> IF Among(others, "duration") = {} THEN Undeclared
                         ELSE Sole(others, "duration").ticks * Scale]>>
ChildFrames(start, e) ==
    CASE e.kind = "block" -> FrameOf(start, e, <<>>)
      [] e.kind = "group" -> FrameOf(start, Sole(e.parts, "block"), e.parts)
      [] OTHER -> <<>>
ClusterFrames(s) == [i \in DOMAIN s |-> ChildFrames(Starts(s), s[i])]
TopFrames(tops) == [i \in DOMAIN tops |-> IF tops[i].kind = "cluster"
                                          THEN FlattenSeq(ClusterFrames(tops[i].children))
                                          ELSE <<>>]
Frames(f) == FlattenSeq(TopFrames(f.tops))

ChildCosts(s) == [i \in DOMAIN s |-> 1 + IF s[i].kind = "group" THEN Len(s[i].parts) ELSE 0]
FieldCosts(tops) == [i \in DOMAIN tops |-> 1 + tops[i].fields]
WalkCosts(tops) ==
    [i \in DOMAIN tops |-> 1 + IF tops[i].kind = "cluster"
                               THEN SumFunction(ChildCosts(tops[i].children)) ELSE 0]
Cost(f) == f.head + SumFunction(FieldCosts(f.tops))
           + SumFunctionOnSet(WalkCosts(f.tops), FirstCluster(f.tops)..Len(f.tops))

(* A walk that ends well has emitted every frame of the track and no other,  *)
(* in order, at its time and with its own duration, from a file in which     *)
(* everything read is well formed; and it refuses no such file whose cost is *)
(* within the budget (streaming.rs, bounded.rs).                             *)
WalkIsWhole ==
    /\ walk = "done" => /\ WellFormed(file) /\ ~grown
                        /\ Cost(file) = Elements - budget /\ emitted = Frames(file)
    /\ walk = "refused" => ~WellFormed(file) \/ Cost(file) > Elements \/ grown
=============================================================================
