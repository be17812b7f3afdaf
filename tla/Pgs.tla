--------------------------------- MODULE Pgs ---------------------------------
(* The decoder of picture subtitles (media-mkv-webm/src/pgs.rs): segments    *)
(* set up objects, palettes and windows; END draws the pending composition   *)
(* from them.  Sets and objects may span packets, everything is bounded, and *)
(* an error poisons the decoder.  Pixels, colours and places are abstracted  *)
(* to sizes, and to whether a picture came out.                              *)
EXTENDS Naturals, FiniteSets, Functions

CONSTANTS ObjectIds, PaletteIds, WindowIds, Canvases, Versions, Sizes, Pieces,
          MaxObjects, MaxPalettes, MaxState,     \* objects, palettes, object_state_bytes
          MaxSegments, MaxPackets, MaxDisplays,  \* segments_per_display, packets, displays
          MaxTime

ASSUME PgsAssumption ==
    /\ Sizes \subseteq Nat \ {0} /\ Pieces \subseteq Nat /\ IsFiniteSet(ObjectIds)
    /\ \A n \in {MaxObjects, MaxPalettes, MaxState, MaxSegments, MaxPackets, MaxDisplays,
                 MaxTime} : n \in Nat

VARIABLES objects, fragments, palettes, windows,  \* what segments have set up
          pending, shown,                         \* pending, last
          clock, segments, packets, displays,
          decoding,    \* "on", "poisoned", or "ended" by finish
          refreshed,   \* history: compositions that started afresh
          announced    \* history: compositions
setup == <<objects, fragments, palettes, windows>>
counts == <<clock, packets>>
pgsVars == <<setup, pending, shown, counts, segments, displays, decoding, refreshed, announced>>

Nothing == [none |-> TRUE]

Object == [id : ObjectIds, pixels : Sizes, since : Nat]
Fragment == [id : ObjectIds, version : Versions, expected : Sizes, got : Nat, pixels : Sizes,
             since : Nat]
Reference == ObjectIds \X WindowIds
Composition == [time : Nat, canvas : Canvases, palette : PaletteIds,
                references : SUBSET Reference, since : Nat]
Shown == [time : Nat, canvas : Canvases, references : SUBSET Reference, since : Nat,
          image : BOOLEAN, from : SUBSET Nat]

PgsTypeOK ==
    /\ objects \subseteq Object /\ fragments \subseteq Fragment
    /\ palettes \subseteq PaletteIds \X Nat /\ windows \subseteq WindowIds \X Nat
    /\ pending \in Composition \union {Nothing} /\ shown \in Shown \union {Nothing}
    /\ clock \in Nat /\ segments \in Nat /\ packets \in Nat /\ displays \in Nat
    /\ decoding \in {"on", "poisoned", "ended"} /\ refreshed \in Nat /\ announced \in Nat

PgsInit ==
    /\ objects = {} /\ fragments = {} /\ palettes = {} /\ windows = {}
    /\ pending = Nothing /\ shown = Nothing
    /\ clock = 0 /\ segments = 0 /\ packets = 0 /\ displays = 0
    /\ decoding = "on" /\ refreshed = 0 /\ announced = 0

Poison == /\ decoding' = "poisoned"
          /\ UNCHANGED <<setup, pending, shown, counts, segments, displays, refreshed, announced>>

NextPacket ==
    /\ decoding = "on"
    /\ \/ packets < MaxPackets /\ clock' \in clock..MaxTime /\ packets' = packets + 1
          /\ UNCHANGED <<setup, pending, shown, segments, displays, decoding, refreshed,
                         announced>>
       \/ Poison                       \* empty, too large, too many, or back in time

(* Every segment is charged, and all but a PCS need one before them.         *)
Segment == decoding = "on" /\ packets > 0 /\ segments < MaxSegments
Charged == segments' = segments + 1 /\ UNCHANGED <<counts, decoding>>
WithinSet == Segment /\ Charged /\ pending # Nothing
Rejected == decoding = "on" /\ packets > 0 /\ Poison    \* any malformed segment
-----------------------------------------------------------------------------
(* PCS: state is 0x80 for an epoch, 0x40 for an acquisition, 0 for neither.  *)

MutRefreshes(state) == state = 128
Refreshes(state) == state # 0
MutMayReuse(state) == shown # Nothing
MayReuse(state) == state = 0 /\ shown # Nothing
Pcs(state, canvas, palette, references, update) ==
    /\ Segment /\ Charged /\ pending = Nothing
    /\ state # 128 /\ shown # Nothing => shown.canvas = canvas
    /\ update /\ references = {} => MayReuse(state)
    /\ refreshed' = refreshed + (IF state # 0 THEN 1 ELSE 0)
    /\ IF Refreshes(state)
       THEN objects' = {} /\ fragments' = {} /\ palettes' = {} /\ windows' = {}
       ELSE UNCHANGED setup
    /\ pending' =
          [time |-> clock, canvas |-> canvas, palette |-> palette,
           references |-> IF update /\ references = {} THEN shown.references ELSE references,
           since |-> IF update /\ references = {} THEN shown.since ELSE refreshed']
    /\ announced' = announced + 1
    /\ UNCHANGED <<shown, displays>>

Pds(id) ==
    /\ WithinSet
    /\ \/ \E p \in palettes : p[1] = id /\ UNCHANGED palettes
       \/ /\ \A p \in palettes : p[1] # id
          /\ Cardinality(palettes) < MaxPalettes
          /\ palettes' = palettes \union {<<id, refreshed>>}
    /\ UNCHANGED <<objects, fragments, windows, pending, shown, displays, refreshed, announced>>

Wds(ids) ==
    /\ WithinSet
    /\ windows' = ids \X {refreshed}
    /\ UNCHANGED <<objects, fragments, palettes, pending, shown, displays, refreshed, announced>>
-----------------------------------------------------------------------------
(* ODS                                                                       *)

StateBytes(parts) == SumFunction([o \in objects |-> o.pixels])
                     + SumFunction([f \in parts |-> f.expected])
IdsOf(set) == {o.id : o \in set}
MutLive == IdsOf(objects)
Live == IdsOf(objects) \union IdsOf(fragments)

(* n more bytes of fragment f, which complete it just if it is the last.     *)
Grown(f, others, n, last) ==
    /\ f.got + n <= f.expected
    /\ (f.got + n = f.expected) = last
    /\ IF last
       THEN /\ StateBytes(others \union {f}) + f.pixels <= MaxState
            /\ objects' = {o \in objects : o.id # f.id}
                          \union {[id |-> f.id, pixels |-> f.pixels, since |-> f.since]}
            /\ fragments' = others
       ELSE /\ fragments' = others \union {[f EXCEPT !.got = @ + n]}
            /\ UNCHANGED objects
First(id, version, expected, pixels, n, last) ==
    /\ id \notin IdsOf(fragments)
    /\ Cardinality(Live \union {id}) <= MaxObjects
    /\ StateBytes(fragments) + expected <= MaxState
    /\ Grown([id |-> id, version |-> version, expected |-> expected, got |-> 0,
              pixels |-> pixels, since |-> refreshed], fragments, n, last)
Continuation(id, version, n, last) ==
    \E f \in fragments : /\ f.id = id /\ f.version = version
                         /\ Grown(f, fragments \ {f}, n, last)
Ods(id, version, n, last) ==
    /\ WithinSet
    /\ \/ \E expected, pixels \in Sizes : First(id, version, expected, pixels, n, last)
       \/ Continuation(id, version, n, last)
    /\ UNCHANGED <<palettes, windows, pending, shown, displays, refreshed, announced>>
-----------------------------------------------------------------------------
(* END                                                                       *)

Drawable == /\ \E p \in palettes : p[1] = pending.palette
            /\ \A r \in pending.references : (\E o \in objects : o.id = r[1])
                                             /\ (\E w \in windows : w[1] = r[2])
DrawnFrom == {p[2] : p \in {p \in palettes : p[1] = pending.palette}}
             \union {o.since : o \in {o \in objects :
                                        \E r \in pending.references : o.id = r[1]}}
             \union {w[2] : w \in {w \in windows : \E r \in pending.references : w[1] = r[2]}}
(* What is outside its window, or transparent, does not show.                *)
Commit ==
    /\ Segment /\ pending # Nothing
    /\ fragments = {} /\ displays < MaxDisplays
    /\ pending.references # {} => Drawable
    /\ \E image \in BOOLEAN :
          /\ pending.references = {} => ~image
          /\ shown' = [time |-> pending.time, canvas |-> pending.canvas,
                       references |-> pending.references, since |-> pending.since,
                       image |-> image,
                       from |-> IF pending.references = {} THEN {} ELSE DrawnFrom]
    /\ pending' = Nothing /\ segments' = 0 /\ displays' = displays + 1
    /\ UNCHANGED <<setup, counts, decoding, refreshed, announced>>

MutComplete == fragments = {}
Complete == pending = Nothing /\ fragments = {}
Finish ==
    /\ decoding = "on"
    /\ IF Complete
       THEN /\ decoding' = "ended"
            /\ UNCHANGED <<setup, pending, shown, counts, segments, displays, refreshed,
                           announced>>
       ELSE Poison

PgsNext ==
    \/ NextPacket \/ Rejected \/ Commit \/ Finish
    \/ \E state \in {0, 64, 128}, c \in Canvases, p \in PaletteIds, r \in SUBSET Reference,
          update \in BOOLEAN : Pcs(state, c, p, r, update)
    \/ \E id \in PaletteIds : Pds(id)
    \/ \E ids \in SUBSET WindowIds : Wds(ids)
    \/ \E id \in ObjectIds, v \in Versions, n \in Pieces, last \in BOOLEAN : Ods(id, v, n, last)
PgsSpec == PgsInit /\ [][PgsNext]_pgsVars
-----------------------------------------------------------------------------
(* Nothing outlives an epoch or an acquisition: what is set up, the          *)
(* references a palette update takes over, and every palette, object and     *)
(* window a picture was drawn from, stem from the fresh start its            *)
(* composition belongs to (pgs.rs, pcs, ods, render).                        *)
OnlyThisRefresh ==
    /\ \A x \in objects \union fragments : x.since = refreshed
    /\ \A x \in palettes \union windows : x[2] = refreshed
    /\ pending # Nothing => pending.since = refreshed
    /\ shown # Nothing => shown.from \subseteq {shown.since}

(* Objects, those in parts included, are no more and no larger than allowed. *)
ObjectsBounded == Cardinality(Live) <= MaxObjects /\ StateBytes(fragments) <= MaxState

(* A track that ends well has shown every composition it announced, and the  *)
(* times shown never run ahead of the packets.                               *)
NothingHeldBack == /\ decoding = "ended" => announced = displays
                   /\ announced = displays + (IF pending = Nothing THEN 0 ELSE 1)
                   /\ shown # Nothing => shown.time <= clock

(* The three together (pgs.rs).                                              *)
PicturesAreWhole == OnlyThisRefresh /\ ObjectsBounded /\ NothingHeldBack
=============================================================================
