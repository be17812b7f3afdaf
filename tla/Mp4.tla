--------------------------------- MODULE Mp4 ---------------------------------
(* Captions of an MP4 file: the boxes of the file and the tables of one      *)
(* track (media-isobmff/src/demux.rs) say where each sample lies and when it *)
(* is shown; text samples become cues (media/mp4.rs).  Fields are numbers,   *)
(* a text is whether it says something; encodings are left out.              *)
EXTENDS Integers, Sequences, FiniteSets, SequencesExt, Functions

CONSTANTS Mp4Files,   \* a sequence of sets of files: [boxes, sizes, stts, stsc, chunks, duration,
                      \* edit, texts, supported]
          Timescale, MovieScale,   \* of the track, of the movie: ticks in a second
          NsPerSecond, NsPerMs,
          ReadBytes, SampleBytes   \* Limits

Whole == [none |-> TRUE]               \* a track without an edit list
Mp4FileType ==
    [boxes : Seq([kind : {"ftyp", "moov", "mdat", "moof", "free", "broken"},
                  start : Nat, end : Nat]),
     sizes : Seq(Nat), stts : Seq(Nat \X Nat), stsc : Seq(Nat \X Nat), chunks : Seq(Nat),
     duration : Nat, edit : {Whole} \union [delay : Nat, media : Nat, length : Nat],
     texts : Seq({"words", "clear", "invalid"}), supported : BOOLEAN]

ASSUME Mp4Assumption ==
    /\ \A k \in DOMAIN Mp4Files : \A f \in Mp4Files[k] :
          /\ f \in Mp4FileType /\ Len(f.texts) = Len(f.sizes)
          /\ \A i \in DOMAIN f.boxes : f.boxes[i].start <= f.boxes[i].end
    /\ Timescale \in Nat \ {0} /\ MovieScale \in Nat \ {0}
    /\ NsPerSecond \in Nat \ {0} /\ NsPerMs \in Nat \ {0}
    /\ ReadBytes \in Nat /\ SampleBytes \in Nat

VARIABLES index,     \* the argument
          step,      \* "boxes", "stts", "stsc", "chunks", "samples"; "done", "refused", "failed"
          next,      \* the box, row, chunk or sample that comes next
          kinds, extents,    \* ftyp and moov found; mdat
          timings, mapping, run, placed,
          read, captions
mp4Vars == <<index, step, next, kinds, extents, timings, mapping, run, placed, read, captions>>

Mp4TypeOK ==
    /\ step \in {"boxes", "stts", "stsc", "chunks", "samples", "done", "refused", "failed"}
    /\ next \in Nat \ {0} /\ kinds \subseteq {"ftyp", "moov"} /\ run \in Nat
    /\ extents \in Seq(Nat \X Nat) /\ timings \in Seq(Nat \X Nat) /\ mapping \in Seq(Nat \X Nat)
    /\ placed \in Seq([offset : Nat, size : Nat, start : Nat, duration : Nat])
    /\ read \in 0..ReadBytes /\ captions \in Seq([start : Nat, end : Nat])

Mp4Init ==
    /\ \E k \in DOMAIN Mp4Files : index \in Mp4Files[k]
    /\ step = "boxes" /\ next = 1 /\ kinds = {} /\ extents = <<>>
    /\ timings = <<>> /\ mapping = <<>> /\ run = 1 /\ placed = <<>>
    /\ read = 0 /\ captions = <<>>

Goes(where) == step' = where /\ next' = 1
Stays == next' = next + 1 /\ UNCHANGED step
Stops(how) == step' = how /\ UNCHANGED <<next, kinds, extents, timings, mapping, run, placed, read,
                                         captions>>
Overdrawn(n) == read + n > ReadBytes   \* the next bytes are beyond the budget
-----------------------------------------------------------------------------
(* open                                                                      *)

Size(b) == b.end - b.start
Openable == kinds = {"ftyp", "moov"} /\ index.supported    \* and its track can be read
NextBox ==
    /\ step = "boxes" /\ UNCHANGED index
    /\ IF next > Len(index.boxes)
       THEN IF ~Openable THEN Stops("refused")
            ELSE Goes("stts") /\ UNCHANGED <<kinds, extents, timings, mapping, run, placed, read,
                                             captions>>
       ELSE LET b == index.boxes[next]
                cost == IF b.kind \in {"ftyp", "moov"} THEN 1 + Size(b) ELSE 1
            IN IF \/ b.kind \in kinds \union {"moof", "broken"} \/ Overdrawn(cost)
               THEN Stops("refused")
               ELSE /\ Stays /\ read' = read + cost
                    /\ kinds' = kinds \union ({b.kind} \intersect {"ftyp", "moov"})
                    /\ extents' = IF b.kind = "mdat" THEN Append(extents, <<b.start, b.end>>)
                                  ELSE extents
                    /\ UNCHANGED <<timings, mapping, run, placed, captions>>
-----------------------------------------------------------------------------
(* samples                                                                   *)

Count == Len(index.sizes)
Ended == IF timings = <<>> THEN 0 ELSE timings[Len(timings)][1] + timings[Len(timings)][2]
Timing ==                                    \* a run: so many samples, so long each
    /\ step = "stts" /\ UNCHANGED index
    /\ IF next > Len(index.stts)
       THEN IF Ended # index.duration \/ Len(timings) # Count THEN Stops("refused")
            ELSE Goes("stsc") /\ UNCHANGED <<kinds, extents, timings, mapping, run, placed, read,
                                             captions>>
       ELSE LET row == index.stts[next]
            IN IF row[1] = 0 THEN Stops("refused")
               ELSE /\ timings' = timings \o [k \in 1..row[1] |->
                                                <<Ended + (k - 1) * row[2], row[2]>>]
                    /\ Stays /\ UNCHANGED <<kinds, extents, mapping, run, placed, read, captions>>

Chunks == Len(index.chunks)
Mapping ==                                   \* from a chunk on, so many samples in each
    /\ step = "stsc" /\ UNCHANGED index
    /\ IF next > Len(index.stsc)
       THEN IF \/ Chunks > 0 /\ (mapping = <<>> \/ mapping[1][1] # 1)
               \/ Chunks = 0 /\ Count # 0
            THEN Stops("refused")
            ELSE Goes("chunks") /\ UNCHANGED <<kinds, extents, timings, mapping, run, placed, read,
                                               captions>>
       ELSE LET row == index.stsc[next]
            IN IF \/ row[1] = 0 \/ row[1] > Chunks \/ row[2] = 0
                  \/ mapping # <<>> /\ mapping[Len(mapping)][1] >= row[1]
               THEN Stops("refused")
               ELSE mapping' = Append(mapping, row)
                    /\ Stays /\ UNCHANGED <<kinds, extents, timings, run, placed, read, captions>>

(* The last extent that starts no later holds the sample, or none does.      *)
Holds(offset, end) ==
    LET before == {i \in DOMAIN extents : extents[i][1] <= offset}
    IN before # {} /\ end <= extents[CHOOSE i \in before : \A j \in before : j <= i][2]
MutAdvanced == CHOOSE r \in run..Len(mapping) :
                  /\ r = run \/ mapping[r][1] < next
                  /\ r < Len(mapping) => mapping[r + 1][1] >= next
Advanced == CHOOSE r \in run..Len(mapping) :
               /\ r = run \/ mapping[r][1] <= next
               /\ r < Len(mapping) => mapping[r + 1][1] > next
Total(s, first, last) == SumFunctionOnSet(s, first..last)
Laid(done, n, offset) ==                     \* n more samples, one after another
    [k \in 1..n |-> LET i == done + k IN
        [offset |-> offset + Total(index.sizes, done + 1, i - 1),
         size |-> index.sizes[i], start |-> timings[i][1], duration |-> timings[i][2]]]
Disjoint(s) == \A i, j \in DOMAIN s : i # j =>
                  \/ s[i].offset + s[i].size <= s[j].offset
                  \/ s[j].offset + s[j].size <= s[i].offset
Chunk ==
    /\ step = "chunks" /\ UNCHANGED index
    /\ IF next > Chunks
       THEN IF Len(placed) # Count \/ ~Disjoint(placed) THEN Stops("refused")
            ELSE Goes("samples") /\ UNCHANGED <<kinds, extents, timings, mapping, run, placed,
                                                read, captions>>
       ELSE LET per == mapping[Advanced][2]
                laid == Laid(Len(placed), per, index.chunks[next])
            IN IF \/ per > Count - Len(placed)
                  \/ \E i \in DOMAIN laid : \/ laid[i].size > SampleBytes
                                            \/ ~Holds(laid[i].offset, laid[i].offset + laid[i].size)
               THEN Stops("refused")
               ELSE /\ placed' = placed \o laid /\ run' = Advanced
                    /\ Stays /\ UNCHANGED <<kinds, extents, timings, mapping, read, captions>>
-----------------------------------------------------------------------------
(* next_sample, and extract                                                  *)

Lesser(a, b) == IF a < b THEN a ELSE b
Greater(a, b) == IF a > b THEN a ELSE b
Begin == index.edit.media * MovieScale
Limit == Begin + index.edit.length * Timescale
Ns(t, scale) == (t * NsPerSecond) \div scale
Converts(n) == Ns(index.edit.delay * Timescale + n - Begin, Timescale * MovieScale)
(* What of the sample the edit shows, and when; nothing, <<>>, outside it.   *)
Presented(s) ==
    IF index.edit = Whole
    THEN <<Ns(s.start, Timescale), Ns(s.start + s.duration, Timescale)>>
    ELSE LET a == s.start * MovieScale
             b == (s.start + s.duration) * MovieScale
         IN IF b <= Begin \/ a >= Limit THEN <<>>
            ELSE <<Converts(Greater(a, Begin)), Converts(Lesser(b, Limit))>>
CaptionAt(from, to) ==
    [start |-> from \div NsPerMs,
     end |-> Greater(to \div NsPerMs, from \div NsPerMs + 1)]
Sample ==
    /\ step = "samples" /\ UNCHANGED index
    /\ IF next > Count THEN Stops(IF captions = <<>> THEN "failed" ELSE "done")
       ELSE \/ Stops("failed")                         \* a short read
            \/ LET s == placed[next]
                   shown == Presented(s)
               IN IF Overdrawn(s.size) \/ index.texts[next] = "invalid"
                  THEN Stops("failed")
                  ELSE /\ read' = read + s.size
                       /\ captions' =
                             IF shown = <<>> \/ index.texts[next] = "clear" THEN captions
                             ELSE IF shown[2] <= shown[1] THEN captions
                             ELSE Append(captions, CaptionAt(shown[1], shown[2]))
                       /\ Stays
                       /\ UNCHANGED <<kinds, extents, timings, mapping, run, placed>>

Mp4Next == NextBox \/ Timing \/ Mapping \/ Chunk \/ Sample
Mp4Spec == Mp4Init /\ [][Mp4Next]_mp4Vars
-----------------------------------------------------------------------------
(* What the tables say, each read on its own.                                *)

PerChunk(c) == LET rows == {i \in DOMAIN index.stsc : index.stsc[i][1] <= c}
               IN index.stsc[CHOOSE i \in rows : \A j \in rows :
                                index.stsc[j][1] <= index.stsc[i][1]][2]
PerChunks == [c \in 1..Chunks |-> PerChunk(c)]
FirstIn(c) == 1 + Total(PerChunks, 1, c - 1)
ChunkOf(i) == CHOOSE c \in 1..Chunks : FirstIn(c) <= i /\ i < FirstIn(c) + PerChunk(c)
OffsetOf(i) == index.chunks[ChunkOf(i)] + Total(index.sizes, FirstIn(ChunkOf(i)), i - 1)
Runs == [r \in DOMAIN index.stts |-> [k \in 1..index.stts[r][1] |-> index.stts[r][2]]]
Lengths == FlattenSeq(Runs)
Declared(i) == [offset |-> OffsetOf(i), size |-> index.sizes[i],
                start |-> Total(Lengths, 1, i - 1), duration |-> Lengths[i]]
Located == step \in {"samples", "done", "failed"}

(* Once the tables are accepted, every sample is where and when they declare *)
(* it, inside one extent of media data, and no byte is of two samples        *)
(* (demux.rs, samples).                                                      *)
SamplesArePlaced == Located =>
    /\ Len(placed) = Count /\ Count = Len(Lengths)
    /\ Count = Total(PerChunks, 1, Chunks)
    /\ \A i \in 1..Count : placed[i] = Declared(i)
    /\ \A i \in 1..Count : \E b \in {index.boxes[k] : k \in DOMAIN index.boxes} :
          /\ b.kind = "mdat" /\ b.start <= placed[i].offset
          /\ placed[i].offset + placed[i].size <= b.end
    /\ \A i, j \in 1..Count : i # j =>
          {placed[i].offset + k : k \in 0..(placed[i].size - 1)}
          \intersect {placed[j].offset + k : k \in 0..(placed[j].size - 1)} = {}

(* Where in the presentation a time of the media is shown, in ticks of which *)
(* Beats are a second: later by the delay, and within the length of the edit.*)
Beats == IF index.edit = Whole THEN Timescale ELSE Timescale * MovieScale
Position(t) ==
    IF index.edit = Whole THEN t
    ELSE LET there == (index.edit.delay * Timescale) + (t - index.edit.media) * MovieScale
         IN Greater(index.edit.delay * Timescale,
                    Lesser(there, (index.edit.delay + index.edit.length) * Timescale))
(* A nanosecond ends while the text is shown.                                *)
Visible == {i \in 1..Count :
               /\ index.texts[i] = "words"
               /\ LET from == Position(placed[i].start) * NsPerSecond
                      to == Position(placed[i].start + placed[i].duration) * NsPerSecond
                  IN \E n \in 1..(to \div Beats) : from < n * Beats}
(* Captions start in order, last, and lie where the edit shows their text:   *)
(* after its delay and within its length, and no text shown lacks one        *)
(* (demux.rs, edited_times; mp4.rs, extract).                                *)
CaptionsAreShown == \A i \in DOMAIN captions : LET c == captions[i] IN
    /\ c.start < c.end
    /\ i > 1 => captions[i - 1].start <= c.start
    /\ index.edit # Whole =>
          /\ c.start >= Ns(index.edit.delay, MovieScale) \div NsPerMs
          /\ c.start * NsPerMs * MovieScale < (index.edit.delay + index.edit.length) * NsPerSecond
    /\ step = "done" => Len(captions) = Cardinality(Visible)

(* Together (demux.rs, mp4.rs).                                              *)
CaptionsArePlaced == SamplesArePlaced /\ CaptionsAreShown
=============================================================================
