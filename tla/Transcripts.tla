---------------------------- MODULE Transcripts ----------------------------
(***************************************************************************)
(* How a downloaded reference becomes a transcript: records::parser frames  *)
(* the lines into records, records::prepare_decoded decides what is kept    *)
(* and writes a strict derivative, ordering::parse reads the derivative     *)
(* back with the public SRT parser and sorts it when only the chronology is *)
(* wrong, and Prepared::verify compares the outcome with what was kept.     *)
(*                                                                          *)
(* A line is [kind, a, b].  "label": the number a with the fraction b;      *)
(* "digits": digits no label can hold; "time": a timing row from a to b in  *)
(* the canonical spelling; "loose": one only the provider's clock accepts;  *)
(* "clock": a row that looks like a clock and is none; "arrow": words with  *)
(* an arrow; "mark": words with a C1 placeholder; "hole": nothing but       *)
(* placeholders; "text": the words a; "blank".  Byte caps are left out.     *)
(***************************************************************************)
EXTENDS Integers, Sequences, FiniteSets, SequencesExt, FiniteSetsExt

CONSTANT Pieces     \* what a file is put together from: three sets of line sequences

VARIABLES
    lines,          \* the lines of the file
    work,           \* "frame" | "prepare" | "retain" | "order" | "accepted" | "refused"
    cause,          \* why the file was refused, "" while it was not
    at,             \* the first line that was not framed
    previous,       \* the last label that was read: <<whole, fraction>>, <<>> before one
    records,        \* the records the framer has returned
    retained,       \* the cues the provider keeps
    policies,       \* the repairs the provenance of the reference records
    transcript      \* the cues of the accepted reference

Kinds == {"label", "digits", "time", "loose", "clock", "arrow", "mark", "hole", "text", "blank"}
Lines == [kind : Kinds, a : Nat, b : Nat]
ASSUME TranscriptsAssumption == \A n \in 1..3 : Pieces[n] \subseteq Seq(Lines)

transcriptVars == <<lines, work, cause, at, previous, records, retained, policies, transcript>>

Line(kind, a, b) == [kind |-> kind, a |-> a, b |-> b]
\* The numbers of a set in ascending order, and the elements at these places.
Ascending(K) == [n \in 1..Cardinality(K) |->
                    CHOOSE i \in K : Cardinality({j \in K : j < i}) = n - 1]
Those(s, K) == LET places == Ascending(K) IN [n \in DOMAIN places |-> s[places[n]]]

Empty(line) == line.kind = "blank"
Timed(line) == line.kind \in {"time", "loose"}
Numbered(line) == line.kind = "label"
\* Only digits, dots and placeholders: a line that may be a spoilt header.
NumberLike(line) == line.kind \in {"label", "digits", "hole"}
IntegerLabel(label) == label # <<>> /\ label[2] = 0
LabelAt(i) == <<lines[i].a, lines[i].b>>
Precedes(p, q) == p[1] < q[1] \/ (p[1] = q[1] /\ p[2] < q[2])

TimedAt(i) == i <= Len(lines) /\ Timed(lines[i])
Separated(i) == i = 1 \/ Empty(lines[i - 1])
\* A label at the start of a block with its timing row after it.
Anchored(t) == t >= 2 /\ Numbered(lines[t - 1]) /\ Separated(t - 1)

TranscriptsTypeOK ==
    /\ work \in {"frame", "prepare", "retain", "order", "accepted", "refused"}
    /\ at \in 1..(Len(lines) + 1)
    /\ (work = "refused") = (cause # "")
    /\ \A i \in 1..Len(records) :
           LET r == records[i] IN
           /\ 1 <= r.header /\ r.header <= r.timing /\ r.timing < r.stop /\ r.stop <= at
           /\ r.label = <<>> <=> r.header = r.timing

TranscriptsInit ==
    /\ \E a \in Pieces[1], b \in Pieces[2], c \in Pieces[3] : lines = a \o b \o c
    /\ work = "frame" /\ cause = "" /\ at = 1 /\ previous = <<>>
    /\ records = <<>> /\ retained = <<>> /\ policies = {} /\ transcript = <<>>

Refusal(why) ==
    /\ work' = "refused" /\ cause' = why
    /\ UNCHANGED <<lines, at, previous, records, retained, policies, transcript>>

(***************************************************************************)
(* Framing.  The timing rows are found before anything else.               *)
(***************************************************************************)
Malformed(line) == line.kind = "clock" \/ (Timed(line) /\ line.b < line.a)
BadTimings == \E i \in DOMAIN lines : Malformed(lines[i])

MutTurn(i, from) == i >= from /\ (Empty(lines[i]) \/ Timed(lines[i]))
\* Where the body that starts at `from` stops at the latest: at a blank line, at
\* a timing row, or at a number with a timing row under it.
Turn(i, from) ==
    /\ i >= from
    /\ \/ Empty(lines[i])
       \/ Timed(lines[i])
       \/ NumberLike(lines[i]) /\ TimedAt(i + 1)
BodyStop(from) == Min({i \in DOMAIN lines : Turn(i, from)} \cup {Len(lines) + 1})

\* The label line of the next record, when a blank line at `stop` can only be
\* inside the caption of this one: both are whole labels, one after the other.
Right(stop, header, label) ==
    LET later == {t \in DOMAIN lines : t >= stop /\ Timed(lines[t])}
        t == Min(later)
    IN  IF /\ later # {} /\ Anchored(t)
           /\ Separated(header) /\ IntegerLabel(label) /\ IntegerLabel(LabelAt(t - 1))
           /\ label[1] + 1 = lines[t - 1].a
        THEN t - 1 ELSE 0
Paragraph(stop, right) == {i \in stop..(right - 1) : ~Empty(lines[i])}

FileRefused == work = "frame" /\ BadTimings /\ Refusal("InvalidTimestamp")

SkipBlank ==
    /\ work = "frame" /\ ~BadTimings
    /\ at <= Len(lines) /\ Empty(lines[at])
    /\ at' = at + 1
    /\ UNCHANGED <<lines, work, cause, previous, records, retained, policies, transcript>>

\* The first label is 1; every later one is larger.
InOrder(label) ==
    IF previous = <<>> THEN label = <<1, 0>> ELSE Precedes(previous, label)

FrameRecord ==
    /\ work = "frame" /\ ~BadTimings
    /\ at <= Len(lines) /\ ~Empty(lines[at])
    /\ LET plain == Timed(lines[at])
           label == IF plain THEN <<>> ELSE LabelAt(at)
           timing == IF plain THEN at ELSE at + 1
           from == timing + 1
           stop == BodyStop(from)
           right == IF stop > from /\ stop <= Len(lines) /\ Empty(lines[stop])
                    THEN Right(stop, at, label) ELSE 0
           more == IF right = 0 THEN {} ELSE Paragraph(stop, right)
           end == IF more = {} THEN stop ELSE Max(more) + 1
       IN  IF ~plain /\ (~Numbered(lines[at]) \/ ~InOrder(label))
           THEN Refusal("InvalidIndex")
           ELSE IF ~TimedAt(timing) THEN Refusal("InvalidTimestamp")
           ELSE IF \/ stop <= Len(lines) /\ lines[stop].kind \in {"digits", "hole"}
                   \/ \E i \in more : NumberLike(lines[i]) \/ lines[i].kind = "arrow"
           THEN Refusal("Ambiguous")
           ELSE /\ records' = Append(records,
                      [header |-> at, timing |-> timing, stop |-> end, label |-> label,
                       separated |-> Separated(at), text |-> SubSeq(lines, from, end - 1)])
                /\ at' = end
                /\ previous' = IF plain THEN previous ELSE label
                /\ UNCHANGED <<lines, work, cause, retained, policies, transcript>>

Framed ==
    /\ work = "frame" /\ ~BadTimings /\ at > Len(lines)
    /\ work' = "prepare"
    /\ UNCHANGED <<lines, cause, at, previous, records, retained, policies, transcript>>

(***************************************************************************)
(* Preparation: placeholders, paragraphs and the names of the repairs.     *)
(***************************************************************************)
Normalised(line) == IF line.kind = "mark" THEN [line EXCEPT !.kind = "text"] ELSE line
Words(record) == Those(record.text, {i \in DOMAIN record.text : ~Empty(record.text[i])})
From(record) == lines[record.timing].a
To(record) == lines[record.timing].b
Marked(record) == \E i \in DOMAIN record.text : record.text[i].kind = "mark"
Paragraphed(record) == Len(Words(record)) < Len(record.text)

Conventional ==
    \A i \in DOMAIN records :
        /\ IntegerLabel(records[i].label) /\ records[i].separated
        /\ lines[records[i].timing].kind = "time"

\* boundaries::legacy: unnumbered records inside a gap of whole, consecutive labels.
IndexedBefore(i) == Cardinality({k \in 1..(i - 1) : records[k].label # <<>>})
LegacyBoundaries ==
    /\ \E i \in DOMAIN records : records[i].label = <<>>
    /\ \A i \in DOMAIN records :
         LET r == records[i] IN
         /\ lines[r.timing].kind = "time" /\ To(r) > From(r)
         /\ \A k \in DOMAIN r.text : r.text[k].kind # "arrow"
         /\ \/ r.label = <<IndexedBefore(i) + 1, 0>> /\ r.separated
            \/ /\ r.label = <<>> /\ ~r.separated /\ 1 < i /\ i < Len(records)
               /\ records[i - 1].label = <<IndexedBefore(i), 0>>
               /\ records[i + 1].label = <<IndexedBefore(i) + 1, 0>>
               /\ records[i + 1].separated
               /\ records[i - 1].text # <<>>
               /\ LET last == Last(records[i - 1].text) IN
                  ~(last.kind = "digits" \/ (Numbered(last) /\ last.b = 0))

\* Which of the repairs of the framing the provenance names.
FramingRepairs ==
    (IF Conventional THEN {} ELSE IF LegacyBoundaries THEN {"boundaries"} ELSE {"framing"})
    \cup (IF Conventional /\ \E i \in DOMAIN records : records[i].label[1] # i
          THEN {"numbering"} ELSE {})

Repairs ==
    FramingRepairs
    \cup {p \in {"placeholders"} : \E i \in DOMAIN records : Marked(records[i])}
    \cup {p \in {"paragraphs"} : \E i \in DOMAIN records : Paragraphed(records[i])}
    \cup {p \in {"missing text"} : \E i \in DOMAIN records : records[i].text = <<>>}

Cleaned(record) ==
    LET words == Words(record)
    IN  [record EXCEPT !.text = [k \in DOMAIN words |-> Normalised(words[k])]]
Kept(record) == To(record) > From(record)

PrepareRecords ==
    /\ work = "prepare"
    /\ IF \E i \in DOMAIN records :
              \E k \in DOMAIN records[i].text : records[i].text[k].kind = "hole"
       THEN Refusal("InvalidText")
       ELSE /\ policies' = Repairs
            /\ records' = Those([i \in DOMAIN records |-> Cleaned(records[i])],
                                {i \in DOMAIN records : Words(records[i]) # <<>>})
            /\ work' = "retain"
            /\ UNCHANGED <<lines, cause, at, previous, retained, transcript>>

\* Records without a duration are left out, and their number is recorded.
Retain ==
    /\ work = "retain"
    /\ LET kept == Those(records, {i \in DOMAIN records : Kept(records[i])}) IN
       IF kept = <<>> THEN Refusal("NothingRemains")
       ELSE /\ retained' = [i \in DOMAIN kept |->
                  [start |-> From(kept[i]), end |-> To(kept[i]), text |-> kept[i].text]]
            /\ policies' = policies \cup
                  {p \in {"zero duration"} : Len(kept) < Len(records)}
            /\ work' = "order"
            /\ UNCHANGED <<lines, cause, at, previous, records, transcript>>

(***************************************************************************)
(* The derivative, and the strict parser that reads it.  A block is a run   *)
(* of lines between blank ones.                                             *)
(***************************************************************************)
Written(cues) ==
    FlattenSeq([i \in DOMAIN cues |->
        <<Line("label", i, 0), Line("time", cues[i].start, cues[i].end)>>
        \o cues[i].text \o <<Line("blank", 0, 0)>>])

Blocks(text) ==
    LET starts == {i \in DOMAIN text : ~Empty(text[i]) /\ (i = 1 \/ Empty(text[i - 1]))}
        stop(i) == Min({k \in i..Len(text) : Empty(text[k])} \cup {Len(text) + 1})
        firsts == Ascending(starts)
    IN  [n \in DOMAIN firsts |-> SubSeq(text, firsts[n], stop(firsts[n]) - 1)]

\* What the strict parser reports of the block it reads as cue number n, after a
\* cue that started at `before`.
Fault(block, n, before) ==
    IF block[1] # Line("label", n, 0) THEN "InvalidIndex"
    ELSE IF Len(block) = 1 \/ block[2].kind # "time" THEN "InvalidTimestamp"
    ELSE IF block[2].b <= block[2].a \/ before > block[2].a THEN "InvalidTiming"
    ELSE IF \E k \in 3..Len(block) : block[k].kind = "time" THEN "MissingSeparator"
    ELSE IF Len(block) = 2 THEN "MissingText" ELSE ""

\* The error of the first block that has one.
StrictFault(blocks) ==
    LET fault(i) == Fault(blocks[i], i, IF i = 1 THEN 0 ELSE blocks[i - 1][2].a)
        reached == {i \in DOMAIN blocks : \A k \in 1..(i - 1) : fault(k) = ""}
    IN  IF blocks = <<>> THEN "Empty" ELSE fault(Max(reached))

Cue(block) ==
    [start |-> block[2].a, end |-> block[2].b, text |-> SubSeq(block, 3, Len(block))]
CuesOf(blocks) == [i \in DOMAIN blocks |-> Cue(blocks[i])]

\* The stable order by the start of the cues.
Sorted(cues) ==
    [n \in DOMAIN cues |->
        cues[CHOOSE i \in DOMAIN cues :
                Cardinality({j \in DOMAIN cues :
                    \/ cues[j].start < cues[i].start
                    \/ cues[j].start = cues[i].start /\ j < i}) = n - 1]]

\* ordering::parse and Prepared::verify.  Only a wrong chronology is repaired.
Order ==
    /\ work = "order"
    /\ LET blocks == Blocks(Written(retained))
           strict == StrictFault(blocks)
           alone == [i \in DOMAIN blocks |-> Fault(blocks[i], i, 0)]
           sorted == Sorted(CuesOf(blocks))
           again == Blocks(Written(sorted))
           expected == Sorted(retained)
           read == IF strict = "" THEN CuesOf(blocks) ELSE CuesOf(again)
       IN  IF strict \notin {"", "InvalidTiming"} THEN Refusal("Derivative")
           ELSE IF strict # "" /\ \E i \in DOMAIN alone : alone[i] # ""
           THEN Refusal("Derivative")
           ELSE IF strict # "" /\ (StrictFault(again) # "" \/ CuesOf(again) # sorted)
           THEN Refusal("RoundTrip")
           ELSE IF read # expected THEN Refusal("RoundTrip")
           ELSE /\ transcript' = read
                /\ policies' = policies \cup {p \in {"ordering"} : strict # ""}
                /\ work' = "accepted"
                /\ UNCHANGED <<lines, cause, at, previous, records, retained>>

TranscriptRead == work \in {"accepted", "refused"} /\ UNCHANGED transcriptVars

TranscriptsNext ==
    \/ FileRefused \/ SkipBlank \/ FrameRecord \/ Framed
    \/ PrepareRecords \/ Retain \/ Order \/ TranscriptRead
TranscriptsSpec == TranscriptsInit /\ [][TranscriptsNext]_transcriptVars
-----------------------------------------------------------------------------
Span(record) == record.header..(record.stop - 1)

\* "Every nonblank line belongs to a header or caption" (parser.rs:2): once the
\* file is framed, each line with content is in exactly one record, every timing
\* row is the timing of the record it is in, and a label right above a timing row
\* is that record's header, never dialogue of the one before it.
EveryLineFramed ==
    work = "prepare" =>
        /\ \A i \in DOMAIN lines :
               ~Empty(lines[i]) =>
                   Cardinality({k \in DOMAIN records : i \in Span(records[k])}) = 1
        /\ {records[k].timing : k \in DOMAIN records} = {i \in DOMAIN lines : Timed(lines[i])}
        /\ \A i \in DOMAIN lines :
               Numbered(lines[i]) /\ TimedAt(i + 1) =>
                   \E k \in DOMAIN records : records[k].header = i /\ records[k].timing = i + 1

\* A file whose framing was accepted is never lost to the writer's own checks: the
\* derivative reads back as the cues that were kept, in the stable order of their
\* starts.
DerivativeReadsBack ==
    /\ cause \notin {"Derivative", "RoundTrip"}
    /\ work = "accepted" =>
           /\ Len(transcript) = Len(retained)
           /\ \A i, j \in DOMAIN transcript : i < j => transcript[i].start <= transcript[j].start
           /\ \A v \in {retained[i].start : i \in DOMAIN retained} :
                  Those(transcript, {i \in DOMAIN transcript : transcript[i].start = v})
                  = Those(retained, {i \in DOMAIN retained : retained[i].start = v})

\* No silent repair: a reference accepted without a single policy in its
\* provenance is what the public, strict parser reads from the same file.
NoSilentRepair ==
    work = "accepted" /\ policies = {} =>
        /\ StrictFault(Blocks(lines)) = ""
        /\ CuesOf(Blocks(lines)) = transcript

\* A transcript is whole: framed line by line, read back as it was kept, and every
\* repair in its provenance.
TranscriptIsWhole == EveryLineFramed /\ DerivativeReadsBack /\ NoSilentRepair
=============================================================================
