------------------------------- MODULE MCMedia -------------------------------
(* Small files for the readers of media.  A Matroska file is a head and its  *)
(* top elements: every order of a few of them, and one cluster with every    *)
(* few children, or whose group has every few parts.  An MP4 file varies in  *)
(* its layout, in its timing or in its boxes, one at a time.                 *)
EXTENDS Reading, Pgs, Matroska, Mp4

UpTo(S, n) == UNION {[1..m -> S] : m \in 0..n}

(* The eligible tracks of a file, and the packets a track is judged at.      *)
TextAndPictures == {<<>>, <<"text">>, <<"pgs">>, <<"pgs", "text">>, <<"text", "pgs">>}
FirstAndThird == <<1, 3>>

Plain(k) == [kind |-> k, valid |-> TRUE]
Spoilt(element) == [element EXCEPT !.valid = FALSE]
Block(t, d, l) == [kind |-> "block", valid |-> TRUE, track |-> t, delta |-> d, laced |-> l]
Ticks(k, n) == [kind |-> k, valid |-> TRUE, ticks |-> n]
Group(p) == [kind |-> "group", valid |-> TRUE, parts |-> p]
Parts == {Block(1, 0, FALSE), Block(2, 0, TRUE), Ticks("duration", 3), Plain("reference"),
          Plain("odd")}
Children == {Ticks("timestamp", 1), Ticks("timestamp", 2), Block(1, 0, FALSE),
             Block(1, -2, FALSE), Block(1, 1, TRUE), Block(2, 0, TRUE), Plain("void"),
             Spoilt(Plain("void")), Group(<<Block(1, 1, FALSE), Ticks("duration", 2)>>)}
Cluster(c) == [kind |-> "cluster", valid |-> TRUE, fields |-> 0, children |-> c]
TopElement(k, n) == [kind |-> k, valid |-> TRUE, fields |-> n]
OneBlock == Cluster(<<Ticks("timestamp", 0), Block(1, 0, FALSE)>>)
Tops == {TopElement("tracks", 2), TopElement("info", 1), TopElement("cues", 0),
         TopElement("opaque", 0), TopElement("odd", 0), OneBlock, Spoilt(TopElement("info", 1))}
Mkv(t) == [head |-> 2, whole |-> TRUE, tops |-> t]
NoTracks == Mkv(<<>>)
SmallMkvFiles ==
    {Mkv(<<TopElement("tracks", 2), Cluster(c), OneBlock>>) : c \in UpTo(Children, 3)}
    \union {Mkv(<<TopElement("tracks", 2),
                  Cluster(<<Ticks("timestamp", 1), Group(p), Block(1, 0, FALSE)>>)>>) :
               p \in UpTo(Parts, 3)}
    \union {Mkv(t) : t \in UpTo(Tops, 4)}
    \union {[Mkv(<<OneBlock>>) EXCEPT !.whole = FALSE]}

Box(k, a, b) == [kind |-> k, start |-> a, end |-> b]
Boxes == <<Box("ftyp", 0, 1), Box("moov", 1, 2), Box("mdat", 2, 5), Box("free", 5, 6),
           Box("mdat", 6, 8)>>
Spoken(n) == [i \in 1..n |-> "words"]
Mp4With(b, z, t, m, c, d, e, x) ==
    [boxes : b, sizes : z, stts : t, stsc : m, chunks : c, duration : d, edit : e, texts : x,
     supported : {TRUE}]
Layouts(n) ==
    Mp4With({Boxes}, [1..n -> 0..2], {<<<<n, 2>>>>}, UpTo({1, 2, 3} \X {1, 2}, 2),
            UpTo({2, 3, 6}, 2) \union {<<2, 6, 7>>, <<6, 2, 4>>}, {2 * n}, {Whole}, {Spoken(n)})
Edits == {Whole} \union [delay : {0, 1}, media : {0, 1, 3}, length : {1, 3, 9}]
Paces ==
    Mp4With({Boxes}, {<<1, 1, 2>>}, UpTo({0, 1, 2} \X {0, 2, 3}, 2), {<<<<1, 2>>, <<2, 1>>>>},
            {<<2, 6>>}, {4, 6, 7}, Edits, {Spoken(3), <<"clear", "words", "invalid">>})
Heads ==
    Mp4With(UpTo({Boxes[1], Boxes[2], Boxes[3], Box("moof", 8, 9)}, 3), {<<1>>}, {<<<<1, 2>>>>},
            {<<<<1, 1>>>>}, {<<2>>}, {2}, {Whole}, {Spoken(1)})
FourSamples ==
    Mp4With({Boxes}, [1..4 -> 0..1], {<<<<4, 2>>>>},
            {<<<<1, 1>>, <<2, 2>>, <<3, 1>>>>, <<<<1, 2>>, <<2, 1>>>>},
            {<<2, 3, 6>>, <<2, 6, 7>>, <<6, 3, 2>>}, {8}, {Whole}, {Spoken(4)})
SmallMp4Files == <<Layouts(0), Layouts(1), Layouts(2), Layouts(3), FourSamples, Paces, Heads>>
NoBoxes == CHOOSE f \in Heads : f.boxes = <<>>
=============================================================================
