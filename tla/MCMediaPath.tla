----------------------------- MODULE MCMediaPath -----------------------------
(* Streams for MediaPath: short ones in which units are whole, aggregated    *)
(* and fragmented, MPUs follow one another, and metadata is in between.      *)
EXTENDS MediaPath

P(mpu, frag, pieces) ==
  [ mpu |-> mpu, frag |-> frag, rap |-> FALSE, mfu |-> TRUE, timed |-> TRUE,
    pieces |-> pieces, sub |-> <<>>, item |-> <<>> ]

Aux(p) == [p EXCEPT !.mfu = FALSE]

Base ==
  [ kind |-> "video", packets |-> <<>>, counts |-> <<2, 2, 2>>, span |-> 2, width |-> 2,
    resume |-> FALSE, faults |-> 3, tables |-> {}, most |-> 0, tmd |-> "mpu", sync |-> TRUE, cues |-> <<>>,
    utc |-> {}, event |-> {}, reference |-> {} ]

IrapAU == <<{"aud"}, {"irap", "ps"}>>
PlainAU == <<{"aud"}, {}>>

VideoPackets ==
  << P(1, "whole", PlainAU),
     P(2, "whole", IrapAU), P(2, "whole", <<{"aud"}>>), P(2, "first", <<{}>>),
     P(2, "middle", <<{}>>), P(2, "last", <<{}>>),
     Aux(P(3, "whole", <<{}>>)),
     P(3, "whole", <<{"aud"}>>), P(3, "first", <<{"irap"}>>), P(3, "last", <<{}>>),
     P(3, "whole", PlainAU), P(4, "whole", IrapAU) >>

Video == [Base EXCEPT !.packets = VideoPackets, !.faults = 2, !.counts = <<1, 2, 2, 1>>]

Resumed ==
  [Video EXCEPT !.resume = TRUE, !.packets = SubSeq(@, 1, 8), !.counts = <<1, 2, 1>>]

BrokenVideo ==
  [Base EXCEPT !.packets = << P(1, "whole", PlainAU), P(2, "whole", IrapAU),
                              P(2, "whole", <<{"aud"}, {"bad"}>>), P(2, "whole", PlainAU),
                              P(3, "whole", IrapAU), P(3, "whole", PlainAU) >>,
               !.counts = <<1, 3, 2>>, !.span = 3]

Audio ==
  [Base EXCEPT !.kind = "audio", !.faults = 2,
     !.packets = << P(1, "whole", <<{}, {}>>), P(2, "whole", <<{}>>), P(2, "first", <<{}>>),
                    P(2, "last", <<{}>>), P(3, "first", <<{}>>), P(3, "last", <<{}>>),
                    P(3, "whole", <<{}, {}>>), P(4, "whole", <<{}>>) >>,
     !.counts = <<2, 2, 3, 1>>, !.span = 3]

Sub(mpu, frag, number, last) ==
  [P(mpu, frag, <<{}>>) EXCEPT !.sub = [number |-> number, last |-> last]]

Caption ==
  [Base EXCEPT !.kind = "caption", !.most = 2, !.tmd = "none", !.cues = <<2, Unset>>, !.faults = 2,
     !.packets = << Sub(1, "whole", 0, 1), Sub(1, "whole", 1, 1), Sub(2, "whole", 0, 0),
                    Sub(3, "first", 0, 0), Sub(3, "last", 0, 0), Sub(4, "whole", 0, 0),
                    Sub(5, "whole", 0, 2), Sub(5, "whole", 1, 2), Sub(5, "whole", 2, 2) >>,
     !.counts = <<1, 1>>, !.span = 2]

Superimposed ==
  [Caption EXCEPT !.tmd = "utc", !.sync = FALSE, !.cues = <<>>, !.utc = {1},
     !.packets = SubSeq(@, 1, 5)]

Piece(mpu, id, entries, part) ==
  [P(mpu, "whole", <<{}>>) EXCEPT !.timed = FALSE,
     !.item = [id |-> id, piece |-> [entries |-> entries, part |-> part, of |-> 2]]]

Entry(id, size) == [id |-> id, size |-> size, version |-> 1, name |-> "index"]

DAMT(mpu, index, items) == [id |-> "damt", mpu |-> mpu, index |-> index, items |-> items]

Listed(id, node) == [id |-> id, size |-> 2, version |-> 1, node |-> node]

DDMT(file, name) == [id |-> "ddmt", node |-> "dir", path |-> "path", file |-> file, name |-> name]

Files ==
  [Base EXCEPT !.kind = "application", !.most = 3, !.faults = 1, !.span = 4,
     !.packets = << Piece(1, 1, {}, 1), Piece(1, 2, {}, 1), Piece(1, 1, {}, 2), Piece(1, 2, {}, 2),
                    Piece(2, 1, {}, 1), Piece(2, 1, {}, 2), Piece(2, 2, {}, 1), Piece(2, 2, {}, 2) >>,
     !.tables = {DAMT(1, FALSE, {Listed(1, "a")}), DAMT(1, FALSE, {Listed(2, "b")}),
                 DDMT("a", "one"), DDMT("b", "two")}]

Indexed ==
  LET index == {Entry(1, 2)} IN
  [Base EXCEPT !.kind = "application", !.most = 3, !.faults = 1, !.span = 6,
     !.packets = << Piece(1, 9, index, 1), Piece(1, 1, {}, 1), Piece(1, 9, index, 2), Piece(1, 1, {}, 2),
                    Piece(2, 1, {}, 1), Piece(2, 1, {}, 2), Piece(2, 9, index, 1), Piece(2, 9, index, 2) >>,
     !.tables = {DAMT(1, TRUE, {}), DAMT(2, TRUE, {Listed(1, "a")}), DDMT("a", "one")}]

MCStreams == {Video, Resumed, BrokenVideo, Audio, Caption, Superimposed, Files, Indexed}

ASSUME MCDelimited == Delimited
=============================================================================
