---------------------------- MODULE MCSignalPath ----------------------------
(* A broadcaster for SignalPath: two issues of an MPT in two fragments, an   *)
(* SDT that leaves its stream open and one that names it and grows shorter,  *)
(* a schedule whose second issue has fewer sections, a network and a clock.  *)
EXTENDS SignalPath

LOCAL INSTANCE SequencesExt

Base ==
  [ table |-> "", kind |-> "joined", stream |-> 1, syntax |-> TRUE, version |-> 0, number |-> 0,
    last |-> 0, current |-> TRUE, segLast |-> -1, body |-> [issue |-> 0, number |-> 0] ]

Section(t, i, number, last) ==
  [Base EXCEPT !.table = t, !.version = i - 1, !.number = number, !.last = last,
               !.body = [issue |-> i, number |-> number]]

MCSections(t, i) ==
  CASE t = "sdt"  -> IF i = 1 THEN << Section(t, 1, 0, 1), Section(t, 1, 1, 1) >>
                              ELSE << Section(t, i, 0, 0) >>
    [] t = "open" -> << [Section(t, i, 0, 0) EXCEPT !.stream = 0] >>
    [] t = "sched" ->
         IF i = 1 THEN << [Section(t, 1, 0, 4) EXCEPT !.kind = "keyed", !.segLast = 0],
                          [Section(t, 1, 4, 4) EXCEPT !.kind = "keyed", !.segLast = 4] >>
                  ELSE << [Section(t, i, 0, 0) EXCEPT !.kind = "keyed", !.segLast = 0] >>
    [] t = "NIT" -> << Section(t, i, 0, 0) >>
    [] t = "TOT" -> << [Section(t, i, 0, 0) EXCEPT !.kind = "single", !.syntax = FALSE] >>
    [] OTHER -> <<>>

Pieces(of, most) == [n \in 1..most |-> [of |-> of, n |-> n, most |-> most]]

Bytes(pieces, size) == [size |-> size, pieces |-> pieces]

Unit(frag, bytes) == [agg |-> FALSE, frag |-> frag, data |-> <<bytes>>]

Whole(pid, pieces) ==
  [pid |-> pid, units |-> << Unit("whole", Bytes(pieces, Len(pieces))) >>]

Aggregated(pid, messages) ==
  [pid |-> pid, units |-> << [agg |-> TRUE, frag |-> "whole",
      data |-> [k \in 1..Len(messages) |-> Bytes(messages[k], Len(messages[k]))]] >>]

\* the pieces of a message one by one
Fragmented(pid, pieces) ==
  [pid |-> pid, units |-> [k \in 1..Len(pieces) |->
     Unit(IF k = 1 THEN "first" ELSE IF k = Len(pieces) THEN "last" ELSE "middle",
          Bytes(<<pieces[k]>>, IF k = 1 THEN Len(pieces) ELSE 0))]]

MCMessages(t, i) ==
  LET secs == MCSections(t, i) IN
  CASE t = "MPT" -> { Whole("pa", Pieces(i, 1)) }
    [] t = "long MPT" -> { Fragmented("pa", Pieces(i, 3)) }
    [] t = "sdt" /\ i = 1 ->
         { Whole("si", Pieces(secs[1], 1)), Fragmented("si", Pieces(secs[2], 2)),
           Whole("si", Pieces([Section(t, 2, 0, 0) EXCEPT !.current = FALSE], 1)) }
    [] t = "sdt" /\ i = 2 -> { Fragmented("si", Pieces(secs[1], 2)) }
    [] t = "NIT" -> { Whole("tlv", Pieces(secs[1], 1)) }
    [] t = "sched" /\ i = 1 -> { Aggregated("si", << Pieces(secs[1], 1), Pieces(secs[2], 1) >>),
                                Whole("si", Pieces(secs[2], 1)) }
    [] OTHER -> { Whole("si", Pieces(secs[1], 1)) }

Plan(last, lost, late) == [last |-> last, lost |-> lost, late |-> late]

MCPlans ==
  { Plan([t \in {"long MPT"} |-> 2], 3, 0),
    Plan([t \in {"MPT", "sdt"} |-> IF t = "sdt" THEN 2 ELSE 1], 2, 1),
    Plan([t \in {"MPT", "sdt", "open"} |-> IF t = "sdt" THEN 2 ELSE 1], 1, 1),
    Plan([t \in {"MPT", "NIT", "sched"} |-> IF t = "sched" THEN 2 ELSE 1], 1, 1),
    Plan([t \in {"MPT", "sdt", "NIT", "TOT"} |-> IF t = "sdt" THEN 2 ELSE 1], 0, 0) }
=============================================================================
