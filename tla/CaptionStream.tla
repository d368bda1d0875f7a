---------------------------- MODULE CaptionStream ----------------------------
(***************************************************************************)
(* caption.Stream: the subsamples of a caption MPU are collected by their  *)
(* number until the last one or a unit of another MPU arrives, then the    *)
(* document's cues become statements with a time each, after a management  *)
(* statement if none was sent for an interval.                             *)
(*                                                                         *)
(* A subsample (caption.MFU) is a record: number and last, its number and  *)
(* the highest of its MPU, doc, whether it is the TTML document, at, where *)
(* the sender put it.                                                      *)
(***************************************************************************)
EXTENDS Integers, Sequences, FiniteSets, FiniteSetsExt

CONSTANTS
  ManagementInterval,  \* between two management statements, 90 kHz in the code
  Unset                \* the begin of a cue that has none

NewCaption ==
  [ pending |-> {}, mpu |-> 0, haveSeq |-> FALSE, lastMgmt |-> 0, haveMgmt |-> FALSE ]

Numbers(subs) == {m.number : m \in subs}
TopNumber(subs) == Max({m.last : m \in subs})

\* Stream.finish: the MPU as far as it came
Finished(c) ==
  IF c.pending = {} THEN <<>>
  ELSE << [ mpu     |-> c.mpu,
            doc     |-> {m \in c.pending : m.doc /\ m.number = 0},
            others  |-> {m \in c.pending : ~ (m.doc /\ m.number = 0)},
            missing |-> (0..TopNumber(c.pending)) \ Numbers(c.pending) ] >>

\* mutant: a unit that ends an MPU and is the last of its own ends both at once
PushSubsampleTwice(c, mpu, m) ==
  LET ends == c.haveSeq /\ mpu # c.mpu
      kept == IF ends THEN {} ELSE {x \in c.pending : x.number # m.number}
      with == [c EXCEPT !.pending = kept \cup {m}, !.mpu = mpu, !.haveSeq = TRUE]
  IN  IF m.number = m.last
      THEN [c |-> [with EXCEPT !.pending = {}, !.haveSeq = FALSE], out |-> Finished(with)]
      ELSE [c |-> with, out |-> IF ends THEN Finished(c) ELSE <<>>]

\* Stream.Push: only one MPU can be finished by a unit; when that is the one
\* before, a unit that is the last of its own MPU leaves it pending
PushSubsample(c, mpu, m) ==
  LET ends    == c.haveSeq /\ mpu # c.mpu
      before  == IF ends THEN Finished(c) ELSE <<>>
      kept    == IF ends THEN {} ELSE {x \in c.pending : x.number # m.number}
      with    == [c EXCEPT !.pending = kept \cup {m}, !.mpu = mpu, !.haveSeq = TRUE]
      whole   == m.number = m.last /\ before = <<>>
  IN  IF whole
      THEN [c |-> [with EXCEPT !.pending = {}, !.haveSeq = FALSE], out |-> Finished(with)]
      ELSE [c |-> with, out |-> before]

\* Stream.Flush
FlushCaption(c) == [c |-> [c EXCEPT !.pending = {}], out |-> Finished(c)]
-----------------------------------------------------------------------------
(* Convert.  timing is a record of the origins that are known: mpu, utc,    *)
(* event and reference are sets of at most one time each.                   *)

Origin(tmd, timing) ==
  CASE tmd = "mpu"       -> timing.mpu
    [] tmd = "utc"       -> timing.utc
    [] tmd = "event"     -> timing.event
    [] tmd = "reference" -> timing.reference
    [] OTHER             -> {}

\* cuePTS: a cue without a begin, or whose origin is not known, is shown
\* when its MPU is
CueTimes(tmd, timing, begin) ==
  IF begin = Unset \/ Origin(tmd, timing) = {} THEN timing.mpu
  ELSE {t + begin : t \in Origin(tmd, timing)}

\* documentStart
StartOf(times, timing) ==
  LET known == UNION {times[i] : i \in DOMAIN times}
  IN  IF known = {} THEN timing.mpu ELSE {Min(known)}

\* management: at is a set of at most one time
ManagementDue(c, at) ==
  ~ (c.haveMgmt /\ \E t \in at : t - c.lastMgmt < ManagementInterval)

\* what goes to the muxer for a document with these cues, each its begin;
\* an empty document clears the screen
Convert(c, tmd, sync, cues, timing) ==
  LET begins == IF cues = <<>> THEN <<Unset>> ELSE cues
      times  == [i \in DOMAIN begins |-> CueTimes(tmd, timing, begins[i])]
      start  == StartOf(times, timing)
      due    == ManagementDue(c, start)
      Out(t, mgmt) == [pts |-> IF sync THEN t ELSE {}, at |-> t, mgmt |-> mgmt]
      body   == [i \in DOMAIN begins |-> Out(times[i], FALSE)]
  IN  [ c   |-> IF due THEN [c EXCEPT !.haveMgmt = TRUE,
                                      !.lastMgmt = IF start = {} THEN 0 ELSE Min(start)]
                ELSE c,
        out |-> IF due THEN <<Out(start, TRUE)>> \o body ELSE body ]
=============================================================================
