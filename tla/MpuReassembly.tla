---------------------------- MODULE MpuReassembly ----------------------------
(***************************************************************************)
(* mpu.Reassembler for the packets of one asset, and what mmtp.ParseMPU    *)
(* tells it: data units come whole, several in a packet, or in fragments,  *)
(* and the sequence number of the packets is all that shows a loss.        *)
(*                                                                         *)
(* A parsed packet is a record                                             *)
(*   seq        its sequence number, of SeqRange values                      *)
(*   scrambled  the header extension says that the payload is enciphered   *)
(*   malformed  ParseMPU returns an error                                  *)
(*   mfu        it carries data units, not MPU or movie fragment metadata  *)
(*   timed      its units are timed media, not items of a data broadcast   *)
(*   frag       "whole" (also of an aggregate), "first", "middle", "last"  *)
(*   mpu, rap   the MPU it belongs to, the random access flag              *)
(*   pieces     its units, or the one piece of a unit that it carries      *)
(***************************************************************************)
EXTENDS Integers, Sequences

CONSTANTS
  SeqRange,       \* the sequence numbers, 2^32 in the code
  MaxFragment   \* the most pieces a fragmented unit is buffered for

ASSUME SeqRangeAssumption == SeqRange \in Nat /\ SeqRange > 1
ASSUME MaxFragmentAssumption == MaxFragment \in Nat

NewAsset ==
  [ haveSeq |-> FALSE, expectSeq |-> 0, active |-> FALSE, orphan |-> FALSE,
    mpu |-> 0, rap |-> FALSE, buf |-> <<>> ]

LossUnit(n) ==
  [loss |-> TRUE, lost |-> n, mpu |-> 0, rap |-> FALSE, timed |-> FALSE, data |-> <<>>]

DataUnit(mpu, rap, timed, data) ==
  [loss |-> FALSE, lost |-> 0, mpu |-> mpu, rap |-> rap, timed |-> timed, data |-> data]

\* unsigned arithmetic of the width of a sequence number
SeqAfter(seq) == IF seq + 1 = SeqRange THEN 0 ELSE seq + 1
SeqDiff(a, b) == IF a >= b THEN a - b ELSE a - b + SeqRange
-----------------------------------------------------------------------------
\* what a packet leads to: the asset's state and the units handed over
Gives(st, out) == [st |-> st, out |-> out]

\* track: a duplicate, or a packet later than its successors
IsLate(st, p) == st.haveSeq /\ 2 * SeqDiff(p.seq, st.expectSeq) >= SeqRange

Skipped(st, p) == IF st.haveSeq THEN SeqDiff(p.seq, st.expectSeq) ELSE 0

\* mutant: a gap does not end the unit whose fragments are being joined
TrackedJoining(st, p) ==
  LET n == Skipped(st, p) IN
  Gives([st EXCEPT !.haveSeq = TRUE, !.expectSeq = SeqAfter(p.seq)],
        IF n = 0 THEN <<>> ELSE <<LossUnit(n)>>)

Tracked(st, p) ==
  LET n == Skipped(st, p) IN
  Gives([st EXCEPT !.haveSeq = TRUE, !.expectSeq = SeqAfter(p.seq),
                   !.active = @ /\ n = 0],
        IF n = 0 THEN <<>> ELSE <<LossUnit(n)>>)

\* a loss that no sequence number tells of joins the one just reported
WithLoss(r) ==
  Gives([r.st EXCEPT !.active = FALSE],
        IF r.out # <<>> THEN r.out ELSE <<LossUnit(0)>>)

\* dropFragment before a unit that starts: what was open is incomplete
Restarted(r) ==
  Gives([r.st EXCEPT !.active = FALSE, !.orphan = FALSE],
        IF r.st.active THEN Append(r.out, LossUnit(0)) ELSE r.out)

Overflowed(r) ==
  WithLoss(Gives([r.st EXCEPT !.orphan = TRUE, !.buf = <<>>], r.out))

Fits(buf) == Len(buf) < MaxFragment

TakeWhole(r, p) ==
  Gives(r.st, r.out \o [k \in 1..Len(p.pieces) |->
                          DataUnit(p.mpu, p.rap, p.timed, <<p.pieces[k]>>)])

TakeFirst(r, p) ==
  IF Fits(<<>>)
  THEN Gives([r.st EXCEPT !.active = TRUE, !.mpu = p.mpu, !.rap = p.rap,
                          !.buf = <<p.pieces[1]>>], r.out)
  ELSE Overflowed(r)

\* a run of fragments without a first one is one loss, not one per packet
TakeOrphan(r, p) ==
  LET told == IF r.st.orphan THEN r ELSE WithLoss(r)
  IN  [told EXCEPT !.st.orphan = p.frag = "middle"]

TakeNext(r, p) ==
  LET buf == Append(r.st.buf, p.pieces[1]) IN
  CASE ~ r.st.active -> TakeOrphan(r, p)
    [] r.st.active /\ ~ Fits(r.st.buf) ->
         [Overflowed(r) EXCEPT !.st.orphan = p.frag = "middle"]
    [] r.st.active /\ Fits(r.st.buf) /\ p.frag = "middle" ->
         Gives([r.st EXCEPT !.buf = buf], r.out)
    [] OTHER ->
         Gives([r.st EXCEPT !.active = FALSE, !.buf = buf],
               Append(r.out, DataUnit(r.st.mpu, r.st.rap, TRUE, buf)))

\* Reassembler.Push
PushPacket(st, p) ==
  LET r == Tracked(st, p) IN
  CASE IsLate(st, p)               -> Gives(st, <<>>)
    [] ~ IsLate(st, p) /\ (p.scrambled \/ p.malformed) -> WithLoss(r)
    [] ~ IsLate(st, p) /\ ~ p.scrambled /\ ~ p.malformed ->
         CASE ~ p.mfu              -> r
           [] p.mfu /\ ~ p.timed   -> TakeWhole(r, p)
           [] p.mfu /\ p.timed /\ p.frag = "whole" -> TakeWhole(Restarted(r), p)
           [] p.mfu /\ p.timed /\ p.frag = "first" -> TakeFirst(Restarted(r), p)
           [] OTHER                -> TakeNext(r, p)
=============================================================================
