----------------------------- MODULE MmtpWriter -----------------------------
(***************************************************************************)
(* mmtwrite: MMTP packets out of samples and messages, and the sequence    *)
(* number of each packet id.  A writer is [next, out]: the numbers to come *)
(* of one Sequencer per service, and the packets in the order written.     *)
(***************************************************************************)
EXTENDS Integers, Sequences

LOCAL INSTANCE SequencesExt

CONSTANT MaxFragmentPayload   \* in units

NewWriter == [next |-> <<>>, out |-> <<>>]

\* id names what is written, mfu that it is a sample of a timed asset
Packet(id, pid, ntp, addr) ==
  [ id |-> id, svc |-> 0, pid |-> pid, seq |-> 0, ntp |-> ntp, addr |-> addr, mpu |-> 0,
    frag |-> "complete", data |-> <<>>, rap |-> FALSE, mfu |-> FALSE ]

\* Sequencer.Next before it moves on
NextOf(w, key) == IF key \in DOMAIN w.next THEN w.next[key] ELSE 0

WithNext(w, key, n) ==
  [w EXCEPT !.next = [k \in DOMAIN @ \cup {key} |-> IF k = key THEN n ELSE @[k]]]

\* Sequencer.Skip
Skip(w, key, n) == WithNext(w, key, NextOf(w, key) + n)

\* Sequencer.ObserveRaw: a packet written as it was preserved
WriteRaw(w, key, p) == [WithNext(w, key, p.seq + 1) EXCEPT !.out = Append(@, p)]

\* BuildPacket with the next number of its packet id
WritePacket(w, key, p) ==
  [WithNext(w, key, NextOf(w, key) + 1) EXCEPT !.out = Append(@, [p EXCEPT !.seq = NextOf(w, key)])]

\* WriteControl, WriteUncompressedUDP: nothing of MMTP
WriteBare(w, p) == [w EXCEPT !.out = Append(@, p)]
-----------------------------------------------------------------------------
\* mutant: the last fragment is taken for one of the middle when it is full
IndicatorByRoom(data, at) ==
  CASE Len(data) <= MaxFragmentPayload -> "complete"
    [] Len(data) > MaxFragmentPayload /\ at = 0 -> "first"
    [] Len(data) > MaxFragmentPayload /\ at > 0 /\ at + MaxFragmentPayload > Len(data) -> "last"
    [] OTHER -> "middle"

Indicator(data, at) ==
  CASE Len(data) <= MaxFragmentPayload -> "complete"
    [] Len(data) > MaxFragmentPayload /\ at = 0 -> "first"
    [] Len(data) > MaxFragmentPayload /\ at > 0 /\ at + MaxFragmentPayload >= Len(data) -> "last"
    [] OTHER -> "middle"

\* ForEachTimedMFUFragment: an empty sample is one empty fragment
FragmentsOf(data) ==
  LET From[at \in 0..Len(data)] ==
        LET end == IF at + MaxFragmentPayload < Len(data) THEN at + MaxFragmentPayload ELSE Len(data)
            f   == [indicator |-> Indicator(data, at), data |-> SubSeq(data, at + 1, end)]
        IN  IF end = Len(data) THEN <<f>> ELSE <<f>> \o From[end]
  IN  From[0]

\* a sample in its fragments; the packet of the first may be a point of access
WriteSample(w, key, p, data) ==
  FoldLeft(LAMBDA acc, f : WritePacket(acc, key,
             [p EXCEPT !.frag = f.indicator, !.data = f.data,
                       !.rap = @ /\ f.indicator \in {"complete", "first"}]), w, FragmentsOf(data))

\* BuildNonTimedMFUFragments: an item in pieces without an order of their own
WriteItem(w, key, p, data) ==
  FoldLeft(LAMBDA acc, f : WritePacket(acc, key, [p EXCEPT !.data = f.data]), w, FragmentsOf(data))
-----------------------------------------------------------------------------
(* codecrev: samples out of the bytes of an access unit.  A unit of bytes   *)
(* is [of, n, begins, nal]: the n-th of the PES "of"; begins is 0 inside a  *)
(* NAL unit or frame, and where one begins how many units it says it has    *)
(* (1 and no more is known of a NAL unit); nal is its kind.                 *)

\* AnnexBToNALSamples: from each start code to the next
AnnexB(body) ==
  LET starts == SelectSeq([k \in 1..Len(body) |-> k], LAMBDA k : body[k].begins > 0)
  IN  [k \in 1..Len(starts) |->
         SubSeq(body, starts[k], IF k = Len(starts) THEN Len(body) ELSE starts[k + 1] - 1)]

\* ADTSFrames: the frames that follow each other from the first byte on
AdtsFrames(body) ==
  LET From[p \in 1..(Len(body) + 1)] ==
        IF p > Len(body) THEN <<>>
        ELSE IF body[p].begins = 0 \/ p + body[p].begins - 1 > Len(body) THEN <<>>
        ELSE << SubSeq(body, p, p + body[p].begins - 1) >> \o From[p + body[p].begins]
  IN  From[1]

\* CompleteADTSPrefix
AdtsPrefix(body) == FlattenSeq(AdtsFrames(body))

\* StripLOAS
Loas(body) ==
  IF body = <<>> \/ body[1].begins = 0 \/ body[1].begins > Len(body) THEN <<>>
  ELSE << SubSeq(body, 1, body[1].begins) >>

AVTypes == {"hevc", "adts", "latm"}

\* the samples of an access unit, none when it is no unit of that type
SamplesOf(type, body) ==
  CASE type = "hevc" -> AnnexB(body)
    [] type = "adts" -> IF AdtsPrefix(body) = body THEN AdtsFrames(body) ELSE <<>>
    [] type = "latm" -> Loas(body)
    [] OTHER -> <<>>

\* hevcHasIRAP
HasIRAP(body) == \E k \in 1..Len(body) : body[k].begins > 0 /\ body[k].nal = "irap"
=============================================================================
