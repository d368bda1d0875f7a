------------------------------- MODULE Replay -------------------------------
(***************************************************************************)
(* tsremux.carouselReplay: the records that a preservation carousel gives  *)
(* back are queued by their time and written when they are as old as the   *)
(* window; the access units that the AV map names, and the objects that an *)
(* activation names, are looked up when its turn comes.                    *)
(*                                                                         *)
(* A record is [id, ntp, kind, ...] with, by kind,                         *)
(*   "signalling"  sig ("pa", "ntp" or "tlv"), pid, addr                   *)
(*   "generic"     pid, addr, raw (a whole MMTP packet, with its seq) and  *)
(*                 aapp (a data broadcast)                                 *)
(*   "anchor"      pid (of the output), addr                               *)
(*   "item"        object, pid, mpu, addr                                  *)
(*   "caption"     object, pid, batch, number, addr                        *)
(* addr stands for addresses and ports, NoAddr for none: each of the four  *)
(* is filled in on its own and in the same way.  An entry of the AV map is *)
(* [id, ntp, output, pid, mpu, first, count].                              *)
(***************************************************************************)
EXTENDS MmtpWriter, FiniteSets

LOCAL INSTANCE SequencesExt
LOCAL INSTANCE FiniteSetsExt
LOCAL INSTANCE TLC

CONSTANTS
  Window, ObjectGrace,   \* in units of the NTP
  Beyond,                \* a time behind all others
  NoAddr

\* what belongs to the replay: its records, and the packets still to write
NewReplay ==
  [ events |-> <<>>, order |-> 0, frontier |-> 0, flushedTo |-> 0, deferred |-> <<>>,
    late |-> 0, flows |-> <<>>, def |-> NoAddr, rawPIDs |-> {}, batches |-> <<>>,
    problems |-> {}, units |-> 0, w |-> NewWriter ]

Key(pid) == <<0, pid>>

Or(addr, def) == IF addr = NoAddr THEN def ELSE addr
-----------------------------------------------------------------------------
\* mutant: what is as old as the watermark itself is not late
PushEventLater(r, e) ==
  LET isLate == r.flushedTo > 0 /\ e.ntp + 1 < r.flushedTo
  IN  [r EXCEPT !.late = IF isLate THEN @ + 1 ELSE @, !.events = Append(@, e)]

\* carouselReplay.push
PushEvent(r, e) ==
  LET isLate == r.flushedTo > 0 /\ e.ntp <= r.flushedTo
  IN  [r EXCEPT !.late = IF isLate THEN @ + 1 ELSE @, !.events = Append(@, e)]

\* push with the next order
Queue(r, ntp, priority, rec) ==
  PushEvent([r EXCEPT !.order = @ + 1],
            [ntp |-> ntp, priority |-> priority, order |-> <<0, r.order + 1>>, rec |-> rec])

\* noteEndpoint: the first address of a message is the default
NoteEndpoint(r, rec) ==
  IF r.def = NoAddr /\ rec.sig = "pa" THEN [r EXCEPT !.def = rec.addr] ELSE r

\* anchor: behind those of the same time
Anchor(r, rec) ==
  LET flows  == IF rec.pid \in DOMAIN r.flows THEN r.flows[rec.pid] ELSE <<>>
      before == Cardinality({k \in 1..Len(flows) : \A j \in k..Len(flows) : flows[j].ntp > rec.ntp})
      i      == Len(flows) - before
      put    == SubSeq(flows, 1, i) \o << [ntp |-> rec.ntp, addr |-> rec.addr] >>
                  \o SubSeq(flows, i + 1, Len(flows))
  IN  [r EXCEPT !.flows = [p \in DOMAIN @ \cup {rec.pid} |-> IF p = rec.pid THEN put ELSE @[p]]]

\* activation of a caption: resources of one batch share one event
CaptionActivated(r, rec) ==
  IF rec.batch \in DOMAIN r.batches
  THEN [r EXCEPT !.batches[rec.batch] = Append(@, rec)]
  ELSE Queue([r EXCEPT !.batches = @ @@ [b \in {rec.batch} |-> <<rec>>]], rec.ntp, 2, rec)

\* carouselReplay.segment, for one record
TakeRecord(r, rec) ==
  LET seen == [r EXCEPT !.frontier = IF rec.ntp > @ THEN rec.ntp ELSE @] IN
  CASE rec.kind = "signalling" -> Queue(NoteEndpoint(seen, rec), rec.ntp, 0, rec)
    [] rec.kind = "generic" ->
         Queue([seen EXCEPT !.rawPIDs = IF rec.aapp THEN @ \cup {rec.pid} ELSE @], rec.ntp, 1, rec)
    [] rec.kind = "anchor"  -> Anchor(seen, rec)
    [] rec.kind = "caption" -> CaptionActivated(seen, rec)
    [] rec.kind = "item"    -> Queue(seen, rec.ntp, 2, rec)

\* avEntry
TakeEntry(r, e) ==
  PushEvent(r, [ntp |-> e.ntp, priority |-> 3, order |-> <<e.output, e.mpu>>,
                rec |-> e @@ [kind |-> "av"]])
-----------------------------------------------------------------------------
(* What an event writes.  c is [aus, streamType, resolved]: the access       *)
(* units by output PID as [base, pes], the types of the PMT and the bytes of  *)
(* the objects of the last commit.  The result is [done, r, aus]; done is     *)
(* FALSE when an object is missing that may still come.                      *)

Done(r, aus)   == [done |-> TRUE, r |-> r, aus |-> aus]
Trouble(r, id) == [r EXCEPT !.problems = @ \cup {id}]

\* replaySignallingRecordAt
WriteSignalling(r, rec) ==
  LET p == Packet(rec.id, rec.pid, rec.ntp, Or(rec.addr, r.def)) IN
  [r EXCEPT !.w = IF rec.sig = "pa" THEN WritePacket(@, Key(rec.pid), p) ELSE WriteBare(@, p)]

\* replayGenericRecordAt
WriteGeneric(r, rec) ==
  LET p == Packet(rec.id, rec.pid, rec.ntp, Or(rec.addr, r.def)) IN
  [r EXCEPT !.w = IF rec.raw THEN WriteRaw(@, Key(rec.pid), [p EXCEPT !.seq = rec.seq])
                             ELSE WritePacket(@, Key(rec.pid), p)]

\* the items of a data broadcast that is replayed packet by packet are left out
WriteObject(r, c, rec, final) ==
  CASE rec.pid \in r.rawPIDs -> Done(r, c.aus)
    [] rec.pid \notin r.rawPIDs /\ rec.object \in DOMAIN c.resolved ->
         Done([r EXCEPT !.w = WriteItem(@, Key(rec.pid),
                 [Packet(rec.id, rec.pid, rec.ntp, Or(rec.addr, r.def)) EXCEPT !.mpu = rec.mpu],
                 c.resolved[rec.object])], c.aus)
    [] OTHER -> [Done(IF final THEN Trouble(r, rec.id) ELSE r, c.aus) EXCEPT !.done = final]

\* writeCaptions: all resources of the batch, or none yet
WriteCaptions(r, c, rec, final) ==
  LET batch == r.batches[rec.batch]
      have  == SelectSeq(batch, LAMBDA a : a.object \in DOMAIN c.resolved)
      sorted == SortSeq(have, LAMBDA a, b : a.number < b.number)
      Write(acc, a) ==
        WriteSample(acc, Key(a.pid),
          [Packet(a.id, a.pid, a.ntp, Or(rec.addr, r.def)) EXCEPT !.mfu = TRUE, !.rap = a = sorted[1]],
          c.resolved[a.object])
  IN  IF Len(have) < Len(batch) /\ ~ final THEN [Done(r, c.aus) EXCEPT !.done = FALSE]
      ELSE Done([r EXCEPT !.w = FoldLeft(Write, @, sorted),
                          !.batches = [b \in DOMAIN @ \ {rec.batch} |-> @[b]],
                          !.problems = @ \cup {a.id : a \in ToSet(batch) \ ToSet(have)}], c.aus)

\* flowAt: the addresses in force at a time
FlowAt(flows, ntp) ==
  LET past == SelectSeq(flows, LAMBDA f : f.ntp <= ntp)
  IN  IF past = <<>> THEN NoAddr ELSE Last(past).addr

\* mutant: the numbering of the units starts anew with what is left
DropBeforeUncounted(q, ordinal) ==
  IF ordinal <= q.base THEN q
  ELSE [q EXCEPT !.pes = SubSeq(@, ordinal - q.base + 1, Len(@))]

\* auQueue.dropBefore
DropBefore(q, ordinal) ==
  LET n == IF ordinal - q.base < Len(q.pes) THEN ordinal - q.base ELSE Len(q.pes)
  IN  IF ordinal <= q.base THEN q ELSE [base |-> q.base + n, pes |-> SubSeq(q.pes, n + 1, Len(q.pes))]

\* replayAV: the samples of the units up to the first that is no unit of its
\* stream; only the first sample of all begins at a point of access
ReplayAV(w, key, p, type, units) ==
  LET Samples(k) == SamplesOf(type, units[k].body)
      bad  == {k \in 1..Len(units) : Samples(k) = <<>>}
      n    == IF bad = {} THEN Len(units) ELSE Min(bad) - 1
      all  == FlattenSeq([k \in 1..n |-> Samples(k)])
      Put(acc, k) == WriteSample(acc, key, [p EXCEPT !.rap = @ /\ k = 1], all[k])
  IN  [w |-> FoldLeft(Put, w, [k \in 1..Len(all) |-> k]), whole |-> bad = {}]

AVWritten(r, id, units, wrote) ==
  IF wrote.whole THEN [r EXCEPT !.w = wrote.w, !.units = @ + units]
  ELSE Trouble([r EXCEPT !.w = wrote.w], id)

\* the units e.first .. e.first + e.count - 1 of the stream, as far as they are
\* there; only a beginning that is missing is told
WriteAV(r, c, e) ==
  LET known == e.output \in DOMAIN c.aus
      q     == IF known THEN c.aus[e.output] ELSE [base |-> 0, pes |-> <<>>]
      have  == q.base + Len(q.pes)
      start == IF e.first < q.base THEN q.base ELSE e.first
      end   == IF e.first + e.count < have THEN e.first + e.count ELSE have
      flow  == IF e.output \in DOMAIN r.flows THEN FlowAt(r.flows[e.output], e.ntp) ELSE NoAddr
      told  == IF e.first < q.base THEN Trouble(r, e.id) ELSE r
      units == SubSeq(q.pes, start - q.base + 1, end - q.base)
      p     == [Packet(e.id, e.pid, e.ntp, Or(flow, r.def)) EXCEPT !.mpu = e.mpu, !.mfu = TRUE,
                  !.rap = TRUE]
  IN  CASE e.first > have            -> Done(Trouble(r, e.id), c.aus)
        [] e.first = 0 /\ ~ known    -> Done(r, c.aus)
        [] known /\ e.first <= have /\ c.streamType[e.output] = "none" ->
             Done(Trouble(told, e.id), c.aus)
        [] OTHER -> Done(AVWritten(told, e.id, Len(units),
                                   ReplayAV(r.w, Key(e.pid), p, c.streamType[e.output], units)),
                         [c.aus EXCEPT ![e.output] = DropBefore(q, end)])

Write(r, c, rec, final) ==
  CASE rec.kind = "signalling" -> Done(WriteSignalling(r, rec), c.aus)
    [] rec.kind = "generic"    -> Done(WriteGeneric(r, rec), c.aus)
    [] rec.kind = "item"       -> WriteObject(r, c, rec, final)
    [] rec.kind = "caption"    -> WriteCaptions(r, c, rec, final)
    [] rec.kind = "av"         -> WriteAV(r, c, rec)
-----------------------------------------------------------------------------
\* eventHeap.Less
Earlier(a, b) ==
  \/ a.ntp < b.ntp
  \/ a.ntp = b.ntp /\ a.priority < b.priority
  \/ a.ntp = b.ntp /\ a.priority = b.priority /\ a.order[1] < b.order[1]
  \/ a.ntp = b.ntp /\ a.priority = b.priority /\ a.order[1] = b.order[1] /\ a.order[2] < b.order[2]

\* one that cannot be written yet waits
After(acc, e, x) ==
  [ r |-> IF x.done THEN x.r ELSE [x.r EXCEPT !.deferred = Append(@, e)],
    c |-> [acc.c EXCEPT !.aus = x.aus] ]

\* an event of the queue
Emit(acc, e, final) == After(acc, e, Write(acc.r, acc.c, e.rec, final))

\* an event that waits, given up when the grace is over
Retry(acc, e, watermark, final) ==
  After(acc, e, Write(acc.r, acc.c, e.rec, final \/ e.ntp + ObjectGrace < watermark))

\* mutant: all that is older than the watermark goes, also what is in force
TrimFlowsAll(flows, watermark) ==
  [pid \in DOMAIN flows |-> SelectSeq(flows[pid], LAMBDA f : f.ntp > watermark)]

\* trimFlows: the last before the watermark is still in force
TrimFlows(flows, watermark) ==
  [pid \in DOMAIN flows |->
     LET past == Len(SelectSeq(flows[pid], LAMBDA f : f.ntp <= watermark))
     IN  IF past <= 1 THEN flows[pid] ELSE SubSeq(flows[pid], past, Len(flows[pid]))]

\* the events that are due, in their order
EmitDue(r, c, watermark, final) ==
  LET due  == SortSeq(SelectSeq(r.events, LAMBDA e : e.ntp <= watermark), Earlier)
      left == SelectSeq(r.events, LAMBDA e : e.ntp > watermark)
  IN  FoldLeft(LAMBDA acc, e : Emit(acc, e, final), [r |-> [r EXCEPT !.events = left], c |-> c], due)

RetryAll(sent, watermark, final) ==
  FoldLeft(LAMBDA acc, e : Retry(acc, e, watermark, final),
           [sent EXCEPT !.r.deferred = <<>>], sent.r.deferred)

FlushedTo(tried, watermark, final) ==
  IF final THEN tried
  ELSE [tried EXCEPT !.r.flushedTo = watermark, !.r.flows = TrimFlows(@, watermark)]

\* carouselReplay.flush: [r, c] afterwards
Flush(r, c, final) ==
  LET watermark == IF final THEN Beyond ELSE r.frontier - Window
  IN  IF ~ final /\ r.frontier < Window THEN [r |-> r, c |-> c]
      ELSE FlushedTo(RetryAll(EmitDue(r, c, watermark, final), watermark, final), watermark, final)
=============================================================================
