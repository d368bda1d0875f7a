----------------------------- MODULE RecorderOps -----------------------------
(***************************************************************************)
(* The preservation recorder (internal/preservation/recorder.go, emit.go)  *)
(* as values and operators.  A recorder is a record; its operations are    *)
(* operators from a recorder to the next one.  NTP time and the muxer's    *)
(* clock are counted in ticks, sizes in units of a module's capacity.      *)
(*                                                                         *)
(* A module id is a triple <<kind, slot, part>>: what matters of the       *)
(* numbering of carousel.go is which sequences share an id.                *)
(***************************************************************************)
EXTENDS CarouselOps, SequencesExt

CONSTANTS
  LongDuration,     \* a segment's duration (500 ms)
  ShortDuration,    \* a segment's duration once a scrambled packet was seen (250 ms)
  PlayoutLimit,     \* how long a segment is repeated (3 s)
  Ring,             \* timed segments share ids modulo this (16)
  RetainedSegments, \* an AV map entry is kept while this many segments close (16)
  MaxSegmentParts,  \* modules per segment (4)
  LossRing,         \* loss reports share ids modulo this (16)
  Capacity,         \* what one module holds
  MaxObjectModules, \* modules for objects (254)
  ForwardJump,      \* an NTP further ahead than this starts an epoch (10 s)
  BackwardJump,     \* an NTP further behind than this starts an epoch (2 s)
  SegmentInterval,  \* how often the AV map is renewed (0.5 s)
  ObjectInterval,   \* how often objects and loss reports are repeated (5 s)
  CommitInterval,   \* how often objects are committed (5 s)
  NoSegment,        \* "no segment is complete" (2^64 - 1)
  LongAgo           \* before every reading of the muxer's clock (-2^62)

ASSUME RecorderAssumption ==
  /\ {LongDuration, ShortDuration, Ring, MaxSegmentParts, LossRing, Capacity} \subseteq Nat \ {0}
  /\ {PlayoutLimit, RetainedSegments, ForwardJump, BackwardJump, MaxObjectModules} \subseteq Nat
  /\ {SegmentInterval, ObjectInterval, CommitInterval} \subseteq Nat
  /\ NoSegment \in Int /\ LongAgo \in Int
  /\ ShortDuration <= LongDuration
  \* long ago, neither the AV map's interval nor the commit interval had begun
  /\ LongAgo + SegmentInterval <= 0 /\ LongAgo + CommitInterval <= 0
-----------------------------------------------------------------------------
BootstrapID == <<"bootstrap", 0, 0>>
AVMapID     == <<"avmap", 0, 0>>
CodecID     == <<"codec", 0, 0>>
ManifestID  == <<"manifest", 0, 0>>

TimedModuleID(seq, part) == <<"timed", seq % Ring, part>>
LossModuleID(seq)        == <<"loss", seq % LossRing, 0>>
ObjectModuleID(n)        == <<"object", n, 0>>

\* the bootstrap, the ring of segments, the ring of loss reports, AV map and codec
MaxRealtimeModules == 1 + Ring * MaxSegmentParts + LossRing + 2

MaxModules == MaxObjectModules + 2

PriorityContent   == 0
PriorityManifest  == 1
PriorityBootstrap == 2

Cyclic(id, stored, interval, priority) ==
  [ id |-> id, stored |-> stored, interval |-> interval, retries |-> 0,
    retryInterval |-> interval, once |-> FALSE, priority |-> priority ]

NewRecorder ==
  [ duration |-> LongDuration, epochID |-> 0, haveEpoch |-> FALSE, epochBase |-> 0,
    latestNTP |-> 0, nextSeq |-> 0,
    open |-> Nothing,              \* sequence -> the records of the segment
    pending |-> <<>>,              \* the updates and removals of the closed segments
    err |-> "none",                \* installErr, and the errors that end the conversion
    latestComplete |-> 0, haveComplete |-> FALSE,
    avmap |-> {}, avmapDirty |-> FALSE, lastAVMap |-> LongAgo, closedSegments |-> 0,
    codec |-> Nothing, codecDirty |-> FALSE,
    losses |-> <<>>, lossSeq |-> 0,
    objects |-> Nothing,           \* id -> its stored bytes, a sequence of units
    objectBytes |-> 0,             \* how many these are
    objectsDirty |-> FALSE, updateNumber |-> 0, lastCommit |-> LongAgo,
    realtime |-> NewCarousel(MaxRealtimeModules), object |-> NewCarousel(MaxModules),
    rtBootstrap |-> Nothing, objBootstrap |-> Nothing,
    haveBootstraps |-> FALSE, bootstrapLatest |-> NoSegment ]
-----------------------------------------------------------------------------
(* Closing segments.                                                       *)

SequenceOf(r, ntp) ==
  IF ntp <= r.epochBase THEN 0 ELSE (ntp - r.epochBase) \div r.duration

\* how many segments back a segment is still repeated
RepeatWindow(r) ==
  LET n == (PlayoutLimit + r.duration - 1) \div r.duration + 1
  IN  Min({Max({n, 3}), Ring})

SizeOf(records) == FoldLeft(LAMBDA n, x : n + x.size, 0, records)

\* records go into a part until one does not fit; nothing after the last part is kept
SplitStep(acc, x) ==
  LET n    == Len(acc.parts)
      fits == n > 0 /\ SizeOf(acc.parts[n]) + x.size <= Capacity
  IN  IF acc.err \/ acc.dropped # <<>> THEN [acc EXCEPT !.dropped = Append(@, x)]
      ELSE IF fits THEN [acc EXCEPT !.parts[n] = Append(@, x)]
      ELSE IF n = MaxSegmentParts THEN [acc EXCEPT !.dropped = <<x>>]
      ELSE [acc EXCEPT !.parts = Append(@, <<x>>), !.err = x.size > Capacity]

SplitSegment(records) ==
  FoldLeft(SplitStep, [parts |-> <<>>, dropped |-> <<>>, err |-> FALSE], records)

\* more than half of the segment is bulk data: it is sent once
Once(records) == 2 * SizeOf(SelectSeq(records, LAMBDA x : x.bulk)) > SizeOf(records)

AddLoss(r, missing) ==
  [r EXCEPT !.losses = Append(@, [epoch |-> r.epochID, missing |-> missing])]

\* mutant: an entry may go before it was installed
TrimAVMapEarly(r) ==
  LET oldest == r.closedSegments - RetainedSegments
      kept   == {slot \in r.avmap : slot.addedAt >= oldest}
  IN  IF r.closedSegments < RetainedSegments THEN r
      ELSE [r EXCEPT !.avmap = kept, !.avmapDirty = @ \/ kept # r.avmap]

TrimAVMap(r) ==
  LET oldest == r.closedSegments - RetainedSegments
      kept   == {slot \in r.avmap : ~slot.installed \/ slot.addedAt >= oldest}
  IN  IF r.closedSegments < RetainedSegments THEN r
      ELSE [r EXCEPT !.avmap = kept, !.avmapDirty = @ \/ kept # r.avmap]

Install(u)  == [remove |-> FALSE, update |-> u]
Removal(id) == [remove |-> TRUE, id |-> id]

SegmentUpdate(r, seq, parts, part, once) ==
  Install([ id |-> TimedModuleID(seq, part),
            stored |-> [ epoch |-> r.epochID, seq |-> seq, part |-> part,
                         count |-> Len(parts), duration |-> r.duration,
                         records |-> parts[part + 1] ],
            interval |-> PlayoutLimit, retries |-> 1, retryInterval |-> SegmentInterval,
            once |-> once, priority |-> PriorityContent ])

\* mutant: the parts an earlier segment left in the slot are not removed
SegmentUpdatesLeaving(r, seq) ==
  LET records == r.open[seq]
      parts   == SplitSegment(records).parts
      window  == RepeatWindow(r)
  IN  [i \in 1 .. Len(parts) |-> SegmentUpdate(r, seq, parts, i - 1, Once(records))]
      \o IF seq < window THEN <<>>
         ELSE [i \in 1 .. MaxSegmentParts |-> Removal(TimedModuleID(seq - window, i - 1))]

SegmentUpdates(r, seq) ==
  LET records == r.open[seq]
      parts   == SplitSegment(records).parts
      window  == RepeatWindow(r)
  IN  [i \in 1 .. Len(parts) |-> SegmentUpdate(r, seq, parts, i - 1, Once(records))]
      \o [i \in 1 .. MaxSegmentParts - Len(parts) |->
            Removal(TimedModuleID(seq, Len(parts) + i - 1))]
      \o IF seq < window THEN <<>>
         ELSE [i \in 1 .. MaxSegmentParts |-> Removal(TimedModuleID(seq - window, i - 1))]

\* mutant: what does not fit is not reported
CloseSegmentQuietly(r, seq) ==
  LET split  == SplitSegment(r.open[seq])
      closed == [r EXCEPT !.open = Drop(@, seq)]
  IN  IF split.err THEN [closed EXCEPT !.err = IF @ = "none" THEN "record" ELSE @]
      ELSE TrimAVMap([closed EXCEPT
             !.pending        = @ \o SegmentUpdates(r, seq),
             !.latestComplete = seq,
             !.haveComplete   = TRUE,
             !.nextSeq        = seq + 1,
             !.closedSegments = @ + 1])

CloseSegment(r, seq) ==
  LET split  == SplitSegment(r.open[seq])
      closed == [r EXCEPT !.open = Drop(@, seq)]
      noted  == IF split.dropped = <<>> THEN closed
                ELSE AddLoss(closed, {x.id : x \in Range(split.dropped)})
  IN  IF split.err THEN [closed EXCEPT !.err = IF @ = "none" THEN "record" ELSE @]
      ELSE TrimAVMap([noted EXCEPT
             !.pending        = @ \o SegmentUpdates(r, seq),
             !.latestComplete = seq,
             !.haveComplete   = TRUE,
             !.nextSeq        = seq + 1,
             !.closedSegments = @ + 1])

\* in the order of their sequence numbers
CloseSegments(r, seqs) ==
  MapThenFoldSet(LAMBDA seq, acc : CloseSegment(acc, seq), r, LAMBDA seq : seq, Max, seqs)

CloseElapsed(r) ==
  CloseSegments(r, {seq \in DOMAIN r.open : seq < SequenceOf(r, r.latestNTP)})

FlushOpen(r) == CloseSegments(r, DOMAIN r.open)
-----------------------------------------------------------------------------
(* What the converter tells the recorder.                                  *)

StartEpoch(r, ntp) ==
  [r EXCEPT !.epochBase = ntp, !.haveEpoch = TRUE, !.latestNTP = ntp]

NewEpoch(r, ntp) ==
  LET flushed == FlushOpen(r) IN
  [StartEpoch(flushed, ntp) EXCEPT
     !.epochID      = @ + 1,
     !.nextSeq      = 0,
     !.haveComplete = FALSE,
     !.open         = Nothing,
     !.avmapDirty   = @ \/ flushed.avmap # {}]

Jumps(r, ntp) == ntp > r.latestNTP + ForwardJump \/ ntp + BackwardJump < r.latestNTP

Observe(r, ntp) ==
  IF ~r.haveEpoch THEN StartEpoch(r, ntp)
  ELSE IF Jumps(r, ntp) THEN NewEpoch(r, ntp)
  ELSE CloseElapsed([r EXCEPT !.latestNTP = Max({@, ntp})])

\* a record of a closed segment joins the oldest open one
SegmentFor(r, ntp) ==
  LET seq == SequenceOf(r, ntp) IN
  IF seq \notin DOMAIN r.open /\ seq < r.nextSeq /\ DOMAIN r.open # {}
  THEN Min(DOMAIN r.open) ELSE seq

AddRecord(r, ntp, x) ==
  LET ready == IF r.haveEpoch THEN r ELSE StartEpoch(r, ntp)
      seq   == SegmentFor(ready, ntp)
  IN  [ready EXCEPT !.open = Put(@, seq, IF seq \in DOMAIN @ THEN Append(@[seq], x) ELSE <<x>>)]

UseShortSegments(r) ==
  IF r.nextSeq # 0 \/ r.duration <= ShortDuration THEN r
  ELSE [r EXCEPT !.duration = ShortDuration, !.open = Nothing]

AddAVMapEntry(r, e) ==
  [r EXCEPT !.avmap = @ \cup {[entry |-> e, addedAt |-> r.closedSegments, installed |-> FALSE]},
            !.avmapDirty = TRUE]

SetCodecConfig(r, id, data) ==
  IF id \in DOMAIN r.codec /\ r.codec[id] = data THEN r
  ELSE [r EXCEPT !.codec = Put(@, id, data), !.codecDirty = TRUE]

\* without the object that is replaced
BytesBeside(r, id) ==
  IF id \in DOMAIN r.objects THEN r.objectBytes - Len(r.objects[id]) ELSE r.objectBytes

\* a full object carousel is an error; the object that was to be replaced stays,
\* and is no longer counted
AddObject(r, id, stored) ==
  IF id \in DOMAIN r.objects /\ r.objects[id] = stored THEN r
  ELSE IF BytesBeside(r, id) + Len(stored) > MaxObjectModules * Capacity
       THEN [AddLoss(r, {}) EXCEPT !.objectBytes = BytesBeside(r, id), !.err = "object"]
       ELSE [r EXCEPT !.objects = Put(@, id, stored), !.objectsDirty = TRUE,
                      !.objectBytes = BytesBeside(r, id) + Len(stored)]

\* the error for an item is one more loss to the caller
AddItem(r, id, stored) ==
  LET q == AddObject(r, id, stored)
  IN  IF q.err = "object" THEN [AddLoss(q, {}) EXCEPT !.err = r.err] ELSE q
-----------------------------------------------------------------------------
(* Emit: what waits goes into the carousels, then the carousels go on the  *)
(* air.                                                                    *)

SetErr(c, u) == IF Full(c, u) THEN "full" ELSE "fresh"

SetRealtime(r, u, t) ==
  IF r.err # "none" THEN r
  ELSE IF SetFails(r.realtime, u, t) THEN [r EXCEPT !.err = SetErr(r.realtime, u)]
  ELSE [r EXCEPT !.realtime = AfterSet(@, u, t)]

SetObject(r, u, t) ==
  IF r.err # "none" THEN r
  ELSE IF SetFails(r.object, u, t) THEN [r EXCEPT !.err = SetErr(r.object, u)]
  ELSE [r EXCEPT !.object = AfterSet(@, u, t)]

InstallUpdate(r, p, t) ==
  IF p.remove THEN [r EXCEPT !.realtime = AfterRemove(@, p.id, t)]
  ELSE SetRealtime(r, p.update, t)

InstallPending(r, t) ==
  [FoldLeft(LAMBDA acc, p : InstallUpdate(acc, p, t), r, r.pending) EXCEPT !.pending = <<>>]

InstallLosses(r, t) ==
  IF r.losses = <<>> THEN r
  ELSE [SetRealtime(r, Cyclic(LossModuleID(r.lossSeq),
                              [epoch |-> r.epochID, seq |-> r.lossSeq, entries |-> r.losses],
                              ObjectInterval, PriorityContent), t)
        EXCEPT !.lossSeq = @ + 1, !.losses = <<>>]

InstallCodecConfig(r, t) ==
  IF ~r.codecDirty THEN r
  ELSE [SetRealtime(r, Cyclic(CodecID, [epoch |-> r.epochID, codec |-> r.codec],
                              DIIInterval, PriorityContent), t)
        EXCEPT !.codecDirty = FALSE]

InstallAVMap(r, t) ==
  IF ~(r.avmapDirty /\ t - r.lastAVMap >= SegmentInterval) THEN r
  ELSE [SetRealtime(r, Cyclic(AVMapID,
                              [epoch |-> r.epochID, latest |-> r.latestComplete,
                               entries |-> {slot.entry : slot \in r.avmap}],
                              SegmentInterval, PriorityContent), t)
        EXCEPT !.avmap = {[slot EXCEPT !.installed = TRUE] : slot \in @},
               !.avmapDirty = FALSE, !.lastAVMap = t]

\* the stored bytes of all objects, in the order of their ids, cut at the capacity
PackedBytes(objects) ==
  MapThenFoldSet(LAMBDA id, bytes : bytes \o objects[id], <<>>, LAMBDA id : id, Max, DOMAIN objects)

PackedModules(objects) ==
  LET bytes == PackedBytes(objects) IN
  [n \in 1 .. (Len(bytes) + Capacity - 1) \div Capacity |->
     SubSeq(bytes, (n - 1) * Capacity + 1, Min({n * Capacity, Len(bytes)}))]

\* where an object's bytes start in the packed bytes
OffsetOf(objects, id) == Len(PackedBytes(Restrict(objects, {i \in DOMAIN objects : i < id})))

ObjectModules(c) == {id \in DOMAIN c.modules : id[1] = "object"}

\* the modules an earlier, larger commit left behind
Surplus(c, n) == {id \in ObjectModules(c) : id[2] > n}

RemoveAll(c, ids, t) == FoldSet(LAMBDA id, acc : AfterRemove(acc, id, t), c, ids)

ObjectUpdate(modules, n) == Cyclic(ObjectModuleID(n), modules[n], ObjectInterval, PriorityContent)

SetAll(r, modules, t) ==
  FoldLeftDomain(LAMBDA acc, n : SetObject(acc, ObjectUpdate(modules, n), t), r, modules)

CommitObjects(r, t) ==
  LET modules == PackedModules(r.objects)
      removed == [r EXCEPT !.object = RemoveAll(@, Surplus(@, Len(modules)), t)]
      set     == SetAll(removed, modules, t)
      manifest ==
        [ update   |-> r.updateNumber + 1,
          at       |-> [id \in DOMAIN r.objects |->
                          [offset |-> OffsetOf(r.objects, id), size |-> Len(r.objects[id]),
                           hashed |-> r.objects[id]]],  \* stands for the hash
          versions |-> [n \in DOMAIN modules |->
                          set.object.modules[ObjectModuleID(n)].version] ]
      committed == SetObject(set, Cyclic(ManifestID, manifest, ObjectInterval, PriorityManifest), t)
  IN  IF ~(r.objectsDirty /\ t - r.lastCommit >= CommitInterval) THEN r
      ELSE IF Len(modules) > MaxObjectModules THEN [AddLoss(r, {}) EXCEPT !.err = "object"]
      ELSE IF set.err # "none" THEN set
      ELSE [committed EXCEPT !.updateNumber = @ + 1, !.objectsDirty = FALSE, !.lastCommit = t]

Entries(c) ==
  [id \in DOMAIN c.modules \ {BootstrapID} |->
     [version |-> c.modules[id].version, stored |-> c.modules[id].stored]]

Latest(r) == IF r.haveComplete THEN r.latestComplete ELSE NoSegment

RealtimeBootstrap(r) ==
  [ epoch |-> r.epochID, update |-> r.updateNumber, duration |-> r.duration,
    latest |-> Latest(r), entries |-> Entries(r.realtime) ]

ObjectBootstrap(r) ==
  [update |-> r.updateNumber, duration |-> r.duration, entries |-> Entries(r.object)]

RefreshRealtime(r, t) ==
  LET b == RealtimeBootstrap(r) IN
  IF b = r.rtBootstrap THEN r
  ELSE SetRealtime([r EXCEPT !.rtBootstrap = b], Cyclic(BootstrapID, b, DIIInterval, PriorityBootstrap), t)

RefreshObject(r, t) ==
  LET b == ObjectBootstrap(r) IN
  IF DOMAIN b.entries = {} \/ b = r.objBootstrap THEN r
  ELSE SetObject([r EXCEPT !.objBootstrap = b], Cyclic(BootstrapID, b, DIIInterval, PriorityBootstrap), t)

\* mutant: only the latest segment is compared
RefreshBootstrapsOnProgress(r, t) ==
  IF r.haveBootstraps /\ Latest(r) = r.bootstrapLatest THEN r
  ELSE [RefreshObject(RefreshRealtime(r, t), t) EXCEPT
          !.haveBootstraps   = TRUE,
          !.realtime.touched = FALSE,
          !.object.touched   = FALSE,
          !.bootstrapLatest  = Latest(r)]

RefreshBootstraps(r, t) ==
  IF /\ r.haveBootstraps /\ ~r.realtime.touched /\ ~r.object.touched
     /\ Latest(r) = r.bootstrapLatest
  THEN r
  ELSE [RefreshObject(RefreshRealtime(r, t), t) EXCEPT
          !.haveBootstraps   = TRUE,
          !.realtime.touched = FALSE,
          !.object.touched   = FALSE,
          !.bootstrapLatest  = Latest(r)]

InstallAll(r, t) ==
  IF r.err # "none" THEN r
  ELSE RefreshBootstraps(CommitObjects(InstallAVMap(InstallCodecConfig(InstallLosses(
         InstallPending(r, t), t), t), t), t), t)

\* Finish flushes, and neither the commit interval nor the AV map's holds anything back
Flushed(r) ==
  LET f == FlushOpen(r) IN
  [f EXCEPT !.objectsDirty = @ \/ f.objects # Nothing,
            !.lastCommit   = IF f.objects # Nothing THEN LongAgo ELSE @,
            !.lastAVMap    = LongAgo]
=============================================================================
