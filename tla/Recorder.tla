------------------------------- MODULE Recorder -------------------------------
(***************************************************************************)
(* The preservation recorder between its callers: the converter hands it   *)
(* NTP readings, records, AV map entries, codec configurations and         *)
(* objects (remux/preserve.go), the muxer has it emit at its own clock     *)
(* (remux/mux.go).  Neither waits for the other: how many segments close   *)
(* between two emissions depends on the input.                             *)
(***************************************************************************)
EXTENDS RecorderOps

CONSTANTS
  FirstNTP,     \* the first NTP time of the input
  Steps,        \* how far an NTP reading is from the latest one
  Skews,        \* how far a record's time is from the latest NTP
  RecordInputs, \* its records, <<size, bulk>>
  Scrambles,    \* whether scrambled packets are seen
  CodecInputs,  \* the codec configurations, <<id, data>>
  ObjectInputs, \* the objects, <<id, stored bytes>>
  MaxRecords,   \* bound: records of the input
  MaxEntries,   \* bound: AV map entries of the input
  MaxChanges,   \* bound: codec configurations and objects of the input
  MaxBatch,     \* how often segments close between two emissions
  MaxNow        \* bound: the muxer's clock

ASSUME InputAssumption ==
  /\ FirstNTP \in Nat \ {0}
  /\ Steps \subseteq Int /\ Skews \subseteq Int
  /\ RecordInputs \subseteq Nat \X BOOLEAN
  /\ {MaxRecords, MaxEntries, MaxBatch, MaxNow} \subseteq Nat
  /\ \A o \in ObjectInputs : o[1] \in Nat /\ o[2] \in Seq(Range(o[2]))

VARIABLES
  rec,       \* the Recorder
  now,       \* the muxer's clock at the last emission
  state,     \* "running", "finished", or "failed": an error was returned
  records, entries, changes,  \* how much of the input was taken
  batch,     \* how often segments closed since the last emission
  heard      \* what the realtime carousel has had on the air

vars == <<rec, now, state, records, entries, changes, batch, heard>>

Init ==
  /\ rec = NewRecorder
  /\ now = 0
  /\ state = "running"
  /\ records = 0 /\ entries = 0 /\ changes = 0
  /\ batch = 0
  /\ heard = [records |-> {}, losses |-> {}, entries |-> {}, segments |-> {}]
-----------------------------------------------------------------------------
NewRecord(size, bulk) == [id |-> records + 1, size |-> size, bulk |-> bulk]

\* an NTP time of the input; zero, "no time", is not one
Around(d) == IF rec.haveEpoch THEN Max({1, rec.latestNTP + d}) ELSE FirstNTP

Running == state = "running"

Closes(r) == IF r.closedSegments > rec.closedSegments THEN 1 ELSE 0

\* preserver.observeNTP: the reading, then the NTP packet as a record
ObserveNTP(ntp) ==
  LET r == Observe(rec, ntp) IN
  /\ Running /\ records < MaxRecords
  /\ batch' = batch + Closes(r)
  /\ batch' <= MaxBatch
  /\ rec' = AddRecord(r, ntp, NewRecord(1, FALSE))
  /\ records' = records + 1
  /\ UNCHANGED <<now, state, entries, changes, heard>>

\* signalling, timeline anchors, unconverted assets
TakeRecord(ntp, size, bulk) ==
  /\ Running /\ records < MaxRecords
  /\ rec' = AddRecord(rec, ntp, NewRecord(size, bulk))
  /\ records' = records + 1
  /\ UNCHANGED <<now, state, entries, changes, batch, heard>>

Scrambled ==
  /\ Running /\ Scrambles
  /\ rec' = UseShortSegments(rec)
  /\ UNCHANGED <<now, state, records, entries, changes, batch, heard>>

\* preserver.closeRun
CloseRun ==
  /\ Running /\ entries < MaxEntries
  /\ rec' = AddAVMapEntry(rec, entries + 1)
  /\ entries' = entries + 1
  /\ UNCHANGED <<now, state, records, changes, batch, heard>>

NoteConfig(id, data) ==
  /\ Running /\ changes < MaxChanges
  /\ rec' = SetCodecConfig(rec, id, data)
  /\ changes' = changes + 1
  /\ UNCHANGED <<now, state, records, entries, batch, heard>>

\* preserver.addCaptionResources: a full object carousel ends the conversion
TakeCaption(id, stored) ==
  /\ Running /\ changes < MaxChanges
  /\ rec' = AddObject(rec, id, stored)
  /\ state' = IF rec'.err = "object" THEN "failed" ELSE state
  /\ changes' = changes + 1
  /\ UNCHANGED <<now, records, entries, batch, heard>>

\* converter.handleApplication: it does not
TakeItem(id, stored) ==
  /\ Running /\ changes < MaxChanges
  /\ rec' = AddItem(rec, id, stored)
  /\ changes' = changes + 1
  /\ UNCHANGED <<now, state, records, entries, batch, heard>>
-----------------------------------------------------------------------------
OfKind(c, ids, kind) == {c.modules[id].stored : id \in {i \in ids : i[1] = kind}}

\* what a receiver of the realtime carousel has after one more emission
Hears(c, t) ==
  LET due     == Due(c, t)
      timed   == OfKind(c, due, "timed")
      reports == OfKind(c, due, "loss")
  IN  [ records  |-> heard.records \cup
                        {x.id : x \in UNION {Range(m.records) : m \in timed}},
        losses   |-> heard.losses \cup
                        UNION {e.missing : e \in UNION {Range(m.entries) : m \in reports}},
        entries  |-> heard.entries \cup UNION {m.entries : m \in OfKind(c, due, "avmap")},
        segments |-> heard.segments \cup {<<m.epoch, m.seq>> : m \in timed} ]

\* r is the recorder with everything installed: an error ends the conversion
Air(r, t, done) ==
  IF r.err # "none"
  THEN /\ rec' = [rec EXCEPT !.err = r.err]
       /\ state' = "failed"
       /\ UNCHANGED heard
  ELSE /\ rec' = [r EXCEPT !.realtime = AfterEmit(@, t), !.object = AfterEmit(@, t)]
       /\ heard' = Hears(Rebuilt(r.realtime, t), t)
       /\ state' = done

Emit(t) ==
  /\ Running
  /\ Air(InstallAll(rec, t), t, "running")
  /\ now' = t
  /\ batch' = 0
  /\ UNCHANGED <<records, entries, changes>>

\* Recorder.Finish and the writeCarousel after it, at the time of the last PCR
Finish(t) ==
  /\ Running
  /\ t <= now /\ batch + Closes(Flushed(rec)) <= MaxBatch
  /\ Air(InstallAll(InstallAll(Flushed(rec), t), t), t, "finished")
  /\ UNCHANGED <<now, records, entries, changes, batch>>

Next ==
  \/ \E step \in Steps : ObserveNTP(Around(step))
  \/ \E skew \in Skews, x \in RecordInputs : TakeRecord(Around(skew), x[1], x[2])
  \/ Scrambled
  \/ CloseRun
  \/ \E c \in CodecInputs : NoteConfig(c[1], c[2])
  \/ \E o \in ObjectInputs : TakeCaption(o[1], o[2])
  \/ \E o \in ObjectInputs : TakeItem(o[1], o[2])
  \/ \E t \in now .. MaxNow : Emit(t)
  \/ \E t \in 0 .. now : Finish(t)

Spec == Init /\ [][Next]_vars
-----------------------------------------------------------------------------
IDs(xs) == {x.id : x \in Range(xs)}

PendingID(p) == IF p.remove THEN p.id ELSE p.update.id

\* the pending updates that no later one undoes or overwrites
Lasting ==
  {i \in DOMAIN rec.pending :
     /\ ~rec.pending[i].remove
     /\ \A j \in DOMAIN rec.pending :
          j > i => PendingID(rec.pending[j]) # PendingID(rec.pending[i])}

Buffered == UNION {IDs(rec.open[seq]) : seq \in DOMAIN rec.open}

Waiting == UNION {IDs(rec.pending[i].update.stored.records) : i \in Lasting}

Reported == heard.losses \cup UNION {e.missing : e \in Range(rec.losses)}

Carried(seq) == \E id \in DOMAIN rec.realtime.modules :
                  /\ id[1] = "timed"
                  /\ rec.realtime.modules[id].stored.epoch = rec.epochID
                  /\ rec.realtime.modules[id].stored.seq = seq

Mapped == {slot.entry : slot \in rec.avmap}

(* An input the ring can hold: between the NTP readings of an epoch pass   *)
(* at most advance segments, no record is more than ahead segments early,  *)
(* together they are within the window that is repeated, this is smaller   *)
(* than the ring, and the muxer emits before segments close again.         *)
Punctual ==
  \E advance, ahead \in 0 .. Ring :
    /\ \A d \in Steps : d <= ForwardJump => d <= advance * LongDuration
    /\ \A d \in Skews : d <= ahead * LongDuration
    /\ 0 < advance /\ advance + ahead <= RepeatWindow(NewRecorder)
    /\ RepeatWindow(NewRecorder) < Ring
    /\ MaxBatch <= 1

(* "So as not to drop silently what could not be preserved": a record is   *)
(* in an open segment, in an update that will go on the air, has been on   *)
(* the air, or a loss report names its segment; after Finish it is one of  *)
(* the last two.  UseShortSegments is left out: it drops the segments open *)
(* at the first scrambled packet.                                          *)
NothingLostSilently ==
  rec.err = "none" /\ rec.duration = LongDuration =>
    IF state = "finished" THEN 1 .. records \subseteq heard.records \cup heard.losses
    ELSE 1 .. records \subseteq Buffered \cup Waiting \cup heard.records \cup Reported

(* closeSegment: parts of two segments are never on the air together in    *)
(* one slot of the ring, and no part of a segment is missing.              *)
WholeSegments ==
  \A id \in {i \in DOMAIN rec.realtime.modules : i[1] = "timed"} :
    LET m == rec.realtime.modules[id].stored IN
    \A part \in 0 .. MaxSegmentParts - 1 :
      LET k == TimedModuleID(m.seq, part) IN
      IF part >= m.count THEN k \notin DOMAIN rec.realtime.modules
      ELSE /\ k \in DOMAIN rec.realtime.modules
           /\ rec.realtime.modules[k].stored.seq = m.seq
           /\ rec.realtime.modules[k].stored.epoch = m.epoch

(* closeSegment: a segment that was on the air stays until the segment     *)
(* repeatWindow later closes, so it is repeated for the playout limit,     *)
(* although ids are shared along the ring and epochs restart it.           *)
WindowKept ==
  \A s \in heard.segments :
    /\ s[1] = rec.epochID /\ rec.haveComplete /\ rec.pending = <<>>
    /\ rec.latestComplete - s[2] < RepeatWindow(rec)
    => Carried(s[2])

(* closeSegment: the ring on the air is a window of whole segments.        *)
RingKept == WholeSegments /\ WindowKept

(* trimAVMap, installAVMap's interval and Finish: an AV map entry is not   *)
(* dropped before it was on the air, and after Finish all have been, with  *)
(* the objects committed, whatever the intervals held back.                *)
AVMapCarried ==
  /\ 1 .. entries \subseteq Mapped \cup heard.entries
  /\ state = "finished" =>
       /\ 1 .. entries \subseteq heard.entries
       /\ rec.objects # Nothing => ~rec.objectsDirty /\ ManifestID \in DOMAIN rec.object.modules
=============================================================================
