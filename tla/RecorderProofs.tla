---------------------------- MODULE RecorderProofs ----------------------------
(***************************************************************************)
(* What the preservation recorder keeps, proved for every value of the     *)
(* constants and every input: the AV map entries, under a punctual input   *)
(* the records, and last the ring of segments.                             *)
(***************************************************************************)
EXTENDS RecorderFacts
-----------------------------------------------------------------------------
(* The emission after an installation: q is installed, p is it on the air  *)
(* and g what a receiver has then.                                         *)

Aired(q, p, g) ==
  /\ DOMAIN p = Fields /\ Same(q, p, {"realtime", "object"})
  /\ Shape(p.realtime) /\ Shape(p.object)
  /\ DOMAIN p.object.modules = DOMAIN q.object.modules
  /\ DOMAIN p.realtime.modules = DOMAIN q.realtime.modules
  /\ \A id \in DOMAIN q.realtime.modules :
       /\ p.realtime.modules[id].stored = q.realtime.modules[id].stored
       /\ HeardIn(g, id, q.realtime.modules[id].stored)
  /\ heard.records \subseteq g.records
  /\ heard.losses \subseteq g.losses
  /\ heard.entries \subseteq g.entries

LEMMA AiredFacts ==
  ASSUME NEW t \in Int, NEW q, DOMAIN q = Fields, Shape(q.realtime), Shape(q.object),
         Fresh(heard, q.realtime, t),
         NEW p, p = [q EXCEPT !.realtime = AfterEmit(q.realtime, t),
                              !.object = AfterEmit(q.object, t)],
         NEW g, g = Hears(Rebuilt(q.realtime, t), t)
  PROVE  Aired(q, p, g)
<1>1. /\ DOMAIN p = Fields /\ Same(q, p, {"realtime", "object"})
      /\ p.realtime = AfterEmit(q.realtime, t) /\ p.object = AfterEmit(q.object, t)
  BY DEF Same, Fields, NewRecorder
<1>2. PICK b : b = Rebuilt(q.realtime, t)
  OBVIOUS
<1>3. b.modules = q.realtime.modules
  BY <1>2 DEF Rebuilt, Shape, CarouselFields, NewCarousel
<1>4. Fresh(heard, b, t)
  BY <1>3 DEF Fresh
<1>5. PICK h : h = heard
  OBVIOUS
<1>6. /\ \A id \in DOMAIN b.modules : HeardIn(g, id, b.modules[id].stored)
      /\ h.records \subseteq g.records
      /\ h.losses \subseteq g.losses
      /\ h.entries \subseteq g.entries
  BY <1>2, <1>4, <1>5, HearsFacts
<1>7. /\ Shape(p.realtime) /\ DOMAIN p.realtime.modules = DOMAIN q.realtime.modules
      /\ \A id \in DOMAIN q.realtime.modules :
           p.realtime.modules[id].stored = q.realtime.modules[id].stored
  BY <1>1, EmitFacts
<1>8. Shape(p.object) /\ DOMAIN p.object.modules = DOMAIN q.object.modules
  BY <1>1, EmitFacts
<1>9. QED BY <1>1, <1>3, <1>5, <1>6, <1>7, <1>8 DEF Aired
-----------------------------------------------------------------------------
(* The types of a recorder, and what its operations keep of them.          *)

\* a recorder that may be installed and closed
Kept(r) ==
  /\ Segments(r)
  /\ Shape(r.realtime) /\ Shape(r.object) /\ IsObjects(r.objects)
  /\ r.objectsDirty \in BOOLEAN
  /\ r.epochBase \in Nat /\ r.latestNTP \in Nat

AllHeard(h, r) ==
  \A id \in DOMAIN r.realtime.modules : HeardIn(h, id, r.realtime.modules[id].stored)

\* n entries: each is in the map or was on the air, and what was not is to be installed
Mapping(h, n, r) ==
  /\ 1 .. n \subseteq {slot.entry : slot \in r.avmap} \cup h.entries
  /\ \A slot \in r.avmap : slot.installed => slot.entry \in h.entries
  /\ r.avmapDirty \/ \A slot \in r.avmap : slot.installed

\* each was on the air or is in the installed map
MapReady(h, n, r) == \A e \in 1 .. n : e \in h.entries \/ InMap(r, e)

LEMMA TrimmedMapping ==
  ASSUME NEW h, NEW n, NEW r, Mapping(h, n, r), NEW q, Trimmed(r, q)
  PROVE  Mapping(h, n, q)
<1>1. ASSUME NEW e \in 1 .. n PROVE e \in {slot.entry : slot \in q.avmap} \cup h.entries
  <2>1. CASE e \in h.entries
    BY <2>1
  <2>2. CASE e \in {slot.entry : slot \in r.avmap}
    <3>1. PICK slot \in r.avmap : e = slot.entry
      BY <2>2
    <3>2. QED BY <3>1 DEF Mapping, Trimmed
  <2>3. QED BY <1>1, <2>1, <2>2 DEF Mapping
<1>2. \A slot \in q.avmap : slot.installed => slot.entry \in h.entries
  BY DEF Mapping, Trimmed
<1>3. q.avmapDirty \/ \A slot \in q.avmap : slot.installed
  BY DEF Mapping, Trimmed
<1>4. QED BY <1>1, <1>2, <1>3 DEF Mapping

LEMMA SegmentIDs ==
  ASSUME NEW pending \in Seq(PendingEntry)
  PROVE  OfSegments(pending) /\ \E n \in Nat : DOMAIN pending = 1 .. n
<1>1. ASSUME NEW i \in DOMAIN pending PROVE PendingID(pending[i])[1] = "timed"
  <2>1. pending[i] \in PendingEntry
    OBVIOUS
  <2>2. PendingID(pending[i]) \in TimedIds
    BY <2>1 DEF PendingEntry, PartUpdate, PendingID
  <2>3. QED BY <2>2 DEF TimedIds
<1>2. DOMAIN pending = 1 .. Len(pending) /\ Len(pending) \in Nat
  OBVIOUS
<1>3. QED BY <1>1, <1>2 DEF OfSegments

LEMMA KeptIsReady ==
  ASSUME NEW h, NEW t \in Int, NEW r, Kept(r), Fresh(h, r.realtime, t)
  PROVE  Ready(h, t, r)
<1>1. OfSegments(r.pending) /\ \E n \in Nat : DOMAIN r.pending = 1 .. n
  BY SegmentIDs DEF Kept, Segments
<1>2. QED BY <1>1 DEF Kept, Segments, Ready, Installing

\* an installation of a whole recorder
LEMMA InstalledFacts ==
  ASSUME NEW h, NEW t \in Int, NEW r, Kept(r), Fresh(h, r.realtime, t),
         NEW q, q = InstallAll(r, t), q.err = "none"
  PROVE  /\ r.err = "none" /\ Kept(q) /\ Fresh(h, q.realtime, t)
         /\ Same(r, q, InstallFields)
         /\ SegmentsInstalled(r, q)
         /\ MapInstalled(t, r, q)
         /\ Committed(t, r, q)
<1>1. Ready(h, t, r)
  BY KeptIsReady
<1>2. /\ r.err = "none"
      /\ Installing(h, t, r, q) /\ Shape(q.object)
      /\ Same(r, q, InstallFields)
      /\ SegmentsInstalled(r, q)
      /\ MapInstalled(t, r, q)
      /\ Committed(t, r, q)
  BY <1>1, InstallAllFacts
<1>3. /\ DOMAIN q = Fields /\ DOMAIN r = Fields
      /\ Shape(q.realtime) /\ Fresh(h, q.realtime, t)
  BY <1>2 DEF Installing, Kept, Segments
<1>4. /\ q.epochID = r.epochID /\ q.duration = r.duration /\ q.open = r.open
      /\ q.closedSegments = r.closedSegments /\ q.nextSeq = r.nextSeq
      /\ q.objects = r.objects /\ q.epochBase = r.epochBase /\ q.latestNTP = r.latestNTP
  BY <1>2, <1>3 DEF Same, Fields, NewRecorder, InstallFields, CommitFields, BootstrapFields
<1>5. q.avmap \subseteq Slot /\ q.avmapDirty \in BOOLEAN
  <2>1. \A slot \in Slot : Noted(slot) \in Slot
    BY DEF Slot, Noted
  <2>2. r.avmap \subseteq Slot /\ r.avmapDirty \in BOOLEAN
    BY DEF Kept, Segments
  <2>3. CASE MapDue(r, t)
    <3>1. q.avmap = {Noted(slot) : slot \in r.avmap} /\ q.avmapDirty = FALSE
      BY <1>2, <2>3 DEF MapInstalled
    <3>2. q.avmap \subseteq Slot
      BY <2>1, <2>2, <3>1
    <3>3. QED BY <3>1, <3>2
  <2>4. CASE ~ MapDue(r, t)
    BY <1>2, <2>2, <2>4 DEF MapInstalled
  <2>5. QED BY <2>3, <2>4
<1>6. q.objectsDirty \in BOOLEAN
  BY <1>2 DEF Committed, Kept
<1>7. q.pending \in Seq(PendingEntry) /\ q.losses \in Seq(Loss)
  BY <1>2 DEF SegmentsInstalled
<1>8. Segments(q)
  BY <1>3, <1>4, <1>5, <1>7 DEF Kept, Segments
<1>9. Kept(q)
  BY <1>2, <1>3, <1>4, <1>6, <1>8 DEF Kept
<1>10. QED BY <1>2, <1>3, <1>9

\* an emission leaves the map as it should be
LEMMA EmittedMapping ==
  ASSUME NEW t \in Int, NEW n, NEW r, Kept(r), Mapping(heard, n, r),
         NEW q, MapInstalled(t, r, q), NEW p, NEW g, Aired(q, p, g)
  PROVE  Mapping(g, n, p) /\ AllHeard(g, p)
<1>1. AllHeard(g, p)
  BY DEF Aired, AllHeard
<1>2. p.avmap = q.avmap /\ p.avmapDirty = q.avmapDirty
  BY DEF Aired, Same, Fields, NewRecorder
<1>3. \A e : InMap(q, e) => e \in g.entries
  BY DEF Aired, HeardIn, InMap, AVMapID
<1>4. heard.entries \subseteq g.entries
  BY DEF Aired
<1>5. CASE MapDue(r, t)
  <2>1. q.avmap = {Noted(slot) : slot \in r.avmap} /\ \A slot \in r.avmap : InMap(q, slot.entry)
    BY <1>5 DEF MapInstalled
  <2>2. \A slot \in Slot : Noted(slot).entry = slot.entry /\ Noted(slot).installed
    BY DEF Slot, Noted
  <2>3. r.avmap \subseteq Slot
    BY DEF Kept, Segments
  <2>4. \A slot \in p.avmap : slot.installed /\ slot.entry \in g.entries
    BY <1>2, <1>3, <2>1, <2>2, <2>3
  <2>5. {slot.entry : slot \in r.avmap} \subseteq {slot.entry : slot \in p.avmap}
    BY <1>2, <2>1, <2>2, <2>3
  <2>6. QED BY <1>1, <1>4, <2>4, <2>5 DEF Mapping
<1>6. CASE ~ MapDue(r, t)
  <2>1. q.avmap = r.avmap /\ q.avmapDirty = r.avmapDirty
    BY <1>6 DEF MapInstalled
  <2>2. QED BY <1>1, <1>2, <1>4, <2>1 DEF Mapping
<1>7. QED BY <1>5, <1>6

\* after the two installations of Finish, no interval holds an entry back
LEMMA FinishedMapping ==
  ASSUME NEW t \in Nat, NEW n, NEW r, Kept(r), Mapping(heard, n, r), r.lastAVMap = LongAgo,
         NEW q, MapInstalled(t, r, q),
         NEW q2, MapInstalled(t, q, q2), NEW p, NEW g, Aired(q2, p, g)
  PROVE  1 .. n \subseteq g.entries
<1>1. t - r.lastAVMap >= SegmentInterval
  <2>1. SegmentInterval \in Nat /\ LongAgo \in Int /\ LongAgo + SegmentInterval <= 0
    BY RecorderAssumption
  <2>2. QED BY <2>1
<1>2. MapReady(heard, n, q)
  <2>1. CASE MapDue(r, t)
    <3>1. \A slot \in r.avmap : InMap(q, slot.entry)
      BY <2>1 DEF MapInstalled
    <3>2. QED BY <3>1 DEF Mapping, MapReady
  <2>2. CASE ~ MapDue(r, t)
    <3>1. ~ r.avmapDirty
      BY <1>1, <2>2 DEF MapDue
    <3>2. QED BY <3>1 DEF Mapping, MapReady
  <2>3. QED BY <2>1, <2>2
<1>3. ~ q.avmapDirty
  <2>1. CASE MapDue(r, t)
    BY <2>1 DEF MapInstalled
  <2>2. CASE ~ MapDue(r, t)
    BY <1>1, <2>2 DEF MapInstalled, MapDue
  <2>3. QED BY <2>1, <2>2
<1>4. \A e : InMap(q, e) => InMap(q2, e)
  BY <1>3 DEF MapInstalled, MapDue
<1>5. \A e : InMap(q2, e) => e \in g.entries
  BY DEF Aired, HeardIn, InMap, AVMapID
<1>6. heard.entries \subseteq g.entries
  BY DEF Aired
<1>7. QED BY <1>2, <1>4, <1>5, <1>6 DEF MapReady

\* nor the objects
ObjectsCommitted(r) ==
  r.objects # Nothing => ~ r.objectsDirty /\ ManifestID \in DOMAIN r.object.modules

LEMMA FinishedObjects ==
  ASSUME NEW t \in Nat, NEW r,
         r.objects # Nothing => r.objectsDirty /\ r.lastCommit = LongAgo,
         NEW q, Committed(t, r, q), q.objects = r.objects,
         NEW q2, Committed(t, q, q2), q2.objects = q.objects,
         NEW p, NEW g, Aired(q2, p, g)
  PROVE  ObjectsCommitted(p)
<1>1. p.objects = q2.objects /\ p.objectsDirty = q2.objectsDirty
  BY DEF Aired, Same, Fields, NewRecorder
<1>2. SUFFICES ASSUME r.objects # Nothing
               PROVE  ~ p.objectsDirty /\ ManifestID \in DOMAIN p.object.modules
  BY <1>1 DEF ObjectsCommitted
<1>3. CommitDue(r, t)
  <2>1. CommitInterval \in Nat /\ LongAgo \in Int /\ LongAgo + CommitInterval <= 0
    BY RecorderAssumption
  <2>2. t - r.lastCommit >= CommitInterval
    BY <1>2, <2>1
  <2>3. QED BY <1>2, <2>2 DEF CommitDue
<1>4. q.objectsDirty = FALSE /\ ManifestID \in DOMAIN q.object.modules
  BY <1>3 DEF Committed
<1>5. q2.objectsDirty = FALSE /\ ManifestID \in DOMAIN q2.object.modules
  BY <1>4 DEF Committed, CommitDue
<1>6. QED BY <1>1, <1>5 DEF Aired
-----------------------------------------------------------------------------
(* What the converter tells the recorder.                                  *)

\* q may be installed and closed, and carries what r carried
Carries(r, q) ==
  /\ Kept(q) /\ Trimmed(r, q)
  /\ q.realtime = r.realtime /\ q.duration = r.duration

SameTimes(r, q) ==
  q.haveEpoch = r.haveEpoch /\ q.latestNTP = r.latestNTP /\ q.epochBase = r.epochBase

LEMMA ClosedIsKept ==
  ASSUME NEW r, Kept(r), NEW S, NEW q, CloseKept(r, S, q)
  PROVE  /\ Carries(r, q) /\ DOMAIN r = Fields /\ DOMAIN q = Fields
         /\ SameTimes(r, q)
         /\ q.objects = r.objects
<1>1. DOMAIN r = Fields /\ DOMAIN q = Fields /\ Segments(q) /\ Same(r, q, CloseFields) /\ Trimmed(r, q)
  BY DEF CloseKept, Kept, Segments
<1>2. /\ q.haveEpoch = r.haveEpoch /\ q.latestNTP = r.latestNTP /\ q.epochBase = r.epochBase
      /\ q.realtime = r.realtime /\ q.object = r.object /\ q.duration = r.duration
      /\ q.objects = r.objects /\ q.objectsDirty = r.objectsDirty
  BY <1>1 DEF Same, Fields, NewRecorder, CloseFields
<1>3. Kept(q)
  BY <1>1, <1>2 DEF Kept
<1>4. QED BY <1>1, <1>2, <1>3 DEF Carries, SameTimes

\* q is r in an epoch that starts at ntp
Started(r, q, ntp) ==
  /\ q.haveEpoch = TRUE /\ q.latestNTP = ntp /\ q.epochBase = ntp
  /\ q.open = r.open /\ q.nextSeq = r.nextSeq /\ q.err = r.err
  /\ q.pending = r.pending /\ q.losses = r.losses /\ q.closedSegments = r.closedSegments

LEMMA StartEpochFacts ==
  ASSUME NEW r, Kept(r), NEW ntp \in Nat, NEW q, q = StartEpoch(r, ntp)
  PROVE  Carries(r, q) /\ Started(r, q, ntp)
<1>1. DOMAIN r = Fields
  BY DEF Kept, Segments
<1>2. DOMAIN q = Fields /\ Same(r, q, {"epochBase", "haveEpoch", "latestNTP"}) /\ q.haveEpoch = TRUE /\ q.latestNTP = ntp /\ q.epochBase = ntp
  BY <1>1 DEF StartEpoch, Same, Fields, NewRecorder
<1>3. Started(r, q, ntp)
  BY <1>1, <1>2 DEF Started, Same, Fields, NewRecorder
<1>4. /\ q.realtime = r.realtime /\ q.object = r.object /\ q.duration = r.duration
      /\ q.objects = r.objects /\ q.objectsDirty = r.objectsDirty
      /\ q.avmap = r.avmap /\ q.avmapDirty = r.avmapDirty /\ q.epochID = r.epochID
  BY <1>1, <1>2 DEF Same, Fields, NewRecorder
<1>5. Segments(q)
  BY <1>2, <1>3, <1>4 DEF Kept, Segments, Started
<1>6. Kept(q) /\ Trimmed(r, q)
  BY <1>2, <1>4, <1>5 DEF Kept, Trimmed
<1>7. QED BY <1>3, <1>4, <1>6 DEF Carries

\* q is r in a new epoch, f is r with everything closed
Renewed(r, f, q, ntp) ==
  /\ Carries(r, q) /\ CloseKept(r, DOMAIN r.open, f)
  /\ q.haveEpoch = TRUE /\ q.latestNTP = ntp /\ q.epochBase = ntp
  /\ q.open = Nothing /\ q.nextSeq = 0 /\ q.err = f.err
  /\ q.pending = f.pending /\ q.losses = f.losses /\ q.closedSegments = f.closedSegments

LEMMA NewEpochFacts ==
  ASSUME NEW r, Kept(r), NEW ntp \in Nat, NEW q, q = NewEpoch(r, ntp),
         NEW f, f = FlushOpen(r)
  PROVE  Renewed(r, f, q, ntp)
<1>1. CloseKept(r, DOMAIN r.open, f)
  BY CloseSegmentsFacts DEF FlushOpen, Kept
<1>2. Carries(r, f) /\ DOMAIN f = Fields
  BY <1>1, ClosedIsKept
<1>3. PICK s : s = StartEpoch(f, ntp)
  OBVIOUS
<1>4. Kept(f)
  BY <1>2 DEF Carries
<1>5. Carries(f, s) /\ Started(f, s, ntp)
  BY <1>3, <1>4, StartEpochFacts
<1>6. DOMAIN s = Fields /\ s.avmap = f.avmap /\ s.avmapDirty = f.avmapDirty
  BY <1>2, <1>3 DEF StartEpoch, Fields, NewRecorder
<1>7. q = [s EXCEPT !.epochID = s.epochID + 1, !.nextSeq = 0, !.haveComplete = FALSE,
                    !.open = Nothing, !.avmapDirty = s.avmapDirty \/ f.avmap # {}]
  BY <1>3 DEF NewEpoch
<1>8. /\ DOMAIN q = Fields
      /\ Same(s, q, {"epochID", "nextSeq", "haveComplete", "open", "avmapDirty"})
      /\ q.epochID = s.epochID + 1 /\ q.nextSeq = 0 /\ q.open = Nothing
      /\ q.avmapDirty = (s.avmapDirty \/ f.avmap # {})
  BY <1>6, <1>7 DEF Same, Fields, NewRecorder
<1>9. /\ q.haveEpoch = s.haveEpoch /\ q.latestNTP = s.latestNTP /\ q.epochBase = s.epochBase
      /\ q.err = s.err /\ q.pending = s.pending /\ q.losses = s.losses
      /\ q.closedSegments = s.closedSegments /\ q.avmap = s.avmap
      /\ q.realtime = s.realtime /\ q.object = s.object /\ q.duration = s.duration
      /\ q.objects = s.objects /\ q.objectsDirty = s.objectsDirty
  BY <1>6, <1>8 DEF Same, Fields, NewRecorder
<1>10. DOMAIN Nothing = {} /\ IsFiniteSet({})
  BY FS_EmptySet DEF Nothing
<1>11. Segments(s)
  BY <1>5 DEF Carries, Kept
<1>12. Segments(q)
  <2>1. q.epochID \in Nat /\ q.nextSeq \in Nat /\ q.closedSegments \in Nat
    BY <1>8, <1>9, <1>11 DEF Segments
  <2>2. q.avmapDirty \in BOOLEAN
    BY <1>8
  <2>3. QED BY <1>8, <1>9, <1>10, <1>11, <2>1, <2>2 DEF Segments
<1>13. Kept(q)
  BY <1>5, <1>9, <1>12 DEF Carries, Kept
<1>14. Trimmed(r, q)
  <2>1. Trimmed(r, f) /\ q.avmap = f.avmap /\ (f.avmapDirty => q.avmapDirty)
    BY <1>2, <1>6, <1>8, <1>9 DEF Carries
  <2>2. QED BY <2>1 DEF Trimmed
<1>15. Carries(r, q)
  BY <1>2, <1>5, <1>9, <1>13, <1>14 DEF Carries
<1>16. QED BY <1>1, <1>5, <1>8, <1>9, <1>15 DEF Started, Renewed

\* within an epoch: what is due of the reading closes
\* q is r at ntp, s is r before what is due, S, closes
Elapsed(r, s, S, q, ntp) ==
  /\ Carries(r, q) /\ CloseKept(s, S, q)
  /\ Same(r, s, {"latestNTP"}) /\ s.latestNTP = Max({r.latestNTP, ntp})
  /\ q.haveEpoch = r.haveEpoch /\ q.latestNTP = s.latestNTP /\ q.epochBase = r.epochBase

LEMMA CloseElapsedFacts ==
  ASSUME NEW r, Kept(r), NEW ntp \in Nat,
         NEW s, s = [r EXCEPT !.latestNTP = Max({r.latestNTP, ntp})],
         NEW S, S = {seq \in DOMAIN s.open : seq < SequenceOf(s, s.latestNTP)},
         NEW q, q = CloseElapsed(s)
  PROVE  Elapsed(r, s, S, q, ntp)
<1>1. DOMAIN r = Fields
  BY DEF Kept, Segments
<1>2. /\ DOMAIN s = Fields /\ Same(r, s, {"latestNTP"}) /\ s.latestNTP = Max({r.latestNTP, ntp})
  BY <1>1 DEF Same, Fields, NewRecorder
<1>3. /\ s.haveEpoch = r.haveEpoch /\ s.epochBase = r.epochBase
      /\ s.open = r.open /\ s.nextSeq = r.nextSeq
      /\ s.pending = r.pending /\ s.losses = r.losses /\ s.closedSegments = r.closedSegments
      /\ s.realtime = r.realtime /\ s.object = r.object /\ s.duration = r.duration
      /\ s.objects = r.objects /\ s.objectsDirty = r.objectsDirty
      /\ s.avmap = r.avmap /\ s.avmapDirty = r.avmapDirty /\ s.epochID = r.epochID
  BY <1>1, <1>2 DEF Same, Fields, NewRecorder
<1>4. Segments(s)
  BY <1>2, <1>3 DEF Kept, Segments
<1>5. s.latestNTP \in Nat
  <2>1. r.latestNTP \in Int /\ ntp \in Int /\ r.latestNTP \in Nat
    BY DEF Kept
  <2>2. Max({r.latestNTP, ntp}) \in {r.latestNTP, ntp}
    BY <2>1, MaxOfTwo
  <2>3. QED BY <1>2, <2>1, <2>2
<1>6. Kept(s)
  BY <1>3, <1>4, <1>5 DEF Kept
<1>7. CloseKept(s, S, q)
  BY <1>4, CloseSegmentsFacts DEF CloseElapsed
<1>8. Carries(s, q) /\ q.haveEpoch = s.haveEpoch /\ q.latestNTP = s.latestNTP /\ q.epochBase = s.epochBase
  <2>1. Carries(s, q)
    BY <1>6, <1>7, ClosedIsKept
  <2>2. SameTimes(s, q)
    BY <1>6, <1>7, ClosedIsKept
  <2>3. QED BY <2>1, <2>2 DEF SameTimes
<1>9. Carries(r, q)
  BY <1>3, <1>8 DEF Carries, Trimmed
<1>10. QED BY <1>2, <1>3, <1>7, <1>8, <1>9 DEF Elapsed

LEMMA ObserveCarries ==
  ASSUME NEW r, Kept(r), NEW ntp \in Nat, NEW q, q = Observe(r, ntp)
  PROVE  Carries(r, q)
<1>1. CASE ~ r.haveEpoch
  BY <1>1, StartEpochFacts DEF Observe
<1>2. CASE r.haveEpoch /\ Jumps(r, ntp)
  BY <1>2, NewEpochFacts DEF Observe, Renewed
<1>3. CASE r.haveEpoch /\ ~ Jumps(r, ntp)
  BY <1>3, CloseElapsedFacts DEF Observe, Elapsed
<1>4. QED BY <1>1, <1>2, <1>3

\* q is r with x in the segment of seq
Added(r, q, seq, x) ==
  /\ DOMAIN q.open = DOMAIN r.open \cup {seq}
  /\ \A s \in DOMAIN r.open : IDs(r.open[s]) \subseteq IDs(q.open[s])
  /\ x.id \in IDs(q.open[seq])
  /\ SameTimes(r, q)
  /\ q.nextSeq = r.nextSeq /\ q.err = r.err
  /\ q.pending = r.pending /\ q.losses = r.losses /\ q.closedSegments = r.closedSegments

LEMMA SequenceOfFacts ==
  ASSUME NEW r, Kept(r), NEW ntp \in Nat
  PROVE  SequenceOf(r, ntp) \in Nat
<1>1. r.duration \in Nat \ {0} /\ r.epochBase \in Nat
  BY RecorderAssumption DEF Kept, Segments
<1>2. CASE ntp <= r.epochBase
  BY <1>2 DEF SequenceOf
<1>3. CASE ~ (ntp <= r.epochBase)
  <2>1. ntp - r.epochBase \in Nat /\ r.duration \in Int /\ r.duration > 0
    BY <1>1, <1>3
  <2>2. (ntp - r.epochBase) \div r.duration \in Nat
    BY <2>1, Quotient
  <2>3. QED BY <1>3, <2>2 DEF SequenceOf
<1>4. QED BY <1>2, <1>3

LEMMA SegmentForFacts ==
  ASSUME NEW r, Kept(r), NEW ntp \in Nat
  PROVE  /\ SegmentFor(r, ntp) \in Nat
         /\ \/ SegmentFor(r, ntp) \in DOMAIN r.open
            \/ /\ SegmentFor(r, ntp) = SequenceOf(r, ntp)
               /\ SequenceOf(r, ntp) < r.nextSeq => DOMAIN r.open = {}
         /\ SequenceOf(r, ntp) \in DOMAIN r.open \/ ~ (SequenceOf(r, ntp) < r.nextSeq) =>
              SegmentFor(r, ntp) = SequenceOf(r, ntp)
<1>1. PICK seq : seq = SequenceOf(r, ntp)
  OBVIOUS
<1>2. seq \in Nat
  BY <1>1, SequenceOfFacts
<1>3. DOMAIN r.open \subseteq Nat
  BY DEF Kept, Segments
<1>4. CASE seq \notin DOMAIN r.open /\ seq < r.nextSeq /\ DOMAIN r.open # {}
  <2>1. SegmentFor(r, ntp) = Min(DOMAIN r.open)
    BY <1>1, <1>4 DEF SegmentFor
  <2>2. \E x \in DOMAIN r.open : \A y \in DOMAIN r.open : x <= y
    BY <1>3, <1>4, Closings!LeastMember
  <2>3. Min(DOMAIN r.open) \in DOMAIN r.open
    BY <2>2 DEF Min
  <2>4. QED BY <1>1, <1>3, <1>4, <2>1, <2>3
<1>5. CASE ~ (seq \notin DOMAIN r.open /\ seq < r.nextSeq /\ DOMAIN r.open # {})
  <2>1. SegmentFor(r, ntp) = seq
    BY <1>1, <1>5 DEF SegmentFor
  <2>2. QED BY <1>1, <1>2, <1>5, <2>1
<1>6. QED BY <1>4, <1>5

LEMMA AppendFacts ==
  ASSUME NEW s \in Seq(Record), NEW x \in Record
  PROVE  /\ Append(s, x) \in Seq(Record)
         /\ IDs(s) \subseteq IDs(Append(s, x)) /\ x.id \in IDs(Append(s, x))
<1>1. PICK n \in Nat : n = Len(s)
  OBVIOUS
<1>2. PICK a : a = Append(s, x)
  OBVIOUS
<1>3. /\ a \in Seq(Record) /\ DOMAIN a = 1 .. n + 1 /\ DOMAIN s = 1 .. n
      /\ a[n + 1] = x /\ \A i \in 1 .. n : a[i] = s[i]
  BY <1>1, <1>2
<1>4. x \in Range(a) /\ Range(s) \subseteq Range(a)
  <2>1. n + 1 \in DOMAIN a /\ \A i \in 1 .. n : i \in DOMAIN a
    BY <1>3
  <2>2. QED BY <1>3, <2>1 DEF Range
<1>5. QED BY <1>2, <1>3, <1>4 DEF IDs

\* these are the open segments of r with x in the segment of seq
Opened(r, seq, x, f) ==
  /\ IsFiniteSet(DOMAIN f) /\ DOMAIN f \subseteq Nat
  /\ \A s \in DOMAIN f : f[s] \in Seq(Record)
  /\ DOMAIN f = DOMAIN r.open \cup {seq}
  /\ \A s \in DOMAIN r.open : IDs(r.open[s]) \subseteq IDs(f[s])
  /\ x.id \in IDs(f[seq])

LEMMA PutFacts ==
  ASSUME NEW r, Kept(r), NEW seq \in Nat, NEW x \in Record,
         NEW f, f = Put(r.open, seq, IF seq \in DOMAIN r.open THEN Append(r.open[seq], x) ELSE <<x>>)
  PROVE  Opened(r, seq, x, f)
<1>1. /\ IsFiniteSet(DOMAIN r.open) /\ DOMAIN r.open \subseteq Nat
      /\ \A s \in DOMAIN r.open : r.open[s] \in Seq(Record)
  BY DEF Kept, Segments
<1>2. PICK v : v = IF seq \in DOMAIN r.open THEN Append(r.open[seq], x) ELSE <<x>>
  OBVIOUS
<1>3. /\ v \in Seq(Record) /\ x.id \in IDs(v)
      /\ seq \in DOMAIN r.open => IDs(r.open[seq]) \subseteq IDs(v)
  <2>1. CASE seq \in DOMAIN r.open
    BY <1>1, <1>2, <2>1, AppendFacts
  <2>2. CASE seq \notin DOMAIN r.open
    <3>1. v = Append(<<>>, x) /\ <<>> \in Seq(Record)
      BY <1>2, <2>2
    <3>2. QED BY <2>2, <3>1, AppendFacts
  <2>3. QED BY <2>1, <2>2
<1>4. /\ DOMAIN f = DOMAIN r.open \cup {seq} /\ f[seq] = v
      /\ \A s \in DOMAIN r.open \ {seq} : f[s] = r.open[s]
  BY <1>2 DEF Put
<1>5. IsFiniteSet(DOMAIN f)
  BY <1>1, <1>4, FS_AddElement
<1>6. QED BY <1>1, <1>3, <1>4, <1>5 DEF Opened

LEMMA AddRecordFacts ==
  ASSUME NEW r, Kept(r), NEW ntp \in Nat, NEW x \in Record, NEW q, q = AddRecord(r, ntp, x),
         NEW ready, ready = IF r.haveEpoch THEN r ELSE StartEpoch(r, ntp),
         NEW seq, seq = SegmentFor(ready, ntp)
  PROVE  /\ Carries(r, q)
         /\ Kept(ready) /\ seq \in Nat
         /\ Added(ready, q, seq, x)
<1>1. Kept(ready) /\ Carries(r, ready)
  <2>1. CASE r.haveEpoch
    BY <2>1 DEF Carries, Trimmed
  <2>2. CASE ~ r.haveEpoch
    BY <2>2, StartEpochFacts DEF Carries
  <2>3. QED BY <2>1, <2>2
<1>2. seq \in Nat
  BY <1>1, SegmentForFacts
<1>3. PICK f : f = Put(ready.open, seq,
                       IF seq \in DOMAIN ready.open THEN Append(ready.open[seq], x) ELSE <<x>>)
  OBVIOUS
<1>4. q = [ready EXCEPT !.open = f]
  BY <1>3 DEF AddRecord
<1>5. DOMAIN ready = Fields
  BY <1>1 DEF Kept, Segments
<1>6. DOMAIN q = Fields /\ q.open = f /\ Same(ready, q, {"open"})
  BY <1>4, <1>5 DEF Same, Fields, NewRecorder
<1>7. Opened(ready, seq, x, f)
  BY <1>1, <1>2, <1>3, PutFacts
<1>8. /\ q.haveEpoch = ready.haveEpoch /\ q.latestNTP = ready.latestNTP
      /\ q.epochBase = ready.epochBase /\ q.nextSeq = ready.nextSeq /\ q.err = ready.err
      /\ q.pending = ready.pending /\ q.losses = ready.losses
      /\ q.closedSegments = ready.closedSegments
      /\ q.realtime = ready.realtime /\ q.object = ready.object /\ q.duration = ready.duration
      /\ q.objects = ready.objects /\ q.objectsDirty = ready.objectsDirty
      /\ q.avmap = ready.avmap /\ q.avmapDirty = ready.avmapDirty /\ q.epochID = ready.epochID
  BY <1>5, <1>6 DEF Same, Fields, NewRecorder
<1>9. Added(ready, q, seq, x)
  BY <1>6, <1>7, <1>8 DEF Added, SameTimes, Opened
<1>10. Segments(q)
  BY <1>1, <1>6, <1>7, <1>8 DEF Kept, Segments, Opened
<1>11. Kept(q)
  BY <1>1, <1>8, <1>10 DEF Kept
<1>12. Trimmed(r, q)
  BY <1>1, <1>8 DEF Carries, Trimmed
<1>13. Carries(r, q)
  BY <1>1, <1>8, <1>11, <1>12 DEF Carries
<1>14. QED BY <1>1, <1>2, <1>9, <1>13

\* what the records and their loss are told by is as it was
SameRecords(r, q) ==
  /\ SameTimes(r, q)
  /\ q.open = r.open /\ q.nextSeq = r.nextSeq /\ q.err = r.err
  /\ q.pending = r.pending /\ q.losses = r.losses /\ q.closedSegments = r.closedSegments

SameOpen(r, q) ==
  /\ SameTimes(r, q)
  /\ q.open = r.open /\ q.nextSeq = r.nextSeq
  /\ q.pending = r.pending /\ q.closedSegments = r.closedSegments

\* nothing but more losses
MoreTold(r, q) == SameOpen(r, q) /\ Lost(r.losses) \subseteq Lost(q.losses)

LEMMA UseShortSegmentsFacts ==
  ASSUME NEW r, Kept(r), NEW q, q = UseShortSegments(r)
  PROVE  /\ Kept(q) /\ Trimmed(r, q) /\ q.realtime = r.realtime
         /\ q = r \/ q.duration # LongDuration
<1>1. CASE r.nextSeq # 0 \/ r.duration <= ShortDuration
  BY <1>1 DEF UseShortSegments, Trimmed
<1>2. CASE ~ (r.nextSeq # 0 \/ r.duration <= ShortDuration)
  <2>1. q = [r EXCEPT !.duration = ShortDuration, !.open = Nothing]
    BY <1>2 DEF UseShortSegments
  <2>2. DOMAIN r = Fields
    BY DEF Kept, Segments
  <2>3. DOMAIN q = Fields /\ q.duration = ShortDuration /\ q.open = Nothing /\ Same(r, q, {"duration", "open"})
    BY <2>1, <2>2 DEF Same, Fields, NewRecorder
  <2>4. /\ q.realtime = r.realtime /\ q.object = r.object
        /\ q.objects = r.objects /\ q.objectsDirty = r.objectsDirty
        /\ q.avmap = r.avmap /\ q.avmapDirty = r.avmapDirty /\ q.epochID = r.epochID
        /\ q.latestNTP = r.latestNTP /\ q.epochBase = r.epochBase /\ q.nextSeq = r.nextSeq
        /\ q.pending = r.pending /\ q.losses = r.losses /\ q.closedSegments = r.closedSegments
    BY <2>2, <2>3 DEF Same, Fields, NewRecorder
  <2>5. DOMAIN Nothing = {} /\ IsFiniteSet({})
    BY FS_EmptySet DEF Nothing
  <2>6. Segments(q)
    BY <2>3, <2>4, <2>5 DEF Kept, Segments
  <2>7. Kept(q) /\ Trimmed(r, q)
    BY <2>4, <2>6 DEF Kept, Trimmed
  <2>8. q.duration # LongDuration
    <3>1. r.duration \in {LongDuration, ShortDuration} /\ LongDuration \in Nat /\ ShortDuration \in Nat
      BY RecorderAssumption DEF Kept, Segments
    <3>2. QED BY <1>2, <2>3, <3>1
  <2>9. QED BY <2>4, <2>7, <2>8
<1>3. QED BY <1>1, <1>2

LEMMA AddAVMapEntryFacts ==
  ASSUME NEW r, Kept(r), NEW n \in Nat, NEW q, q = AddAVMapEntry(r, n + 1)
  PROVE  /\ Kept(q) /\ q.realtime = r.realtime /\ q.duration = r.duration /\ SameRecords(r, q)
         /\ \A h : Mapping(h, n, r) => Mapping(h, n + 1, q)
<1>1. PICK slot : slot = [entry |-> n + 1, addedAt |-> r.closedSegments, installed |-> FALSE]
  OBVIOUS
<1>2. q = [r EXCEPT !.avmap = r.avmap \cup {slot}, !.avmapDirty = TRUE]
  BY <1>1 DEF AddAVMapEntry
<1>3. DOMAIN r = Fields
  BY DEF Kept, Segments
<1>4. DOMAIN q = Fields /\ q.avmap = r.avmap \cup {slot} /\ q.avmapDirty = TRUE /\ Same(r, q, {"avmap", "avmapDirty"})
  BY <1>2, <1>3 DEF Same, Fields, NewRecorder
<1>5. SameRecords(r, q)
  BY <1>3, <1>4 DEF Same, Fields, NewRecorder, SameRecords, SameTimes
<1>6. /\ q.realtime = r.realtime /\ q.object = r.object /\ q.duration = r.duration
      /\ q.objects = r.objects /\ q.objectsDirty = r.objectsDirty /\ q.epochID = r.epochID
  BY <1>3, <1>4 DEF Same, Fields, NewRecorder
<1>7. slot \in Slot /\ slot.entry = n + 1 /\ ~ slot.installed
  BY <1>1 DEF Slot, Kept, Segments
<1>8. Segments(q)
  BY <1>4, <1>5, <1>6, <1>7 DEF Kept, Segments, SameRecords
<1>9. Kept(q)
  BY <1>5, <1>6, <1>8 DEF Kept, SameRecords, SameTimes
<1>10. ASSUME NEW h, Mapping(h, n, r) PROVE Mapping(h, n + 1, q)
  <2>1. 1 .. n + 1 \subseteq 1 .. n \cup {n + 1}
    OBVIOUS
  <2>2. {s.entry : s \in q.avmap} = {s.entry : s \in r.avmap} \cup {n + 1}
    BY <1>4, <1>7
  <2>3. QED BY <1>4, <1>7, <1>10, <2>1, <2>2 DEF Mapping
<1>11. QED BY <1>5, <1>6, <1>9, <1>10

LEMMA SetCodecConfigFacts ==
  ASSUME NEW r, Kept(r), NEW id, NEW data, NEW q, q = SetCodecConfig(r, id, data)
  PROVE  Carries(r, q) /\ SameRecords(r, q)
<1>1. DOMAIN r = Fields
  BY DEF Kept, Segments
<1>2. DOMAIN q = Fields /\ Same(r, q, {"codec", "codecDirty"})
  <2>1. CASE q = r
    BY <1>1, <2>1 DEF Same
  <2>2. CASE q = [r EXCEPT !.codec = Put(r.codec, id, data), !.codecDirty = TRUE]
    BY <1>1, <2>2 DEF Same, Fields, NewRecorder
  <2>3. QED BY <2>1, <2>2 DEF SetCodecConfig
<1>3. /\ q.realtime = r.realtime /\ q.object = r.object /\ q.duration = r.duration
      /\ q.objects = r.objects /\ q.objectsDirty = r.objectsDirty /\ q.epochID = r.epochID
      /\ q.avmap = r.avmap /\ q.avmapDirty = r.avmapDirty
  BY <1>1, <1>2 DEF Same, Fields, NewRecorder
<1>4. SameRecords(r, q)
  BY <1>1, <1>2 DEF Same, Fields, NewRecorder, SameRecords, SameTimes
<1>5. Segments(q)
  BY <1>2, <1>3, <1>4 DEF Kept, Segments, SameRecords
<1>6. QED BY <1>3, <1>4, <1>5 DEF Carries, Kept, Trimmed, SameRecords, SameTimes

LEMMA AddObjectFacts ==
  ASSUME NEW r, Kept(r), NEW o \in ObjectInputs, NEW q, q = AddObject(r, o[1], o[2])
  PROVE  /\ Carries(r, q) /\ MoreTold(r, q)
         /\ q.err # "object" => SameRecords(r, q)
<1>1. DOMAIN r = Fields
  BY DEF Kept, Segments
<1>2. CASE q = r
  BY <1>2 DEF Carries, Trimmed, SameRecords, SameTimes, SameOpen, MoreTold
<1>3. CASE q = [AddLoss(r, {}) EXCEPT !.objectBytes = BytesBeside(r, o[1]), !.err = "object"]
  <2>1. PICK a : a = AddLoss(r, {})
    OBVIOUS
  <2>2. r.epochID \in Nat /\ r.losses \in Seq(Loss) /\ {} \in SUBSET Nat
    BY DEF Kept, Segments
  <2>3. DOMAIN a = Fields /\ Same(r, a, {"losses"}) /\ a.losses \in Seq(Loss)
    BY <1>1, <2>1, <2>2, AddLossFacts
  <2>4. q = [a EXCEPT !.objectBytes = BytesBeside(r, o[1]), !.err = "object"]
    BY <1>3, <2>1
  <2>5. /\ DOMAIN q = Fields /\ q.err = "object" /\ q.losses = a.losses
        /\ Same(r, q, {"losses", "objectBytes", "err"})
    BY <2>3, <2>4 DEF Same, Fields, NewRecorder
  <2>6. /\ q.realtime = r.realtime /\ q.object = r.object /\ q.duration = r.duration
        /\ q.objects = r.objects /\ q.objectsDirty = r.objectsDirty /\ q.epochID = r.epochID
        /\ q.avmap = r.avmap /\ q.avmapDirty = r.avmapDirty /\ q.open = r.open
        /\ q.latestNTP = r.latestNTP /\ q.epochBase = r.epochBase /\ q.nextSeq = r.nextSeq
        /\ q.pending = r.pending /\ q.closedSegments = r.closedSegments
    BY <1>1, <2>5 DEF Same, Fields, NewRecorder
  <2>7. Segments(q)
    BY <2>3, <2>5, <2>6 DEF Kept, Segments
  <2>8. SameOpen(r, q)
    BY <2>6, <1>1, <2>5 DEF SameOpen, SameTimes, Same, Fields, NewRecorder
  <2>9. Lost(r.losses) \subseteq Lost(q.losses)
    BY <1>1, <2>1, <2>2, <2>5, AddLossFacts
  <2>10. QED BY <2>5, <2>6, <2>7, <2>8, <2>9 DEF Carries, Kept, Trimmed, MoreTold
<1>4. CASE q = [r EXCEPT !.objects = Put(r.objects, o[1], o[2]), !.objectsDirty = TRUE,
                         !.objectBytes = BytesBeside(r, o[1]) + Len(o[2])]
  <2>1. PICK objects : objects = Put(r.objects, o[1], o[2])
    OBVIOUS
  <2>2. /\ DOMAIN q = Fields /\ q.objects = objects /\ q.objectsDirty = TRUE
        /\ Same(r, q, {"objects", "objectsDirty", "objectBytes"})
    BY <1>1, <1>4, <2>1 DEF Same, Fields, NewRecorder
  <2>3. /\ q.realtime = r.realtime /\ q.object = r.object /\ q.duration = r.duration
        /\ q.epochID = r.epochID /\ q.avmap = r.avmap /\ q.avmapDirty = r.avmapDirty
    BY <1>1, <2>2 DEF Same, Fields, NewRecorder
  <2>4. SameRecords(r, q)
    BY <1>1, <2>2 DEF Same, Fields, NewRecorder, SameRecords, SameTimes
  <2>5. Segments(q)
    BY <2>2, <2>3, <2>4 DEF Kept, Segments, SameRecords
  <2>6. IsObjects(objects)
    <3>1. o[1] \in Nat /\ o[2] \in Seq(Range(o[2]))
      BY InputAssumption
    <3>2. Range(o[2]) \subseteq Unit
      BY DEF Unit
    <3>3. o[2] \in ObjectBytes
      BY <3>1, <3>2 DEF ObjectBytes
    <3>4. /\ DOMAIN objects = DOMAIN r.objects \cup {o[1]} /\ objects[o[1]] = o[2]
          /\ \A id \in DOMAIN r.objects \ {o[1]} : objects[id] = r.objects[id]
      BY <2>1 DEF Put
    <3>5. /\ IsFiniteSet(DOMAIN r.objects) /\ DOMAIN r.objects \subseteq Nat
          /\ \A id \in DOMAIN r.objects : r.objects[id] \in ObjectBytes
      BY DEF Kept, IsObjects
    <3>6. IsFiniteSet(DOMAIN objects)
      BY <3>4, <3>5, FS_AddElement
    <3>7. QED BY <3>1, <3>3, <3>4, <3>5, <3>6 DEF IsObjects
  <2>7. MoreTold(r, q)
    BY <2>4 DEF MoreTold, SameOpen, SameRecords
  <2>8. QED BY <2>2, <2>3, <2>4, <2>5, <2>6, <2>7 DEF Carries, Kept, Trimmed, SameRecords, SameTimes
<1>5. QED BY <1>2, <1>3, <1>4 DEF AddObject

LEMMA AddItemFacts ==
  ASSUME NEW r, Kept(r), NEW o \in ObjectInputs, NEW q, q = AddItem(r, o[1], o[2])
  PROVE  Carries(r, q) /\ MoreTold(r, q) /\ q.err = r.err
<1>1. PICK a : a = AddObject(r, o[1], o[2])
  OBVIOUS
<1>2. Carries(r, a) /\ MoreTold(r, a) /\ (a.err # "object" => SameRecords(r, a))
  BY <1>1, AddObjectFacts
<1>3. CASE a.err # "object"
  <2>1. q = a
    BY <1>1, <1>3 DEF AddItem
  <2>2. QED BY <1>2, <1>3, <2>1 DEF SameRecords
<1>4. CASE a.err = "object"
  <2>1. PICK b : b = AddLoss(a, {})
    OBVIOUS
  <2>2. q = [b EXCEPT !.err = r.err]
    BY <1>1, <1>4, <2>1 DEF AddItem
  <2>3. /\ DOMAIN a = Fields /\ a.epochID \in Nat /\ a.losses \in Seq(Loss) /\ {} \in SUBSET Nat
        /\ Kept(a)
    BY <1>2 DEF Carries, Kept, Segments
  <2>4. /\ DOMAIN b = Fields /\ Same(a, b, {"losses"}) /\ b.losses \in Seq(Loss)
        /\ Lost(a.losses) \subseteq Lost(b.losses)
    BY <2>1, <2>3, AddLossFacts
  <2>5. /\ DOMAIN q = Fields /\ q.err = r.err /\ q.losses = b.losses
        /\ Same(a, q, {"losses", "err"})
    BY <2>2, <2>3, <2>4 DEF Same, Fields, NewRecorder
  <2>6. /\ q.realtime = a.realtime /\ q.object = a.object /\ q.duration = a.duration
        /\ q.objects = a.objects /\ q.objectsDirty = a.objectsDirty /\ q.epochID = a.epochID
        /\ q.avmap = a.avmap /\ q.avmapDirty = a.avmapDirty /\ SameOpen(a, q)
    BY <2>3, <2>5 DEF SameOpen, SameTimes, Same, Fields, NewRecorder
  <2>7. Segments(q)
    BY <2>3, <2>4, <2>5, <2>6 DEF Kept, Segments, SameOpen
  <2>8. Kept(q)
    BY <2>3, <2>6, <2>7 DEF Kept, SameOpen, SameTimes
  <2>9. Trimmed(r, q)
    BY <1>2, <2>6 DEF Carries, Trimmed
  <2>10. MoreTold(r, q)
    BY <1>2, <2>4, <2>5, <2>6 DEF MoreTold, SameOpen, SameTimes
  <2>11. QED BY <1>2, <2>5, <2>6, <2>8, <2>9, <2>10 DEF Carries
<1>5. QED BY <1>3, <1>4

LEMMA FlushedFacts ==
  ASSUME NEW r, Kept(r), NEW q, q = Flushed(r), NEW f, f = FlushOpen(r)
  PROVE  /\ Carries(r, q) /\ CloseKept(r, DOMAIN r.open, f)
         /\ q.objects = r.objects /\ q.lastAVMap = LongAgo
         /\ q.objects # Nothing => q.objectsDirty /\ q.lastCommit = LongAgo
         /\ SameRecords(f, q)
<1>1. CloseKept(r, DOMAIN r.open, f)
  BY CloseSegmentsFacts DEF FlushOpen, Kept
<1>2. Carries(r, f) /\ DOMAIN f = Fields /\ f.objects = r.objects
  BY <1>1, ClosedIsKept
<1>3. q = [f EXCEPT !.objectsDirty = f.objectsDirty \/ f.objects # Nothing,
                    !.lastCommit = IF f.objects # Nothing THEN LongAgo ELSE f.lastCommit,
                    !.lastAVMap = LongAgo]
  BY DEF Flushed
<1>4. /\ DOMAIN q = Fields /\ q.lastAVMap = LongAgo
      /\ q.objectsDirty = (f.objectsDirty \/ f.objects # Nothing)
      /\ q.lastCommit = IF f.objects # Nothing THEN LongAgo ELSE f.lastCommit
      /\ Same(f, q, {"objectsDirty", "lastCommit", "lastAVMap"})
  BY <1>2, <1>3 DEF Same, Fields, NewRecorder
<1>5. /\ q.realtime = f.realtime /\ q.object = f.object /\ q.duration = f.duration
      /\ q.epochID = f.epochID /\ q.avmap = f.avmap /\ q.avmapDirty = f.avmapDirty
      /\ q.objects = f.objects
  BY <1>2, <1>4 DEF Same, Fields, NewRecorder
<1>6. SameRecords(f, q)
  BY <1>2, <1>4 DEF Same, Fields, NewRecorder, SameRecords, SameTimes
<1>7. Kept(f)
  BY <1>2 DEF Carries
<1>8. Segments(q)
  BY <1>4, <1>5, <1>6, <1>7 DEF Kept, Segments, SameRecords
<1>9. q.objectsDirty \in BOOLEAN
  BY <1>4
<1>10. Kept(q)
  BY <1>5, <1>6, <1>7, <1>8, <1>9 DEF Kept, SameRecords, SameTimes
<1>11. Carries(r, q)
  BY <1>2, <1>5, <1>10 DEF Carries, Trimmed
<1>12. q.objects # Nothing => q.objectsDirty /\ q.lastCommit = LongAgo
  BY <1>4, <1>5
<1>13. QED BY <1>1, <1>2, <1>4, <1>5, <1>6, <1>11, <1>12
-----------------------------------------------------------------------------
(* The steps of the recorder.                                              *)

LEMMA AiredIsKept ==
  ASSUME NEW q, Kept(q), NEW p, NEW g, Aired(q, p, g)
  PROVE  Kept(p) /\ p.duration = q.duration /\ SameRecords(q, p)
<1>1. /\ DOMAIN p = Fields /\ Same(q, p, {"realtime", "object"})
      /\ Shape(p.realtime) /\ Shape(p.object)
  BY DEF Aired
<1>2. DOMAIN q = Fields
  BY DEF Kept, Segments
<1>3. SameRecords(q, p)
  BY <1>1, <1>2 DEF Same, Fields, NewRecorder, SameRecords, SameTimes
<1>4. /\ p.duration = q.duration /\ p.objects = q.objects /\ p.objectsDirty = q.objectsDirty
      /\ p.epochID = q.epochID /\ p.avmap = q.avmap /\ p.avmapDirty = q.avmapDirty
  BY <1>1, <1>2 DEF Same, Fields, NewRecorder
<1>5. Segments(p)
  BY <1>1, <1>3, <1>4 DEF Kept, Segments, SameRecords
<1>6. QED BY <1>1, <1>3, <1>4, <1>5 DEF Kept, SameRecords, SameTimes

\* r is installed at t, and q is it
InstalledOn(t, r, q) ==
  /\ r.err = "none" /\ Kept(q) /\ Fresh(heard, q.realtime, t)
  /\ Same(r, q, InstallFields)
  /\ SegmentsInstalled(r, q)
  /\ MapInstalled(t, r, q)
  /\ Committed(t, r, q)

LEMMA InstalledWhole ==
  ASSUME NEW t \in Nat, NEW r, Kept(r), Fresh(heard, r.realtime, t),
         NEW q, q = InstallAll(r, t), q.err = "none"
  PROVE  InstalledOn(t, r, q)
BY InstalledFacts DEF InstalledOn

\* an error ends the conversion
Failed == rec' = [rec EXCEPT !.err = rec'.err] /\ rec'.err # "none" /\ state' = "failed" /\ heard' = heard

LEMMA AirFacts ==
  ASSUME NEW t \in Nat, NEW q, NEW done, Air(q, t, done), Kept(rec),
         q.err = "none" => Kept(q) /\ Fresh(heard, q.realtime, t)
  PROVE  \/ Failed
         \/ q.err = "none" /\ Aired(q, rec', heard') /\ state' = done
<1>1. CASE q.err # "none"
  <2>1. rec' = [rec EXCEPT !.err = q.err] /\ state' = "failed" /\ heard' = heard
    BY <1>1 DEF Air
  <2>2. rec'.err = q.err
    BY <2>1 DEF Kept, Segments, Fields, NewRecorder
  <2>3. QED BY <1>1, <2>1, <2>2 DEF Failed
<1>2. CASE q.err = "none"
  <2>1. PICK p : p = rec'
    OBVIOUS
  <2>2. PICK g : g = heard'
    OBVIOUS
  <2>3. p = [q EXCEPT !.realtime = AfterEmit(q.realtime, t), !.object = AfterEmit(q.object, t)]
    BY <1>2, <2>1 DEF Air
  <2>7. g = Hears(Rebuilt(q.realtime, t), t)
    BY <1>2, <2>2 DEF Air
  <2>8. state' = done
    BY <1>2 DEF Air
  <2>9. t \in Int
    OBVIOUS
  <2>4. DOMAIN q = Fields /\ Shape(q.realtime) /\ Shape(q.object) /\ Fresh(heard, q.realtime, t)
    BY <1>2 DEF Kept, Segments
  <2>5. Aired(q, p, g)
    BY <2>3, <2>4, <2>7, <2>9, AiredFacts
  <2>6. QED BY <1>2, <2>1, <2>2, <2>5, <2>8
<1>3. QED BY <1>1, <1>2

LEMMA HeardIsFresh ==
  ASSUME NEW r, AllHeard(heard, r), NEW t
  PROVE  Fresh(heard, r.realtime, t)
BY DEF AllHeard, Fresh

LEMMA EmitSteps ==
  ASSUME NEW t \in Nat, Kept(rec), AllHeard(heard, rec), Emit(t),
         NEW q, q = InstallAll(rec, t)
  PROVE  Failed \/ (InstalledOn(t, rec, q) /\ Aired(q, rec', heard') /\ state' = "running")
<1>1. Fresh(heard, rec.realtime, t)
  BY HeardIsFresh
<1>2. q.err = "none" => InstalledOn(t, rec, q)
  BY <1>1, InstalledWhole
<1>3. Air(q, t, "running")
  BY DEF Emit
<1>4. q.err = "none" => Kept(q) /\ Fresh(heard, q.realtime, t)
  BY <1>2 DEF InstalledOn
<1>5. QED BY <1>2, <1>3, <1>4, AirFacts

LEMMA FinishSteps ==
  ASSUME NEW t \in Nat, Kept(rec), AllHeard(heard, rec), Finish(t),
         NEW r, r = Flushed(rec), NEW q, q = InstallAll(r, t), NEW q2, q2 = InstallAll(q, t)
  PROVE  \/ Failed
         \/ /\ InstalledOn(t, r, q) /\ InstalledOn(t, q, q2)
            /\ Aired(q2, rec', heard') /\ state' = "finished"
<1>1. Carries(rec, r)
  BY FlushedFacts
<1>2. Kept(r) /\ r.realtime = rec.realtime
  BY <1>1 DEF Carries
<1>3. Fresh(heard, r.realtime, t)
  BY <1>2, HeardIsFresh
<1>4. q.err = "none" => InstalledOn(t, r, q)
  BY <1>2, <1>3, InstalledWhole
<1>5. q2.err = "none" => q.err = "none"
  BY DEF InstallAll
<1>6. q2.err = "none" => InstalledOn(t, q, q2)
  <2>1. SUFFICES ASSUME q2.err = "none" PROVE InstalledOn(t, q, q2)
    OBVIOUS
  <2>2. Kept(q) /\ Fresh(heard, q.realtime, t)
    BY <1>4, <1>5, <2>1 DEF InstalledOn
  <2>3. QED BY <2>1, <2>2, InstalledWhole
<1>7. Air(q2, t, "finished")
  BY DEF Finish
<1>8. q2.err = "none" => Kept(q2) /\ Fresh(heard, q2.realtime, t)
  BY <1>6 DEF InstalledOn
<1>9. QED BY <1>4, <1>5, <1>6, <1>7, <1>8, AirFacts

LEMMA AroundFacts ==
  ASSUME NEW d \in Int, Kept(rec)
  PROVE  Around(d) \in Nat \ {0}
<1>1. rec.latestNTP \in Nat /\ FirstNTP \in Nat \ {0}
  BY InputAssumption DEF Kept
<1>2. PICK m : m = rec.latestNTP + d
  OBVIOUS
<1>5. m \in Int /\ 1 \in Int
  BY <1>1, <1>2
<1>3. Max({1, m}) \in {1, m} /\ Max({1, m}) >= 1
  BY <1>5, MaxOfTwo
<1>4. QED BY <1>1, <1>2, <1>3, <1>5 DEF Around

LEMMA NewRecordFacts ==
  ASSUME records \in Nat, NEW size \in Nat, NEW bulk \in BOOLEAN
  PROVE  NewRecord(size, bulk) \in Record /\ NewRecord(size, bulk).id = records + 1
BY DEF NewRecord, Record
-----------------------------------------------------------------------------
(* The AV map.                                                             *)

EntriesInv ==
  /\ entries \in Nat /\ records \in Nat /\ now \in Nat
  /\ 1 .. entries \subseteq Mapped \cup heard.entries
  /\ state = "running" => Kept(rec) /\ AllHeard(heard, rec) /\ Mapping(heard, entries, rec)
  /\ state = "finished" => 1 .. entries \subseteq heard.entries /\ ObjectsCommitted(rec)

\* a step that leaves the carousel and drops only what was on the air
LEMMA StepKeepsEntries ==
  ASSUME EntriesInv, Running, Kept(rec'), rec'.realtime = rec.realtime,
         Mapping(heard, entries', rec'),
         entries' \in Nat, records' \in Nat, now' = now, heard' = heard,
         state' \in {"running", "failed"}
  PROVE  EntriesInv'
<1>1. AllHeard(heard', rec')
  BY DEF EntriesInv, Running, AllHeard
<1>2. Mapping(heard', entries', rec')
  OBVIOUS
<1>3. 1 .. entries' \subseteq Mapped' \cup heard'.entries
  BY <1>2 DEF Mapping, Mapped
<1>4. QED BY <1>1, <1>2, <1>3 DEF EntriesInv

LEMMA FailureKeepsEntries ==
  ASSUME EntriesInv, Running, Failed, entries' = entries, records' = records, now' \in Nat
  PROVE  EntriesInv'
<1>1. Kept(rec)
  BY DEF EntriesInv, Running
<1>2. rec'.avmap = rec.avmap
  BY <1>1 DEF Failed, Kept, Segments, Fields, NewRecorder
<1>3. Mapped' = Mapped /\ state' = "failed" /\ heard' = heard
  BY <1>2 DEF Mapped, Failed
<1>4. QED BY <1>3 DEF EntriesInv

LEMMA CarriesKeepsEntries ==
  ASSUME EntriesInv, Running, Carries(rec, rec'),
         entries' = entries, records' \in Nat, now' = now, heard' = heard,
         state' \in {"running", "failed"}
  PROVE  EntriesInv'
<1>1. Kept(rec') /\ rec'.realtime = rec.realtime /\ Trimmed(rec, rec')
  BY DEF Carries
<1>2. Mapping(heard, entries, rec)
  BY DEF EntriesInv, Running
<1>3. Mapping(heard, entries, rec')
  BY <1>1, <1>2, TrimmedMapping
<1>4. entries' \in Nat /\ Mapping(heard, entries', rec')
  BY <1>3 DEF EntriesInv
<1>5. QED BY <1>1, <1>4, StepKeepsEntries

LEMMA CarriesTwice ==
  ASSUME NEW r, NEW q, NEW p, Carries(r, q), Carries(q, p)
  PROVE  Carries(r, p)
BY DEF Carries, Trimmed

LEMMA ObserveNTPFacts ==
  ASSUME Kept(rec), records \in Nat, NEW step \in Steps, ObserveNTP(Around(step))
  PROVE  Carries(rec, rec') /\ Kept(Observe(rec, Around(step)))
<1>1. Around(step) \in Nat
  BY InputAssumption, AroundFacts
<1>2. PICK r : r = Observe(rec, Around(step))
  OBVIOUS
<1>3. Carries(rec, r)
  BY <1>1, <1>2, ObserveCarries
<1>4. PICK x : x = NewRecord(1, FALSE)
  OBVIOUS
<1>5. x \in Record
  BY <1>4, NewRecordFacts
<1>6. PICK p : p = rec'
  OBVIOUS
<1>7. p = AddRecord(r, Around(step), x)
  BY <1>2, <1>4, <1>6 DEF ObserveNTP
<1>8. Kept(r)
  BY <1>3 DEF Carries
<1>9. Carries(r, p)
  BY <1>1, <1>5, <1>7, <1>8, AddRecordFacts
<1>10. QED BY <1>2, <1>3, <1>6, <1>8, <1>9, CarriesTwice

LEMMA TakeRecordFacts ==
  ASSUME Kept(rec), records \in Nat, NEW skew \in Skews, NEW x \in RecordInputs,
         TakeRecord(Around(skew), x[1], x[2])
  PROVE  Carries(rec, rec')
<1>1. Around(skew) \in Nat
  BY InputAssumption, AroundFacts
<1>2. x[1] \in Nat /\ x[2] \in BOOLEAN
  BY InputAssumption
<1>3. PICK y : y = NewRecord(x[1], x[2])
  OBVIOUS
<1>4. y \in Record
  BY <1>2, <1>3, NewRecordFacts
<1>5. PICK p : p = rec'
  OBVIOUS
<1>6. p = AddRecord(rec, Around(skew), y)
  BY <1>3, <1>5 DEF TakeRecord
<1>7. QED BY <1>1, <1>4, <1>5, <1>6, AddRecordFacts

LEMMA EmitKeepsEntries ==
  ASSUME EntriesInv, NEW t \in Nat, Emit(t)
  PROVE  EntriesInv'
<1>1. Running /\ entries' = entries /\ records' = records /\ now' = t
  BY DEF Emit
<1>2. Kept(rec) /\ AllHeard(heard, rec) /\ Mapping(heard, entries, rec)
  BY <1>1 DEF EntriesInv, Running
<1>3. PICK q : q = InstallAll(rec, t)
  OBVIOUS
<1>4. CASE Failed
  BY <1>1, <1>4, FailureKeepsEntries
<1>5. CASE InstalledOn(t, rec, q) /\ Aired(q, rec', heard') /\ state' = "running"
  <2>1. PICK p : p = rec'
    OBVIOUS
  <2>2. PICK g : g = heard'
    OBVIOUS
  <2>3. Kept(q) /\ MapInstalled(t, rec, q) /\ Aired(q, p, g) /\ t \in Int
    BY <1>5, <2>1, <2>2 DEF InstalledOn
  <2>4. Kept(p)
    BY <2>3, AiredIsKept
  <2>5. Mapping(g, entries, p) /\ AllHeard(g, p)
    BY <1>2, <2>3, EmittedMapping
  <2>6. Kept(rec') /\ Mapping(heard', entries', rec') /\ AllHeard(heard', rec')
    BY <1>1, <2>1, <2>2, <2>4, <2>5
  <2>7. 1 .. entries' \subseteq Mapped' \cup heard'.entries
    BY <2>6 DEF Mapping, Mapped
  <2>8. QED BY <1>1, <1>5, <2>6, <2>7 DEF EntriesInv
<1>6. QED BY <1>2, <1>3, <1>4, <1>5, EmitSteps

LEMMA FinishKeepsEntries ==
  ASSUME EntriesInv, NEW t \in Nat, Finish(t)
  PROVE  EntriesInv'
<1>1. Running /\ entries' = entries /\ records' = records /\ now' = now
  BY DEF Finish
<1>2. Kept(rec) /\ AllHeard(heard, rec) /\ Mapping(heard, entries, rec)
  BY <1>1 DEF EntriesInv, Running
<1>3. PICK r : r = Flushed(rec)
  OBVIOUS
<1>4. PICK q : q = InstallAll(r, t)
  OBVIOUS
<1>5. PICK q2 : q2 = InstallAll(q, t)
  OBVIOUS
<1>6. CASE Failed
  BY <1>1, <1>6, FailureKeepsEntries DEF EntriesInv
<1>7. CASE InstalledOn(t, r, q) /\ InstalledOn(t, q, q2) /\ Aired(q2, rec', heard') /\ state' = "finished"
  <2>1. PICK p : p = rec'
    OBVIOUS
  <2>2. PICK g : g = heard'
    OBVIOUS
  <2>3. Aired(q2, p, g)
    BY <1>7, <2>1, <2>2
  <2>4. /\ Kept(r) /\ Trimmed(rec, r) /\ r.lastAVMap = LongAgo
        /\ r.objects # Nothing => r.objectsDirty /\ r.lastCommit = LongAgo
    BY <1>2, <1>3, FlushedFacts DEF Carries
  <2>5. Mapping(heard, entries, r)
    BY <1>2, <2>4, TrimmedMapping
  <2>6. /\ MapInstalled(t, r, q) /\ Committed(t, r, q)
        /\ MapInstalled(t, q, q2) /\ Committed(t, q, q2)
    BY <1>7 DEF InstalledOn
  <2>7. 1 .. entries \subseteq g.entries
    BY <2>3, <2>4, <2>5, <2>6, FinishedMapping
  <2>8. q.objects = r.objects /\ q2.objects = q.objects
    BY <1>7, <2>4 DEF InstalledOn, Same, Kept, Segments, Fields, NewRecorder, InstallFields,
       CommitFields, BootstrapFields
  <2>9. ObjectsCommitted(p)
    BY <2>3, <2>4, <2>6, <2>8, FinishedObjects
  <2>10. 1 .. entries' \subseteq heard'.entries /\ ObjectsCommitted(rec')
    BY <1>1, <2>1, <2>2, <2>7, <2>9
  <2>11. QED BY <1>1, <1>7, <2>10 DEF EntriesInv
<1>8. QED BY <1>2, <1>3, <1>4, <1>5, <1>6, <1>7, FinishSteps

LEMMA InitEntries == Init => EntriesInv
<1>1. SUFFICES ASSUME Init PROVE EntriesInv
  OBVIOUS
<1>2. /\ DOMAIN NewRecorder = Fields
      /\ NewRecorder.realtime = NewCarousel(MaxRealtimeModules)
      /\ NewRecorder.object = NewCarousel(MaxModules)
      /\ NewRecorder.open = Nothing /\ NewRecorder.objects = Nothing
      /\ NewRecorder.avmap = {} /\ NewRecorder.avmapDirty = FALSE
      /\ NewRecorder.objectsDirty = FALSE
      /\ NewRecorder.pending = <<>> /\ NewRecorder.losses = <<>>
      /\ NewRecorder.duration = LongDuration /\ NewRecorder.epochID = 0
      /\ NewRecorder.closedSegments = 0 /\ NewRecorder.nextSeq = 0
      /\ NewRecorder.epochBase = 0 /\ NewRecorder.latestNTP = 0
  BY DEF Fields, NewRecorder
<1>3. DOMAIN Nothing = {} /\ IsFiniteSet({})
  BY FS_EmptySet DEF Nothing
<1>4. \A b : Shape(NewCarousel(b)) /\ NewCarousel(b).modules = Nothing
  BY <1>3 DEF Shape, CarouselFields, NewCarousel
<1>5. Segments(NewRecorder)
  <2>1. /\ <<>> \in Seq(PendingEntry) /\ <<>> \in Seq(Loss)
        /\ {} \subseteq Slot /\ FALSE \in BOOLEAN /\ 0 \in Nat /\ {} \subseteq Nat
    OBVIOUS
  <2>2. IsFiniteSet(DOMAIN NewRecorder.open) /\ DOMAIN NewRecorder.open = {}
    BY <1>2, <1>3
  <2>3. \A seq \in DOMAIN NewRecorder.open : NewRecorder.open[seq] \in Seq(Record)
    BY <2>2
  <2>4. QED BY <1>2, <2>1, <2>2, <2>3 DEF Segments
<1>6. Kept(NewRecorder)
  <2>1. IsObjects(NewRecorder.objects)
    BY <1>2, <1>3 DEF IsObjects
  <2>2. Shape(NewRecorder.realtime) /\ Shape(NewRecorder.object)
    BY <1>2, <1>4
  <2>5. NewRecorder.epochBase \in Nat /\ NewRecorder.latestNTP \in Nat
    BY <1>2
  <2>6. NewRecorder.objectsDirty \in BOOLEAN
    BY <1>2
  <2>3. NewRecorder.objectsDirty \in BOOLEAN /\ NewRecorder.epochBase \in Nat /\ NewRecorder.latestNTP \in Nat
    BY <2>5, <2>6
  <2>4. QED BY <1>5, <2>1, <2>2, <2>3 DEF Kept
<1>7. AllHeard(heard, NewRecorder)
  BY <1>2, <1>3, <1>4 DEF AllHeard
<1>8. Mapping(heard, 0, NewRecorder)
  BY <1>2 DEF Mapping
<1>9. rec = NewRecorder /\ now = 0 /\ state = "running" /\ records = 0 /\ entries = 0
  BY <1>1 DEF Init
<1>10. 1 .. entries \subseteq Mapped \cup heard.entries
  BY <1>9
<1>11. QED BY <1>6, <1>7, <1>8, <1>9, <1>10 DEF EntriesInv

LEMMA NextEntries == EntriesInv /\ [Next]_vars => EntriesInv'
<1>1. SUFFICES ASSUME EntriesInv, [Next]_vars PROVE EntriesInv'
  OBVIOUS
<1>2. Running => Kept(rec) /\ Mapping(heard, entries, rec)
  BY <1>1 DEF EntriesInv, Running
<1>3. entries \in Nat /\ records \in Nat /\ now \in Nat
  BY <1>1 DEF EntriesInv
<1>4. CASE \E step \in Steps : ObserveNTP(Around(step))
  <2>1. PICK step \in Steps : ObserveNTP(Around(step))
    BY <1>4
  <2>2. /\ Running /\ entries' = entries /\ records' = records + 1
        /\ now' = now /\ state' = state /\ heard' = heard
    BY <2>1 DEF ObserveNTP
  <2>3. Carries(rec, rec')
    BY <1>2, <1>3, <2>1, <2>2, ObserveNTPFacts
  <2>4. QED BY <1>1, <1>3, <2>2, <2>3, CarriesKeepsEntries DEF Running
<1>5. CASE \E skew \in Skews, x \in RecordInputs : TakeRecord(Around(skew), x[1], x[2])
  <2>1. PICK skew \in Skews, x \in RecordInputs : TakeRecord(Around(skew), x[1], x[2])
    BY <1>5
  <2>2. /\ Running /\ entries' = entries /\ records' = records + 1
        /\ now' = now /\ state' = state /\ heard' = heard
    BY <2>1 DEF TakeRecord
  <2>3. Carries(rec, rec')
    BY <1>2, <1>3, <2>1, <2>2, TakeRecordFacts
  <2>4. QED BY <1>1, <1>3, <2>2, <2>3, CarriesKeepsEntries DEF Running
<1>6. CASE Scrambled
  <2>1. /\ Running /\ entries' = entries /\ records' = records /\ rec' = UseShortSegments(rec)
        /\ now' = now /\ state' = state /\ heard' = heard
    BY <1>6 DEF Scrambled
  <2>2. Kept(rec') /\ Trimmed(rec, rec') /\ rec'.realtime = rec.realtime
    BY <1>2, <2>1, UseShortSegmentsFacts
  <2>3. Mapping(heard, entries', rec')
    BY <1>2, <2>1, <2>2, TrimmedMapping
  <2>4. QED BY <1>1, <1>3, <2>1, <2>2, <2>3, StepKeepsEntries DEF Running
<1>7. CASE CloseRun
  <2>1. /\ Running /\ entries' = entries + 1 /\ records' = records
        /\ rec' = AddAVMapEntry(rec, entries + 1)
        /\ now' = now /\ state' = state /\ heard' = heard
    BY <1>7 DEF CloseRun
  <2>2. Kept(rec') /\ rec'.realtime = rec.realtime /\ Mapping(heard, entries + 1, rec')
    BY <1>2, <1>3, <2>1, AddAVMapEntryFacts
  <2>3. QED BY <1>1, <1>3, <2>1, <2>2, StepKeepsEntries DEF Running
<1>8. CASE \E c \in CodecInputs : NoteConfig(c[1], c[2])
  <2>1. PICK c \in CodecInputs : NoteConfig(c[1], c[2])
    BY <1>8
  <2>2. /\ Running /\ entries' = entries /\ records' = records
        /\ rec' = SetCodecConfig(rec, c[1], c[2])
        /\ now' = now /\ state' = state /\ heard' = heard
    BY <2>1 DEF NoteConfig
  <2>3. Carries(rec, rec')
    BY <1>2, <2>2, SetCodecConfigFacts
  <2>4. QED BY <1>1, <1>3, <2>2, <2>3, CarriesKeepsEntries DEF Running
<1>9. CASE \E o \in ObjectInputs : TakeCaption(o[1], o[2])
  <2>1. PICK o \in ObjectInputs : TakeCaption(o[1], o[2])
    BY <1>9
  <2>2. /\ Running /\ entries' = entries /\ records' = records
        /\ rec' = AddObject(rec, o[1], o[2])
        /\ now' = now /\ state' \in {state, "failed"} /\ heard' = heard
    BY <2>1 DEF TakeCaption
  <2>3. Carries(rec, rec')
    BY <1>2, <2>2, AddObjectFacts
  <2>4. QED BY <1>1, <1>3, <2>2, <2>3, CarriesKeepsEntries DEF Running
<1>10. CASE \E o \in ObjectInputs : TakeItem(o[1], o[2])
  <2>1. PICK o \in ObjectInputs : TakeItem(o[1], o[2])
    BY <1>10
  <2>2. /\ Running /\ entries' = entries /\ records' = records
        /\ rec' = AddItem(rec, o[1], o[2])
        /\ now' = now /\ state' = state /\ heard' = heard
    BY <2>1 DEF TakeItem
  <2>3. Carries(rec, rec')
    BY <1>2, <2>2, AddItemFacts
  <2>4. QED BY <1>1, <1>3, <2>2, <2>3, CarriesKeepsEntries DEF Running
<1>11. CASE \E t \in now .. MaxNow : Emit(t)
  <2>1. MaxNow \in Nat
    BY InputAssumption
  <2>2. PICK t \in now .. MaxNow : Emit(t)
    BY <1>11
  <2>3. t \in Nat
    BY <1>3, <2>1
  <2>4. QED BY <1>1, <2>2, <2>3, EmitKeepsEntries
<1>12. CASE \E t \in 0 .. now : Finish(t)
  <2>1. PICK t \in 0 .. now : Finish(t)
    BY <1>12
  <2>2. t \in Nat
    BY <1>3
  <2>3. QED BY <1>1, <2>1, <2>2, FinishKeepsEntries
<1>13. CASE UNCHANGED vars
  BY <1>1, <1>13 DEF vars, EntriesInv, Mapped
<1>14. QED BY <1>1, <1>4, <1>5, <1>6, <1>7, <1>8, <1>9, <1>10, <1>11, <1>12, <1>13 DEF Next

(* trimAVMap, installAVMap's interval and Finish: however segments close,  *)
(* epochs start and emissions fall, an AV map entry is not dropped before  *)
(* it was on the air; after Finish all have been, and the objects are      *)
(* committed.                                                              *)
THEOREM EntriesAreCarried == Spec => []AVMapCarried
<1>1. EntriesInv => AVMapCarried
  BY DEF EntriesInv, AVMapCarried, ObjectsCommitted
<1>2. QED BY <1>1, InitEntries, NextEntries, PTL DEF Spec
-----------------------------------------------------------------------------
(* The records, under a punctual input.                                    *)

Bounds(advance, ahead) ==
  /\ \A d \in Steps : d <= ForwardJump => d <= advance * LongDuration
  /\ \A d \in Skews : d <= ahead * LongDuration
  /\ 0 < advance /\ advance + ahead <= RepeatWindow(NewRecorder)
  /\ RepeatWindow(NewRecorder) < Ring
  /\ MaxBatch <= 1

\* the segment of the latest reading
Cur(r) == SequenceOf(r, r.latestNTP)

\* the open segments are near it, and none was closed
Placed(r, advance, ahead) ==
  /\ r.latestNTP >= 1 /\ r.epochBase <= r.latestNTP
  /\ r.nextSeq <= Cur(r) /\ Cur(r) < r.nextSeq + advance
  /\ \A s \in DOMAIN r.open : r.nextSeq <= s /\ s <= Cur(r) + ahead

Orderly(r, advance, ahead) ==
  IF r.haveEpoch
  THEN Placed(r, advance, ahead) /\ Cur(r) \in DOMAIN r.open
  ELSE DOMAIN r.open = {} /\ r.nextSeq = 0

InOpen(r) == UNION {IDs(r.open[s]) : s \in DOMAIN r.open}

Covers(h, n, r) ==
  1 .. n \subseteq InOpen(r) \cup Queued(r.pending) \cup Lost(r.losses) \cup h.records \cup h.losses

\* b is how often segments closed since the last emission
Waits(h, n, b, r) ==
  /\ Distinct(r.pending)
  /\ b = 0 => r.pending = <<>>
  /\ Covers(h, n, r)

LEMMA WindowOfAll ==
  ASSUME NEW r, r.duration = LongDuration
  PROVE  RepeatWindow(r) = RepeatWindow(NewRecorder)
<1>1. NewRecorder.duration = LongDuration
  BY DEF NewRecorder
<1>2. QED BY <1>1 DEF RepeatWindow

LEMMA PlacedIsTight ==
  ASSUME NEW advance \in Nat, NEW ahead \in Nat, Bounds(advance, ahead),
         NEW r, Kept(r), r.duration = LongDuration, Placed(r, advance, ahead)
  PROVE  Tight(r, DOMAIN r.open)
<1>1. PICK w : w = RepeatWindow(r)
  OBVIOUS
<1>2. w \in Nat /\ advance + ahead <= w
  <2>1. w \in Nat \ {0}
    BY <1>1, WindowFacts DEF Kept, Segments
  <2>2. w = RepeatWindow(NewRecorder)
    BY <1>1, WindowOfAll
  <2>3. QED BY <2>1, <2>2 DEF Bounds
<1>3. PICK c : c = Cur(r)
  OBVIOUS
<1>4. c \in Nat /\ r.nextSeq \in Nat /\ DOMAIN r.open \subseteq Nat
  <2>1. r.latestNTP \in Nat
    BY DEF Kept
  <2>2. c \in Nat
    BY <1>3, <2>1, SequenceOfFacts DEF Cur
  <2>3. QED BY <2>2 DEF Kept, Segments
<1>5. ASSUME NEW a \in DOMAIN r.open, NEW b \in DOMAIN r.open PROVE a - b < w
  <2>1. a <= c + ahead /\ c < r.nextSeq + advance /\ r.nextSeq <= b
    BY <1>3 DEF Placed
  <2>2. QED BY <1>2, <1>4, <2>1
<1>6. QED BY <1>1, <1>5 DEF Tight

\* what closes waits
LEMMA CloseWaits ==
  ASSUME NEW advance \in Nat, NEW ahead \in Nat, Bounds(advance, ahead),
         NEW r, Kept(r), r.duration = LongDuration, Tight(r, DOMAIN r.open),
         NEW S, S \subseteq DOMAIN r.open, NEW q, CloseKept(r, S, q), q.err = "none",
         NEW h, NEW n, NEW b \in Nat, Waits(h, n, b, r),
         NEW c, c = IF q.closedSegments > r.closedSegments THEN 1 ELSE 0, b + c <= 1
  PROVE  Waits(h, n, b + c, q)
<1>1. CASE S = {}
  <2>1. q = r
    BY <1>1 DEF CloseKept
  <2>2. r.closedSegments \in Nat
    BY DEF Kept, Segments
  <2>3. c = 0
    BY <2>1, <2>2
  <2>4. QED BY <2>1, <2>3
<1>2. CASE S # {}
  <2>1. ClosedWell(r, S, q)
    BY DEF CloseKept
  <2>2. c = 1 /\ b = 0
    <3>1. q.closedSegments > r.closedSegments
      BY <1>2, <2>1 DEF ClosedWell
    <3>2. QED BY <3>1
  <2>3. r.pending = <<>>
    BY <2>2 DEF Waits
  <2>4. RepeatWindow(r) < Ring
    BY WindowOfAll DEF Bounds
  <2>5. Tight(r, S)
    BY DEF Tight
  <2>6. Distinct(q.pending)
    BY <2>1, <2>3, <2>4, <2>5 DEF ClosedWell
  <2>7. InOpen(r) \subseteq InOpen(q) \cup Queued(q.pending) \cup Lost(q.losses)
    <3>1. ASSUME NEW s \in DOMAIN r.open
          PROVE  IDs(r.open[s]) \subseteq InOpen(q) \cup Queued(q.pending) \cup Lost(q.losses)
      <4>1. CASE s \in S
        BY <2>1, <4>1 DEF ClosedWell
      <4>2. CASE s \notin S
        <5>1. s \in DOMAIN q.open /\ q.open[s] = r.open[s]
          BY <4>2 DEF CloseKept
        <5>2. QED BY <5>1 DEF InOpen
      <4>3. QED BY <4>1, <4>2
    <3>2. QED BY <3>1 DEF InOpen
  <2>8. Queued(r.pending) \subseteq Queued(q.pending) /\ Lost(r.losses) \subseteq Lost(q.losses)
    BY <2>1 DEF ClosedWell
  <2>9. Covers(h, n, q)
    BY <2>7, <2>8 DEF Waits, Covers
  <2>10. QED BY <2>2, <2>6, <2>9 DEF Waits
<1>3. QED BY <1>1, <1>2

\* how the segment of a time follows the time
LEMMA SequenceGrows ==
  ASSUME NEW r, Kept(r), r.duration = LongDuration, r.epochBase <= r.latestNTP,
         NEW ntp \in Nat, NEW f \in Nat, ntp <= r.latestNTP + f * LongDuration
  PROVE  /\ SequenceOf(r, ntp) <= Cur(r) + f
         /\ r.latestNTP <= ntp => Cur(r) <= SequenceOf(r, ntp)
<1>1. PICK d : d = LongDuration
  OBVIOUS
<1>2. d \in Int /\ d > 0 /\ d \in Nat
  BY <1>1, RecorderAssumption
<1>3. r.latestNTP \in Nat /\ r.epochBase \in Nat
  BY DEF Kept
<1>4. PICK a \in Nat : a = r.latestNTP - r.epochBase
  BY <1>3
<1>5. 0 \div d = 0
  <2>1. 0 = d * (0 \div d) + (0 % d) /\ 0 \div d \in Nat /\ 0 % d \in Nat
    BY <1>2, Division, Quotient
  <2>2. d * (0 \div d) >= 0 \div d
    BY <1>2, <2>1
  <2>3. QED BY <1>2, <2>1, <2>2
<1>6. Cur(r) = a \div d
  <2>1. CASE r.latestNTP <= r.epochBase
    BY <1>1, <1>3, <1>4, <1>5, <2>1 DEF Cur, SequenceOf
  <2>2. CASE ~ (r.latestNTP <= r.epochBase)
    BY <1>1, <1>4, <2>2 DEF Cur, SequenceOf
  <2>3. QED BY <2>1, <2>2
<1>7. a \div d \in Nat
  BY <1>2, Quotient
<1>8. CASE ntp <= r.epochBase
  <2>1. SequenceOf(r, ntp) = 0
    BY <1>8 DEF SequenceOf
  <2>2. r.latestNTP <= ntp => a = 0
    BY <1>3, <1>4, <1>8
  <2>3. QED BY <1>5, <1>6, <1>7, <2>1, <2>2
<1>9. CASE ~ (ntp <= r.epochBase)
  <2>1. PICK b \in Nat : b = ntp - r.epochBase
    BY <1>3, <1>9
  <2>2. SequenceOf(r, ntp) = b \div d
    BY <1>1, <1>9, <2>1 DEF SequenceOf
  <2>3. b <= a + f * d
    <3>1. PICK k \in Nat : k = f * d
      BY <1>2
    <3>2. QED BY <1>1, <1>3, <1>4, <2>1, <3>1
  <2>4. b \div d <= a \div d + f
    BY <1>2, <2>3, QuotientGrows
  <2>5. r.latestNTP <= ntp => a \div d <= b \div d
    <3>1. r.latestNTP <= ntp => a <= b
      BY <1>3, <1>4, <2>1
    <3>2. QED BY <1>2, <3>1, QuotientMonotone
  <2>6. QED BY <1>6, <2>2, <2>4, <2>5
<1>10. QED BY <1>8, <1>9

\* r is ready for a record of ntp
Opening(r, advance, ahead, ntp) ==
  /\ r.haveEpoch
  /\ Placed(r, advance, ahead)
  /\ SequenceOf(r, ntp) <= Cur(r) + ahead
  /\ Cur(r) \in DOMAIN r.open \/ SequenceOf(r, ntp) = Cur(r)

LEMMA CurIsNat ==
  ASSUME NEW r, Kept(r)
  PROVE  Cur(r) \in Nat /\ r.nextSeq \in Nat /\ DOMAIN r.open \subseteq Nat
<1>1. r.latestNTP \in Nat
  BY DEF Kept
<1>2. Cur(r) \in Nat
  BY <1>1, SequenceOfFacts DEF Cur
<1>3. QED BY <1>2 DEF Kept, Segments

LEMMA AddedOrderly ==
  ASSUME NEW advance \in Nat, NEW ahead \in Nat, NEW r, Kept(r), NEW ntp \in Nat,
         Opening(r, advance, ahead, ntp),
         NEW seq, seq = SegmentFor(r, ntp), NEW x, NEW p, Added(r, p, seq, x),
         p.duration = r.duration
  PROVE  Orderly(p, advance, ahead)
<1>1. PICK c : c = Cur(r)
  OBVIOUS
<1>2. PICK k : k = SequenceOf(r, ntp)
  OBVIOUS
<1>3. c \in Nat /\ k \in Nat /\ r.nextSeq \in Nat /\ DOMAIN r.open \subseteq Nat
  BY <1>1, <1>2, CurIsNat, SequenceOfFacts
<1>4. /\ r.latestNTP >= 1 /\ r.epochBase <= r.latestNTP
      /\ r.nextSeq <= c /\ c < r.nextSeq + advance
      /\ \A s \in DOMAIN r.open : r.nextSeq <= s /\ s <= c + ahead
      /\ k <= c + ahead /\ (c \in DOMAIN r.open \/ k = c)
  BY <1>1, <1>2 DEF Opening, Placed
<1>5. /\ seq \in Nat
      /\ \/ seq \in DOMAIN r.open
         \/ seq = k /\ (k < r.nextSeq => DOMAIN r.open = {})
      /\ k \in DOMAIN r.open \/ ~ (k < r.nextSeq) => seq = k
  BY <1>2, SegmentForFacts
<1>6. r.nextSeq <= seq /\ seq <= c + ahead
  BY <1>3, <1>4, <1>5
<1>7. c \in DOMAIN r.open \cup {seq}
  BY <1>3, <1>4, <1>5
<1>8. Cur(p) = c
  BY <1>1 DEF Cur, SequenceOf, Added, SameTimes
<1>9. Placed(p, advance, ahead)
  BY <1>4, <1>6, <1>8 DEF Added, SameTimes, Placed
<1>10. QED BY <1>7, <1>8, <1>9 DEF Opening, Orderly, Added, SameTimes

LEMMA AddedWaits ==
  ASSUME NEW r, NEW seq, NEW x, NEW p, Added(r, p, seq, x),
         NEW h, NEW n \in Nat, NEW b, Waits(h, n, b, r), x.id = n + 1
  PROVE  Waits(h, n + 1, b, p)
<1>1. p.pending = r.pending /\ p.losses = r.losses
  BY DEF Added
<1>2. InOpen(r) \cup {n + 1} \subseteq InOpen(p)
  BY DEF Added, InOpen
<1>3. 1 .. n + 1 \subseteq 1 .. n \cup {n + 1}
  OBVIOUS
<1>4. Covers(h, n + 1, p)
  BY <1>1, <1>2, <1>3 DEF Waits, Covers
<1>5. QED BY <1>1, <1>4 DEF Waits

\* an epoch starts: nothing is open, and the segment of its first time is next
LEMMA EpochOpens ==
  ASSUME NEW advance \in Nat, 0 < advance, NEW ahead \in Nat, NEW ntp \in Nat \ {0},
         NEW r, r.haveEpoch = TRUE, r.latestNTP = ntp, r.epochBase = ntp,
         DOMAIN r.open = {}, r.nextSeq = 0
  PROVE  Opening(r, advance, ahead, ntp)
<1>1. SequenceOf(r, ntp) = 0 /\ Cur(r) = 0
  BY DEF SequenceOf, Cur
<1>2. Placed(r, advance, ahead)
  BY <1>1 DEF Placed
<1>3. QED BY <1>1, <1>2 DEF Opening

\* a reading of an epoch that goes on: s has it, q has closed what is due
LEMMA ElapsedOpens ==
  ASSUME NEW advance \in Nat, NEW ahead \in Nat, NEW r, Kept(r), r.duration = LongDuration,
         Placed(r, advance, ahead), Cur(r) \in DOMAIN r.open, r.haveEpoch,
         NEW ntp \in Nat, ntp <= r.latestNTP + advance * LongDuration,
         NEW s, Kept(s), Same(r, s, {"latestNTP"}), s.latestNTP = Max({r.latestNTP, ntp}),
         NEW S, S = {seq \in DOMAIN s.open : seq < SequenceOf(s, s.latestNTP)},
         NEW q, Kept(q), CloseKept(s, S, q), SameTimes(s, q), q.duration = r.duration,
         q.err = "none"
  PROVE  Opening(q, advance, ahead, ntp)
<1>1. /\ s.haveEpoch = r.haveEpoch /\ s.epochBase = r.epochBase /\ s.duration = r.duration
      /\ s.open = r.open /\ s.nextSeq = r.nextSeq
  BY DEF Same, Kept, Segments, Fields, NewRecorder
<1>2. r.latestNTP \in Nat /\ r.epochBase \in Nat /\ r.latestNTP >= 1 /\ r.epochBase <= r.latestNTP
  BY DEF Kept, Placed
<1>3. /\ s.latestNTP \in {r.latestNTP, ntp} /\ s.latestNTP >= r.latestNTP /\ s.latestNTP >= ntp
  <2>1. r.latestNTP \in Int /\ ntp \in Int
    BY <1>2
  <2>2. PICK m : m = Max({r.latestNTP, ntp})
    OBVIOUS
  <2>3. m \in {r.latestNTP, ntp} /\ m >= r.latestNTP /\ m >= ntp
    BY <2>1, <2>2, MaxOfTwo
  <2>4. QED BY <2>2, <2>3
<1>4. PICK c : c = Cur(r)
  OBVIOUS
<1>5. PICK e : e = Cur(s)
  OBVIOUS
<1>6. PICK k : k = SequenceOf(r, ntp)
  OBVIOUS
<1>7. c \in Nat /\ e \in Nat /\ k \in Nat /\ r.nextSeq \in Nat /\ DOMAIN r.open \subseteq Nat
  BY <1>4, <1>5, <1>6, CurIsNat, SequenceOfFacts
<1>8. /\ r.nextSeq <= c /\ c < r.nextSeq + advance /\ c \in DOMAIN r.open
      /\ \A o \in DOMAIN r.open : r.nextSeq <= o /\ o <= c + ahead
  BY <1>4 DEF Placed
<1>9. e = SequenceOf(r, s.latestNTP)
  BY <1>1, <1>5 DEF Cur, SequenceOf
<1>10. SequenceOf(s, s.latestNTP) = e /\ SequenceOf(q, ntp) = k /\ Cur(q) = e
  BY <1>1, <1>5, <1>6 DEF Cur, SequenceOf, SameTimes
<1>11. c <= e /\ e <= c + advance /\ k <= e /\ (k = e \/ c = e)
  <2>1. /\ k <= c + advance
        /\ r.latestNTP <= ntp => c <= k
    BY <1>2, <1>4, <1>6, SequenceGrows
  <2>2. CASE s.latestNTP = ntp
    BY <1>3, <1>6, <1>7, <1>9, <2>1, <2>2
  <2>3. CASE s.latestNTP = r.latestNTP
    <3>1. e = c
      BY <1>4, <1>9, <2>3 DEF Cur
    <3>2. ntp <= r.latestNTP + 0 * LongDuration
      <4>1. LongDuration \in Nat
        BY RecorderAssumption
      <4>2. 0 * LongDuration = 0
        BY <4>1
      <4>3. QED BY <1>2, <1>3, <2>3, <4>2
    <3>3. k <= c + 0
      BY <1>2, <1>4, <1>6, <3>2, SequenceGrows
    <3>4. QED BY <1>7, <3>1, <3>3
  <2>4. QED BY <1>3, <2>2, <2>3
<1>12. S = {seq \in DOMAIN r.open : seq < e} /\ DOMAIN q.open = DOMAIN r.open \ S
  BY <1>1, <1>10 DEF CloseKept
<1>13. /\ r.nextSeq <= q.nextSeq /\ q.nextSeq <= e
       /\ \A o \in S : o < q.nextSeq
       /\ q.nextSeq \in Nat
  <2>1. q.nextSeq \in Nat
    BY DEF Kept, Segments
  <2>2. CASE S = {}
    <3>3. q = s
      BY <2>2 DEF CloseKept
    <3>1. q.nextSeq = r.nextSeq
      BY <1>1, <3>3
    <3>4. r.nextSeq <= c /\ c <= e
      BY <1>8, <1>11
    <3>5. r.nextSeq <= q.nextSeq /\ q.nextSeq <= e
      BY <1>7, <3>1, <3>4
    <3>6. \A o \in S : o < q.nextSeq
      BY <2>2
    <3>2. QED BY <2>1, <3>5, <3>6
  <2>3. CASE S # {}
    <3>1. (\A o \in S : o < q.nextSeq) /\ \E o \in S : q.nextSeq = o + 1
      BY <2>3 DEF CloseKept, ClosedWell
    <3>2. PICK o \in S : q.nextSeq = o + 1
      BY <3>1
    <3>3. o \in Nat /\ o < e /\ r.nextSeq <= o
      BY <1>7, <1>8, <1>12
    <3>4. QED BY <1>7, <2>1, <3>1, <3>2, <3>3
  <2>4. QED BY <2>2, <2>3
<1>14. e < q.nextSeq + advance
  <2>1. CASE c < e
    <3>1. c \in S
      BY <1>8, <1>12, <2>1
    <3>2. c < q.nextSeq
      BY <1>13, <3>1
    <3>3. QED BY <1>7, <1>11, <1>13, <3>2
  <2>2. CASE c = e
    BY <1>7, <1>8, <1>13, <2>2
  <2>3. QED BY <1>7, <1>11, <2>1, <2>2
<1>15. ASSUME NEW o \in DOMAIN q.open PROVE q.nextSeq <= o /\ o <= e + ahead
  <2>1. o \in DOMAIN r.open /\ ~ (o < e) /\ o \in Nat
    BY <1>7, <1>12
  <2>2. o <= c + ahead
    BY <1>8, <2>1
  <2>3. QED BY <1>7, <1>11, <1>13, <2>1, <2>2
<1>16. q.latestNTP >= 1 /\ q.epochBase <= q.latestNTP
  <2>1. q.latestNTP = s.latestNTP /\ q.epochBase = r.epochBase
    BY <1>1 DEF SameTimes
  <2>2. s.latestNTP \in Nat
    BY DEF Kept
  <2>3. QED BY <1>2, <1>3, <2>1, <2>2
<1>17. Placed(q, advance, ahead)
  BY <1>10, <1>13, <1>14, <1>15, <1>16 DEF Placed
<1>18. e \in DOMAIN q.open \/ k = e
  BY <1>8, <1>11, <1>12, <1>7
<1>19. k <= e + ahead
  BY <1>7, <1>11
<1>20. q.haveEpoch
  BY <1>1 DEF SameTimes
<1>21. QED BY <1>10, <1>17, <1>18, <1>19, <1>20 DEF Opening

Closed(r, q) == IF q.closedSegments > r.closedSegments THEN 1 ELSE 0

\* an observation, before its record: r is observed at ntp, q is the result
LEMMA ObserveOpens ==
  ASSUME NEW advance \in Nat, NEW ahead \in Nat, Bounds(advance, ahead),
         NEW r, Kept(r), r.duration = LongDuration, Orderly(r, advance, ahead),
         NEW ntp \in Nat \ {0},
         r.haveEpoch /\ ntp <= r.latestNTP + ForwardJump => ntp <= r.latestNTP + advance * LongDuration,
         NEW h, NEW n, NEW b \in Nat, Waits(h, n, b, r),
         NEW q, q = Observe(r, ntp), q.err = "none", b + Closed(r, q) <= 1
  PROVE  Opening(q, advance, ahead, ntp) /\ Waits(h, n, b + Closed(r, q), q)
<1>1. ntp \in Nat /\ 0 < advance
  BY DEF Bounds
<1>2. CASE ~ r.haveEpoch
  <2>1. Started(r, q, ntp)
    BY <1>1, <1>2, StartEpochFacts DEF Observe
  <2>2. DOMAIN r.open = {} /\ r.nextSeq = 0
    BY <1>2 DEF Orderly
  <2>3. Opening(q, advance, ahead, ntp)
    BY <1>1, <2>1, <2>2, EpochOpens DEF Started
  <2>4. Closed(r, q) = 0
    <3>1. q.closedSegments = r.closedSegments /\ r.closedSegments \in Nat
      BY <2>1 DEF Started, Kept, Segments
    <3>2. QED BY <3>1 DEF Closed
  <2>5. Waits(h, n, b, q)
    BY <2>1 DEF Started, Waits, Covers, InOpen
  <2>6. QED BY <2>3, <2>4, <2>5
<1>3. CASE r.haveEpoch /\ Jumps(r, ntp)
  <2>1. PICK f : f = FlushOpen(r)
    OBVIOUS
  <2>2. q = NewEpoch(r, ntp)
    BY <1>3 DEF Observe
  <2>14. Renewed(r, f, q, ntp)
    BY <1>1, <2>1, <2>2, NewEpochFacts
  <2>3. /\ CloseKept(r, DOMAIN r.open, f)
        /\ q.haveEpoch = TRUE /\ q.latestNTP = ntp /\ q.epochBase = ntp
        /\ q.open = Nothing /\ q.nextSeq = 0 /\ q.err = f.err
        /\ q.pending = f.pending /\ q.losses = f.losses /\ q.closedSegments = f.closedSegments
    BY <2>14 DEF Renewed
  <2>4. DOMAIN Nothing = {}
    BY DEF Nothing
  <2>5. Opening(q, advance, ahead, ntp)
    BY <1>1, <2>3, <2>4, EpochOpens
  <2>6. Tight(r, DOMAIN r.open)
    BY <1>3, PlacedIsTight DEF Orderly
  <2>7. PICK c : c = Closed(r, q)
    OBVIOUS
  <2>8. c = (IF f.closedSegments > r.closedSegments THEN 1 ELSE 0) /\ b + c <= 1
    BY <2>3, <2>7 DEF Closed
  <2>9. f.err = "none" /\ DOMAIN r.open \subseteq DOMAIN r.open
    BY <2>3
  <2>10. Waits(h, n, b + c, f)
    BY <2>3, <2>6, <2>8, <2>9, CloseWaits
  <2>11. InOpen(f) = {} /\ InOpen(q) = {}
    BY <2>3, <2>4 DEF InOpen, CloseKept
  <2>12. Waits(h, n, b + c, q)
    BY <2>3, <2>10, <2>11 DEF Waits, Covers
  <2>13. QED BY <2>5, <2>7, <2>12
<1>4. CASE r.haveEpoch /\ ~ Jumps(r, ntp)
  <2>1. PICK s : s = [r EXCEPT !.latestNTP = Max({r.latestNTP, ntp})]
    OBVIOUS
  <2>2. PICK S : S = {seq \in DOMAIN s.open : seq < SequenceOf(s, s.latestNTP)}
    OBVIOUS
  <2>3. q = CloseElapsed(s)
    BY <1>4, <2>1 DEF Observe
  <2>18. Elapsed(r, s, S, q, ntp)
    BY <1>1, <2>1, <2>2, <2>3, CloseElapsedFacts
  <2>4. /\ Carries(r, q) /\ CloseKept(s, S, q)
        /\ Same(r, s, {"latestNTP"}) /\ s.latestNTP = Max({r.latestNTP, ntp})
        /\ q.haveEpoch = r.haveEpoch /\ q.latestNTP = s.latestNTP /\ q.epochBase = r.epochBase
    BY <2>18 DEF Elapsed
  <2>5. /\ DOMAIN s = Fields /\ s.haveEpoch = r.haveEpoch /\ s.epochBase = r.epochBase
        /\ s.open = r.open /\ s.nextSeq = r.nextSeq /\ s.err = r.err
        /\ s.pending = r.pending /\ s.losses = r.losses /\ s.closedSegments = r.closedSegments
        /\ s.realtime = r.realtime /\ s.object = r.object /\ s.duration = r.duration
        /\ s.objects = r.objects /\ s.objectsDirty = r.objectsDirty
        /\ s.avmap = r.avmap /\ s.avmapDirty = r.avmapDirty /\ s.epochID = r.epochID
    BY <2>4 DEF Same, Kept, Segments, Fields, NewRecorder
  <2>6. Kept(s)
    <3>1. r.latestNTP \in Nat /\ r.latestNTP \in Int /\ ntp \in Int
      BY DEF Kept
    <3>2. Max({r.latestNTP, ntp}) \in {r.latestNTP, ntp}
      BY <3>1, MaxOfTwo
    <3>3. s.latestNTP \in Nat
      BY <1>1, <2>4, <3>1, <3>2
    <3>4. QED BY <2>5, <3>3 DEF Kept, Segments
  <2>7. Kept(q) /\ SameTimes(s, q) /\ q.duration = r.duration
    BY <2>4, <2>5 DEF Carries, SameTimes
  <2>8. Placed(r, advance, ahead) /\ Cur(r) \in DOMAIN r.open
    BY <1>4 DEF Orderly
  <2>9. ntp <= r.latestNTP + advance * LongDuration
    <3>1. r.latestNTP \in Nat /\ ForwardJump \in Nat
      BY RecorderAssumption DEF Kept
    <3>2. ntp <= r.latestNTP + ForwardJump
      BY <1>1, <1>4, <3>1 DEF Jumps
    <3>3. QED BY <1>4, <3>2
  <2>10. Opening(q, advance, ahead, ntp)
    BY <1>1, <1>4, <2>2, <2>4, <2>6, <2>7, <2>8, <2>9, ElapsedOpens
  <2>11. Tight(s, DOMAIN s.open)
    <3>1. Tight(r, DOMAIN r.open)
      BY <2>8, PlacedIsTight
    <3>2. QED BY <2>5, <3>1 DEF Tight, RepeatWindow
  <2>12. Waits(h, n, b, s)
    BY <2>5 DEF Waits, Covers, InOpen
  <2>13. PICK c : c = Closed(r, q)
    OBVIOUS
  <2>14. c = (IF q.closedSegments > s.closedSegments THEN 1 ELSE 0) /\ b + c <= 1
    BY <2>5, <2>13 DEF Closed
  <2>15. S \subseteq DOMAIN s.open /\ s.duration = LongDuration
    BY <2>2, <2>5
  <2>16. Waits(h, n, b + c, q)
    BY <2>4, <2>6, <2>11, <2>12, <2>14, <2>15, CloseWaits
  <2>17. QED BY <2>10, <2>13, <2>16
<1>5. QED BY <1>2, <1>3, <1>4

LEMMA ObserveErr ==
  ASSUME NEW r, Kept(r), NEW ntp \in Nat, NEW q, q = Observe(r, ntp), q.err = "none"
  PROVE  r.err = "none"
<1>1. CASE ~ r.haveEpoch
  <2>1. Started(r, q, ntp)
    BY <1>1, StartEpochFacts DEF Observe
  <2>2. QED BY <2>1 DEF Started
<1>2. CASE r.haveEpoch /\ Jumps(r, ntp)
  <2>1. PICK f : f = FlushOpen(r)
    OBVIOUS
  <2>2. q = NewEpoch(r, ntp)
    BY <1>2 DEF Observe
  <2>3. Renewed(r, f, q, ntp)
    BY <2>1, <2>2, NewEpochFacts
  <2>4. QED BY <2>3 DEF Renewed, CloseKept, ClosedWell
<1>3. CASE r.haveEpoch /\ ~ Jumps(r, ntp)
  <2>1. PICK s : s = [r EXCEPT !.latestNTP = Max({r.latestNTP, ntp})]
    OBVIOUS
  <2>2. PICK S : S = {seq \in DOMAIN s.open : seq < SequenceOf(s, s.latestNTP)}
    OBVIOUS
  <2>3. q = CloseElapsed(s)
    BY <1>3, <2>1 DEF Observe
  <2>4. Elapsed(r, s, S, q, ntp)
    BY <2>1, <2>2, <2>3, CloseElapsedFacts
  <2>5. s.err = "none"
    BY <2>4 DEF Elapsed, CloseKept, ClosedWell
  <2>6. s.err = r.err
    BY <2>4 DEF Elapsed, Same, Kept, Segments, Fields, NewRecorder
  <2>7. QED BY <2>5, <2>6
<1>4. QED BY <1>1, <1>2, <1>3

\* a record joins what waits
LEMMA RecordTaken ==
  ASSUME NEW advance \in Nat, NEW ahead \in Nat, NEW r, Kept(r), NEW ntp \in Nat,
         NEW ready, ready = IF r.haveEpoch THEN r ELSE StartEpoch(r, ntp),
         Opening(ready, advance, ahead, ntp),
         NEW h, NEW n \in Nat, NEW b, Waits(h, n, b, ready),
         NEW x \in Record, x.id = n + 1, NEW q, q = AddRecord(r, ntp, x)
  PROVE  Orderly(q, advance, ahead) /\ Waits(h, n + 1, b, q)
<1>1. PICK seq : seq = SegmentFor(ready, ntp)
  OBVIOUS
<1>2. Carries(r, q) /\ Kept(ready) /\ Added(ready, q, seq, x)
  BY <1>1, AddRecordFacts
<1>3. ready.duration = r.duration
  <2>1. CASE r.haveEpoch
    BY <2>1
  <2>2. CASE ~ r.haveEpoch
    BY <2>2, StartEpochFacts DEF Carries
  <2>3. QED BY <2>1, <2>2
<1>4. q.duration = ready.duration
  BY <1>2, <1>3 DEF Carries
<1>5. Orderly(q, advance, ahead)
  BY <1>1, <1>2, <1>4, AddedOrderly
<1>6. Waits(h, n + 1, b, q)
  BY <1>2, AddedWaits
<1>7. QED BY <1>5, <1>6

RecordsInv(advance, ahead) ==
  /\ batch \in Nat
  /\ state \in {"running", "finished", "failed"}
  /\ state = "failed" => rec.err # "none"
  /\ rec.err = "none" /\ rec.duration = LongDuration /\ state = "running" =>
       Orderly(rec, advance, ahead) /\ Waits(heard, records, batch, rec)
  /\ rec.err = "none" /\ rec.duration = LongDuration /\ state = "finished" =>
       1 .. records \subseteq heard.records \cup heard.losses

LEMMA ObserveKeepsRecords ==
  ASSUME NEW advance \in Nat, NEW ahead \in Nat, Bounds(advance, ahead),
         EntriesInv, RecordsInv(advance, ahead), NEW step \in Steps, ObserveNTP(Around(step))
  PROVE  RecordsInv(advance, ahead)'
<1>1. PICK ntp : ntp = Around(step)
  OBVIOUS
<1>2. PICK r : r = Observe(rec, ntp)
  OBVIOUS
<1>3. PICK x : x = NewRecord(1, FALSE)
  OBVIOUS
<1>4. PICK p : p = rec'
  OBVIOUS
<1>5. /\ Running /\ batch' = batch + Closed(rec, r) /\ batch' <= MaxBatch
      /\ p = AddRecord(r, ntp, x) /\ records' = records + 1
      /\ state' = state /\ heard' = heard
  BY <1>1, <1>2, <1>3, <1>4 DEF ObserveNTP, Closes, Closed
<1>6. Kept(rec) /\ records \in Nat /\ state = "running"
  BY <1>5 DEF EntriesInv, Running
<1>7. ntp \in Nat \ {0} /\ step \in Int
  BY <1>1, <1>6, AroundFacts, InputAssumption
<1>8. x \in Record /\ x.id = records + 1
  BY <1>3, <1>6, NewRecordFacts
<1>9. Carries(rec, r) /\ Kept(r)
  BY <1>2, <1>6, <1>7, ObserveCarries DEF Carries
<1>10. batch' \in Nat
  BY <1>5 DEF RecordsInv, Closed
<1>11. SUFFICES ASSUME rec'.err = "none", rec'.duration = LongDuration
                PROVE  Orderly(p, advance, ahead) /\ Waits(heard, records + 1, batch', p)
  BY <1>4, <1>5, <1>6, <1>10 DEF RecordsInv
<1>12. PICK ready : ready = IF r.haveEpoch THEN r ELSE StartEpoch(r, ntp)
  OBVIOUS
<1>13. PICK seq : seq = SegmentFor(ready, ntp)
  OBVIOUS
<1>14. Carries(r, p) /\ Added(ready, p, seq, x)
  BY <1>5, <1>7, <1>8, <1>9, <1>12, <1>13, AddRecordFacts
<1>15. r.err = "none"
  <2>1. CASE r.haveEpoch
    BY <1>4, <1>11, <1>12, <1>14, <2>1 DEF Added
  <2>2. CASE ~ r.haveEpoch
    <3>1. ntp \in Nat
      BY <1>7
    <3>2. Started(r, ready, ntp)
      BY <1>9, <1>12, <2>2, <3>1, StartEpochFacts
    <3>3. QED BY <1>4, <1>11, <1>14, <3>2 DEF Added, Started
  <2>3. QED BY <2>1, <2>2
<1>16. rec.err = "none" /\ rec.duration = LongDuration
  BY <1>2, <1>4, <1>6, <1>7, <1>9, <1>11, <1>14, <1>15, ObserveErr DEF Carries
<1>17. Orderly(rec, advance, ahead) /\ Waits(heard, records, batch, rec) /\ batch \in Nat
  BY <1>6, <1>16 DEF RecordsInv
<1>18. rec.haveEpoch /\ ntp <= rec.latestNTP + ForwardJump =>
         ntp <= rec.latestNTP + advance * LongDuration
  <2>1. SUFFICES ASSUME rec.haveEpoch, ntp <= rec.latestNTP + ForwardJump
                 PROVE  ntp <= rec.latestNTP + advance * LongDuration
    OBVIOUS
  <2>2. rec.latestNTP \in Nat /\ rec.latestNTP >= 1
    BY <1>6, <1>17, <2>1 DEF Kept, Orderly, Placed
  <2>3. LongDuration \in Nat /\ ForwardJump \in Nat
    BY RecorderAssumption
  <2>4. PICK k \in Nat : k = advance * LongDuration
    BY <2>3
  <2>5. PICK m : m = rec.latestNTP + step
    OBVIOUS
  <2>6. m \in Int /\ 1 \in Int
    BY <1>7, <2>2, <2>5
  <2>7. Max({1, m}) \in {1, m}
    BY <2>6, MaxOfTwo
  <2>8. ntp \in {1, m}
    BY <1>1, <2>1, <2>5, <2>7 DEF Around
  <2>9. CASE ntp = 1
    BY <2>2, <2>4, <2>9
  <2>10. CASE ntp = m
    <3>1. step <= ForwardJump
      BY <1>7, <2>1, <2>2, <2>3, <2>5, <2>10
    <3>2. step <= k
      BY <2>4, <3>1 DEF Bounds
    <3>3. QED BY <1>7, <2>2, <2>4, <2>5, <2>10, <3>2
  <2>11. QED BY <2>8, <2>9, <2>10
<1>19. batch + Closed(rec, r) <= 1
  <2>1. MaxBatch \in Nat /\ MaxBatch <= 1
    BY InputAssumption DEF Bounds
  <2>2. QED BY <1>5, <1>10, <2>1
<1>20. Opening(r, advance, ahead, ntp) /\ Waits(heard, records, batch + Closed(rec, r), r)
  BY <1>2, <1>6, <1>7, <1>15, <1>16, <1>17, <1>18, <1>19, ObserveOpens
<1>21. r.haveEpoch /\ r = IF r.haveEpoch THEN r ELSE StartEpoch(r, ntp)
  BY <1>20 DEF Opening
<1>22. Waits(heard, records, batch', r) /\ ntp \in Nat
  BY <1>5, <1>7, <1>20
<1>23. QED BY <1>5, <1>6, <1>8, <1>9, <1>20, <1>21, <1>22, RecordTaken

LEMMA TakeKeepsRecords ==
  ASSUME NEW advance \in Nat, NEW ahead \in Nat, Bounds(advance, ahead),
         EntriesInv, RecordsInv(advance, ahead),
         NEW skew \in Skews, NEW i \in RecordInputs, TakeRecord(Around(skew), i[1], i[2])
  PROVE  RecordsInv(advance, ahead)'
<1>1. PICK ntp : ntp = Around(skew)
  OBVIOUS
<1>2. PICK x : x = NewRecord(i[1], i[2])
  OBVIOUS
<1>3. PICK p : p = rec'
  OBVIOUS
<1>4. /\ Running /\ batch' = batch /\ p = AddRecord(rec, ntp, x) /\ records' = records + 1
      /\ state' = state /\ heard' = heard
  BY <1>1, <1>2, <1>3 DEF TakeRecord
<1>5. Kept(rec) /\ records \in Nat /\ state = "running"
  BY <1>4 DEF EntriesInv, Running
<1>6. ntp \in Nat \ {0} /\ skew \in Int
  BY <1>1, <1>5, AroundFacts, InputAssumption
<1>7. x \in Record /\ x.id = records + 1
  <2>1. i[1] \in Nat /\ i[2] \in BOOLEAN
    BY InputAssumption
  <2>2. QED BY <1>2, <1>5, <2>1, NewRecordFacts
<1>8. PICK ready : ready = IF rec.haveEpoch THEN rec ELSE StartEpoch(rec, ntp)
  OBVIOUS
<1>9. PICK seq : seq = SegmentFor(ready, ntp)
  OBVIOUS
<1>10. Carries(rec, p) /\ Added(ready, p, seq, x)
  BY <1>4, <1>5, <1>6, <1>7, <1>8, <1>9, AddRecordFacts
<1>11. SUFFICES ASSUME rec'.err = "none", rec'.duration = LongDuration
                PROVE  Orderly(p, advance, ahead) /\ Waits(heard, records + 1, batch, p)
  BY <1>3, <1>4, <1>5 DEF RecordsInv
<1>12. rec.duration = LongDuration
  BY <1>3, <1>10, <1>11 DEF Carries
<1>13. Opening(ready, advance, ahead, ntp) /\ Waits(heard, records, batch, ready)
  <2>1. CASE rec.haveEpoch
    <3>1. rec.err = "none"
      BY <1>3, <1>8, <1>10, <1>11, <2>1 DEF Added
    <3>2. Orderly(rec, advance, ahead) /\ Waits(heard, records, batch, rec)
      BY <1>5, <1>12, <3>1 DEF RecordsInv
    <3>3. Placed(rec, advance, ahead) /\ Cur(rec) \in DOMAIN rec.open
      BY <2>1, <3>2 DEF Orderly
    <3>4. rec.latestNTP \in Nat /\ rec.latestNTP >= 1 /\ rec.epochBase <= rec.latestNTP
      BY <1>5, <3>3 DEF Kept, Placed
    <3>5. PICK k \in Nat : k = ahead * LongDuration
      BY RecorderAssumption
    <3>6. PICK m : m = rec.latestNTP + skew
      OBVIOUS
    <3>7. m \in Int /\ 1 \in Int
      BY <1>6, <3>4, <3>6
    <3>8. Max({1, m}) \in {1, m}
      BY <3>7, MaxOfTwo
    <3>9. ntp \in {1, m}
      BY <1>1, <2>1, <3>6, <3>8 DEF Around
    <3>10. skew <= k
      BY <3>5 DEF Bounds
    <3>11. ntp <= rec.latestNTP + ahead * LongDuration
      BY <1>6, <3>4, <3>5, <3>6, <3>9, <3>10
    <3>12. SequenceOf(rec, ntp) <= Cur(rec) + ahead
      BY <1>5, <1>6, <1>12, <3>4, <3>11, SequenceGrows
    <3>13. QED BY <1>8, <2>1, <3>2, <3>3, <3>12 DEF Opening
  <2>2. CASE ~ rec.haveEpoch
    <3>1. Started(rec, ready, ntp)
      BY <1>5, <1>6, <1>8, <2>2, StartEpochFacts
    <3>2. rec.err = "none"
      BY <1>3, <1>10, <1>11, <3>1 DEF Added, Started
    <3>3. Orderly(rec, advance, ahead) /\ Waits(heard, records, batch, rec)
      BY <1>5, <1>12, <3>2 DEF RecordsInv
    <3>4. DOMAIN rec.open = {} /\ rec.nextSeq = 0
      BY <2>2, <3>3 DEF Orderly
    <3>5. Opening(ready, advance, ahead, ntp)
      BY <1>6, <3>1, <3>4, EpochOpens DEF Started, Bounds
    <3>6. Waits(heard, records, batch, ready)
      BY <3>1, <3>3 DEF Started, Waits, Covers, InOpen
    <3>7. QED BY <3>5, <3>6
  <2>3. QED BY <2>1, <2>2
<1>14. ntp \in Nat
  BY <1>6
<1>15. QED BY <1>4, <1>5, <1>7, <1>8, <1>13, <1>14, RecordTaken

\* a step that leaves what the records are told by
LEMMA SameKeepsRecords ==
  ASSUME NEW advance \in Nat, NEW ahead \in Nat, RecordsInv(advance, ahead), Running,
         SameRecords(rec, rec'), rec'.duration = rec.duration,
         records' = records, batch' = batch, state' = state, heard' = heard
  PROVE  RecordsInv(advance, ahead)'
<1>1. PICK p : p = rec'
  OBVIOUS
<1>2. SameRecords(rec, p) /\ p.duration = rec.duration
  BY <1>1
<1>3. Orderly(rec, advance, ahead) => Orderly(p, advance, ahead)
  BY <1>2 DEF Orderly, Placed, Cur, SequenceOf, SameRecords, SameTimes
<1>4. Waits(heard, records, batch, rec) => Waits(heard, records, batch, p)
  BY <1>2 DEF Waits, Covers, InOpen, SameRecords
<1>5. p.err = rec.err
  BY <1>2 DEF SameRecords
<1>6. rec.err = "none" /\ rec.duration = LongDuration =>
        Orderly(rec', advance, ahead) /\ Waits(heard', records', batch', rec')
  BY <1>1, <1>3, <1>4 DEF RecordsInv, Running
<1>7. QED BY <1>1, <1>2, <1>5, <1>6 DEF RecordsInv, Running

\* a step that tells of one more loss
LEMMA MoreToldKeepsRecords ==
  ASSUME NEW advance \in Nat, NEW ahead \in Nat, RecordsInv(advance, ahead), Running,
         MoreTold(rec, rec'), rec'.err = rec.err, rec'.duration = rec.duration,
         records' = records, batch' = batch, state' = state, heard' = heard
  PROVE  RecordsInv(advance, ahead)'
<1>1. PICK p : p = rec'
  OBVIOUS
<1>2. MoreTold(rec, p) /\ p.duration = rec.duration /\ p.err = rec.err
  BY <1>1
<1>3. Orderly(rec, advance, ahead) => Orderly(p, advance, ahead)
  BY <1>2 DEF Orderly, Placed, Cur, SequenceOf, MoreTold, SameOpen, SameTimes
<1>4. Waits(heard, records, batch, rec) => Waits(heard, records, batch, p)
  BY <1>2 DEF Waits, Covers, InOpen, MoreTold, SameOpen
<1>5. rec.err = "none" /\ rec.duration = LongDuration =>
        Orderly(rec', advance, ahead) /\ Waits(heard', records', batch', rec')
  BY <1>1, <1>3, <1>4 DEF RecordsInv, Running
<1>6. QED BY <1>1, <1>2, <1>5 DEF RecordsInv, Running

\* what was queued is on the air, in the emission of this installation or of the next
LEMMA QueuedAreHeard ==
  ASSUME NEW r, NEW q, SegmentsInstalled(r, q), Distinct(r.pending),
         NEW q2, NEW p, NEW g, Aired(q2, p, g),
         \A id \in DOMAIN q.realtime.modules : id[1] \in {"timed", "loss"} =>
           /\ id \in DOMAIN q2.realtime.modules
           /\ q2.realtime.modules[id].stored = q.realtime.modules[id].stored,
         r.pending \in Seq(PendingEntry)
  PROVE  Queued(r.pending) \subseteq g.records /\ Lost(r.losses) \subseteq g.losses
<1>1. ASSUME NEW i \in DOMAIN r.pending, ~ r.pending[i].remove
      PROVE  IDs(r.pending[i].update.stored.records) \subseteq g.records
  <2>1. PICK u : u = r.pending[i].update
    OBVIOUS
  <2>2. r.pending[i] \in PendingEntry
    OBVIOUS
  <2>3. u \in PartUpdate
    BY <1>1, <2>1, <2>2 DEF PendingEntry
  <2>4. u.id[1] = "timed"
    BY <2>3 DEF PartUpdate, TimedIds
  <2>5. u.id \in DOMAIN q.realtime.modules /\ q.realtime.modules[u.id].stored = u.stored
    BY <1>1, <2>1 DEF SegmentsInstalled, OnAir
  <2>6. u.id \in DOMAIN q2.realtime.modules /\ q2.realtime.modules[u.id].stored = u.stored
    BY <2>4, <2>5
  <2>7. HeardIn(g, u.id, u.stored)
    BY <2>6 DEF Aired
  <2>8. QED BY <2>1, <2>4, <2>7 DEF HeardIn
<1>2. Lost(r.losses) \subseteq g.losses
  <2>1. CASE r.losses = <<>>
    <3>1. Range(r.losses) = {}
      BY <2>1 DEF Range
    <3>2. QED BY <3>1 DEF Lost
  <2>2. CASE r.losses # <<>>
    <3>1. PICK id \in DOMAIN q.realtime.modules :
            id[1] = "loss" /\ q.realtime.modules[id].stored.entries = r.losses
      BY <2>2 DEF SegmentsInstalled
    <3>2. PICK m : m = q2.realtime.modules[id].stored
      OBVIOUS
    <3>3. id \in DOMAIN q2.realtime.modules /\ m.entries = r.losses
      BY <3>1, <3>2
    <3>4. HeardIn(g, id, m)
      BY <3>2, <3>3 DEF Aired
    <3>5. QED BY <3>1, <3>3, <3>4 DEF HeardIn, Lost
  <2>3. QED BY <2>1, <2>2
<1>3. QED BY <1>1, <1>2 DEF Queued

LEMMA FailureKeepsRecords ==
  ASSUME NEW advance, NEW ahead, RecordsInv(advance, ahead), Failed, batch' \in Nat
  PROVE  RecordsInv(advance, ahead)'
BY DEF RecordsInv, Failed

LEMMA EmitKeepsRecords ==
  ASSUME NEW advance \in Nat, NEW ahead \in Nat,
         EntriesInv, RecordsInv(advance, ahead), NEW t \in Nat, Emit(t)
  PROVE  RecordsInv(advance, ahead)'
<1>1. Running /\ records' = records /\ batch' = 0
  BY DEF Emit
<1>2. Kept(rec) /\ AllHeard(heard, rec) /\ state = "running"
  BY <1>1 DEF EntriesInv, Running
<1>3. PICK q : q = InstallAll(rec, t)
  OBVIOUS
<1>4. CASE Failed
  BY <1>1, <1>4, FailureKeepsRecords
<1>5. CASE InstalledOn(t, rec, q) /\ Aired(q, rec', heard') /\ state' = "running"
  <2>1. PICK p : p = rec'
    OBVIOUS
  <2>2. PICK g : g = heard'
    OBVIOUS
  <2>3. /\ Kept(q) /\ rec.err = "none" /\ Same(rec, q, InstallFields)
        /\ SegmentsInstalled(rec, q) /\ Aired(q, p, g)
    BY <1>5, <2>1, <2>2 DEF InstalledOn
  <2>4. p.duration = q.duration /\ SameRecords(q, p)
    BY <2>3, AiredIsKept
  <2>5. /\ q.open = rec.open /\ q.nextSeq = rec.nextSeq /\ q.duration = rec.duration
        /\ SameTimes(rec, q)
    BY <1>2, <2>3 DEF Same, Kept, Segments, Fields, NewRecorder, InstallFields, CommitFields,
       BootstrapFields, SameTimes
  <2>6. SUFFICES ASSUME p.duration = LongDuration
                 PROVE  Orderly(p, advance, ahead) /\ Waits(g, records, 0, p)
    BY <1>1, <1>5, <2>1, <2>2 DEF RecordsInv
  <2>7. Orderly(rec, advance, ahead) /\ Waits(heard, records, batch, rec)
    BY <1>2, <2>3, <2>4, <2>5, <2>6 DEF RecordsInv
  <2>8. Orderly(p, advance, ahead)
    BY <2>4, <2>5, <2>7 DEF Orderly, Placed, Cur, SequenceOf, SameRecords, SameTimes
  <2>9. Distinct(rec.pending) /\ rec.pending \in Seq(PendingEntry)
    BY <1>2, <2>7 DEF Waits, Kept, Segments
  <2>10. Queued(rec.pending) \subseteq g.records /\ Lost(rec.losses) \subseteq g.losses
    BY <2>3, <2>9, QueuedAreHeard
  <2>11. heard.records \subseteq g.records /\ heard.losses \subseteq g.losses
    BY <2>3 DEF Aired
  <2>12. p.pending = <<>> /\ InOpen(p) = InOpen(rec)
    BY <2>3, <2>4, <2>5 DEF SegmentsInstalled, SameRecords, InOpen
  <2>13. Covers(g, records, p)
    BY <2>7, <2>10, <2>11, <2>12 DEF Waits, Covers
  <2>14. Distinct(p.pending)
    BY <2>12 DEF Distinct
  <2>15. QED BY <2>8, <2>12, <2>13, <2>14 DEF Waits
<1>6. QED BY <1>2, <1>3, <1>4, <1>5, EmitSteps

LEMMA FinishKeepsRecords ==
  ASSUME NEW advance \in Nat, NEW ahead \in Nat, Bounds(advance, ahead),
         EntriesInv, RecordsInv(advance, ahead), NEW t \in Nat, Finish(t)
  PROVE  RecordsInv(advance, ahead)'
<1>1. Running /\ records' = records /\ batch' = batch
  BY DEF Finish
<1>2. Kept(rec) /\ AllHeard(heard, rec) /\ state = "running" /\ batch \in Nat
  BY <1>1 DEF EntriesInv, RecordsInv, Running
<1>3. PICK r : r = Flushed(rec)
  OBVIOUS
<1>4. PICK q : q = InstallAll(r, t)
  OBVIOUS
<1>5. PICK q2 : q2 = InstallAll(q, t)
  OBVIOUS
<1>6. CASE Failed
  BY <1>1, <1>2, <1>6, FailureKeepsRecords
<1>7. CASE InstalledOn(t, r, q) /\ InstalledOn(t, q, q2) /\ Aired(q2, rec', heard') /\ state' = "finished"
  <2>1. PICK p : p = rec'
    OBVIOUS
  <2>2. PICK g : g = heard'
    OBVIOUS
  <2>3. PICK f : f = FlushOpen(rec)
    OBVIOUS
  <2>4. /\ Carries(rec, r) /\ CloseKept(rec, DOMAIN rec.open, f) /\ SameRecords(f, r)
    BY <1>2, <1>3, <2>3, FlushedFacts
  <2>5. Kept(q) /\ Kept(q2) /\ Kept(r) /\ r.err = "none" /\ Aired(q2, p, g)
    BY <1>7, <2>1, <2>2, <2>4 DEF InstalledOn, Carries
  <2>6. SUFFICES ASSUME p.duration = LongDuration
                 PROVE  1 .. records \subseteq g.records \cup g.losses
    BY <1>1, <1>2, <1>7, <2>1, <2>2 DEF RecordsInv
  <2>7. rec.duration = LongDuration
    <3>1. p.duration = q2.duration
      BY <2>5, AiredIsKept
    <3>2. q2.duration = q.duration /\ q.duration = r.duration
      BY <1>7, <2>5 DEF InstalledOn, Same, Kept, Segments, Fields, NewRecorder, InstallFields,
         CommitFields, BootstrapFields
    <3>3. QED BY <2>4, <2>6, <3>1, <3>2 DEF Carries
  <2>8. f.err = "none"
    BY <2>4, <2>5 DEF SameRecords
  <2>9. rec.err = "none"
    BY <2>4, <2>8 DEF CloseKept, ClosedWell
  <2>10. Orderly(rec, advance, ahead) /\ Waits(heard, records, batch, rec)
    BY <1>2, <2>7, <2>9 DEF RecordsInv
  <2>11. Tight(rec, DOMAIN rec.open)
    <3>1. CASE rec.haveEpoch
      BY <1>2, <2>7, <2>10, <3>1, PlacedIsTight DEF Orderly
    <3>2. CASE ~ rec.haveEpoch
      BY <2>10, <3>2 DEF Orderly, Tight
    <3>3. QED BY <3>1, <3>2
  <2>12. PICK c : c = IF f.closedSegments > rec.closedSegments THEN 1 ELSE 0
    OBVIOUS
  <2>13. batch + c <= 1
    <3>1. Closes(r) = c
      BY <2>4, <2>12 DEF Closes, SameRecords
    <3>2. batch + c <= MaxBatch
      BY <1>3, <3>1 DEF Finish
    <3>3. MaxBatch \in Nat /\ MaxBatch <= 1 /\ c \in Nat
      BY <2>12, InputAssumption DEF Bounds
    <3>4. QED BY <1>2, <3>2, <3>3
  <2>14. Waits(heard, records, batch + c, f)
    <3>1. DOMAIN rec.open \subseteq DOMAIN rec.open
      OBVIOUS
    <3>2. QED BY <1>2, <2>4, <2>7, <2>8, <2>10, <2>11, <2>12, <2>13, <3>1, CloseWaits
  <2>15. DOMAIN f.open = {}
    BY <2>4 DEF CloseKept
  <2>16. 1 .. records \subseteq Queued(f.pending) \cup Lost(f.losses) \cup heard.records \cup heard.losses
    BY <2>14, <2>15 DEF Waits, Covers, InOpen
  <2>17. r.pending = f.pending /\ r.losses = f.losses /\ Distinct(r.pending)
    BY <2>4, <2>14 DEF SameRecords, Waits
  <2>18. SegmentsInstalled(r, q) /\ SegmentsInstalled(q, q2)
    BY <1>7 DEF InstalledOn
  <2>19. \A id \in DOMAIN q.realtime.modules : id[1] \in {"timed", "loss"} =>
           /\ id \in DOMAIN q2.realtime.modules
           /\ q2.realtime.modules[id].stored = q.realtime.modules[id].stored
    BY <2>18 DEF SegmentsInstalled
  <2>20. r.pending \in Seq(PendingEntry)
    BY <2>5 DEF Kept, Segments
  <2>21. Queued(r.pending) \subseteq g.records /\ Lost(r.losses) \subseteq g.losses
    BY <2>5, <2>17, <2>18, <2>19, <2>20, QueuedAreHeard
  <2>22. heard.records \subseteq g.records /\ heard.losses \subseteq g.losses
    BY <2>5 DEF Aired
  <2>23. QED BY <2>16, <2>17, <2>21, <2>22
<1>8. QED BY <1>2, <1>3, <1>4, <1>5, <1>6, <1>7, FinishSteps

LEMMA InitRecords ==
  ASSUME NEW advance \in Nat, NEW ahead \in Nat, Init
  PROVE  RecordsInv(advance, ahead)
<1>1. /\ NewRecorder.open = Nothing /\ NewRecorder.nextSeq = 0 /\ ~ NewRecorder.haveEpoch
      /\ NewRecorder.pending = <<>>
  BY DEF NewRecorder
<1>2. DOMAIN Nothing = {}
  BY DEF Nothing
<1>3. rec = NewRecorder /\ batch = 0 /\ state = "running" /\ records = 0
  BY DEF Init
<1>4. Orderly(rec, advance, ahead)
  BY <1>1, <1>2, <1>3 DEF Orderly
<1>5. 1 .. records = {}
  BY <1>3
<1>6. Waits(heard, records, batch, rec)
  BY <1>1, <1>3, <1>5 DEF Waits, Covers, Distinct
<1>7. QED BY <1>3, <1>4, <1>6 DEF RecordsInv

LEMMA NextRecords ==
  ASSUME NEW advance \in Nat, NEW ahead \in Nat, Bounds(advance, ahead),
         EntriesInv, RecordsInv(advance, ahead), [Next]_vars
  PROVE  RecordsInv(advance, ahead)'
<1>1. Running => Kept(rec)
  BY DEF EntriesInv, Running
<1>2. now \in Nat
  BY DEF EntriesInv
<1>3. CASE \E step \in Steps : ObserveNTP(Around(step))
  BY <1>3, ObserveKeepsRecords
<1>4. CASE \E skew \in Skews, x \in RecordInputs : TakeRecord(Around(skew), x[1], x[2])
  BY <1>4, TakeKeepsRecords
<1>5. CASE Scrambled
  <2>1. /\ Running /\ rec' = UseShortSegments(rec) /\ records' = records /\ batch' = batch
        /\ state' = state /\ heard' = heard
    BY <1>5 DEF Scrambled
  <2>2. rec' = rec \/ rec'.duration # LongDuration
    BY <1>1, <2>1, UseShortSegmentsFacts
  <2>3. QED BY <2>1, <2>2 DEF RecordsInv, Running
<1>6. CASE CloseRun
  <2>1. /\ Running /\ rec' = AddAVMapEntry(rec, entries + 1) /\ records' = records
        /\ batch' = batch /\ state' = state /\ heard' = heard
    BY <1>6 DEF CloseRun
  <2>2. SameRecords(rec, rec') /\ rec'.duration = rec.duration
    BY <1>1, <2>1, AddAVMapEntryFacts DEF EntriesInv
  <2>3. QED BY <2>1, <2>2, SameKeepsRecords
<1>7. CASE \E c \in CodecInputs : NoteConfig(c[1], c[2])
  <2>1. PICK c \in CodecInputs : NoteConfig(c[1], c[2])
    BY <1>7
  <2>2. /\ Running /\ rec' = SetCodecConfig(rec, c[1], c[2]) /\ records' = records
        /\ batch' = batch /\ state' = state /\ heard' = heard
    BY <2>1 DEF NoteConfig
  <2>3. SameRecords(rec, rec') /\ rec'.duration = rec.duration
    BY <1>1, <2>2, SetCodecConfigFacts DEF Carries
  <2>4. QED BY <2>2, <2>3, SameKeepsRecords
<1>8. CASE \E o \in ObjectInputs : TakeCaption(o[1], o[2])
  <2>1. PICK o \in ObjectInputs : TakeCaption(o[1], o[2])
    BY <1>8
  <2>2. /\ Running /\ rec' = AddObject(rec, o[1], o[2]) /\ records' = records
        /\ batch' = batch /\ heard' = heard
        /\ state' = IF rec'.err = "object" THEN "failed" ELSE state
    BY <2>1 DEF TakeCaption
  <2>3. Carries(rec, rec') /\ (rec'.err # "object" => SameRecords(rec, rec'))
    BY <1>1, <2>2, AddObjectFacts
  <2>4. CASE rec'.err = "object"
    BY <2>2, <2>4 DEF RecordsInv
  <2>5. CASE rec'.err # "object"
    BY <2>2, <2>3, <2>5, SameKeepsRecords DEF Carries
  <2>6. QED BY <2>4, <2>5
<1>9. CASE \E o \in ObjectInputs : TakeItem(o[1], o[2])
  <2>1. PICK o \in ObjectInputs : TakeItem(o[1], o[2])
    BY <1>9
  <2>2. /\ Running /\ rec' = AddItem(rec, o[1], o[2]) /\ records' = records
        /\ batch' = batch /\ heard' = heard /\ state' = state
    BY <2>1 DEF TakeItem
  <2>3. Carries(rec, rec') /\ MoreTold(rec, rec') /\ rec'.err = rec.err
    BY <1>1, <2>2, AddItemFacts
  <2>4. QED BY <2>2, <2>3, MoreToldKeepsRecords DEF Carries
<1>10. CASE \E t \in now .. MaxNow : Emit(t)
  <2>1. MaxNow \in Nat
    BY InputAssumption
  <2>2. PICK t \in now .. MaxNow : Emit(t)
    BY <1>10
  <2>3. t \in Nat
    BY <1>2, <2>1
  <2>4. QED BY <2>2, <2>3, EmitKeepsRecords
<1>11. CASE \E t \in 0 .. now : Finish(t)
  <2>1. PICK t \in 0 .. now : Finish(t)
    BY <1>11
  <2>2. t \in Nat
    BY <1>2
  <2>3. QED BY <2>1, <2>2, FinishKeepsRecords
<1>12. CASE UNCHANGED vars
  BY <1>12 DEF vars, RecordsInv
<1>13. QED BY <1>3, <1>4, <1>5, <1>6, <1>7, <1>8, <1>9, <1>10, <1>11, <1>12 DEF Next

\* the pending updates are told apart, so each goes on the air
LEMMA WaitingAreQueued ==
  ASSUME Distinct(rec.pending)
  PROVE  Queued(rec.pending) \subseteq Waiting
<1>1. ASSUME NEW i \in DOMAIN rec.pending, ~ rec.pending[i].remove
      PROVE  i \in Lasting
  BY <1>1 DEF Distinct, Lasting
<1>2. QED BY <1>1 DEF Queued, Waiting

LEMMA RecordsSuffice ==
  ASSUME NEW advance \in Nat, NEW ahead \in Nat, RecordsInv(advance, ahead)
  PROVE  NothingLostSilently
<1>1. SUFFICES ASSUME rec.err = "none", rec.duration = LongDuration, state = "running"
               PROVE  1 .. records \subseteq Buffered \cup Waiting \cup heard.records \cup Reported
  BY DEF NothingLostSilently, RecordsInv
<1>2. Distinct(rec.pending) /\ Covers(heard, records, rec)
  BY <1>1 DEF RecordsInv, Waits
<1>3. Queued(rec.pending) \subseteq Waiting
  BY <1>2, WaitingAreQueued
<1>4. InOpen(rec) = Buffered /\ Lost(rec.losses) \cup heard.losses = Reported
  BY DEF InOpen, Buffered, Lost, Reported
<1>5. QED BY <1>2, <1>3, <1>4 DEF Covers

(* closeSegment, observe and installPending: an input that the ring can    *)
(* hold loses no record silently.  Whatever segments close together, in    *)
(* whatever epochs, their updates never take each other's modules before   *)
(* they were on the air, and a segment that cannot be stored is named by a *)
(* loss report, which the emission carries; Finish leaves nothing behind.  *)
THEOREM NothingIsLost == Punctual => (Spec => []NothingLostSilently)
<1>1. SUFFICES ASSUME Punctual PROVE Spec => []NothingLostSilently
  OBVIOUS
<1>2. PICK advance \in Nat, ahead \in Nat : Bounds(advance, ahead)
  <2>1. Ring \in Nat
    BY RecorderAssumption
  <2>2. 0 .. Ring \subseteq Nat
    BY <2>1
  <2>3. QED BY <1>1, <2>2 DEF Punctual, Bounds
<1>3. Init => EntriesInv /\ RecordsInv(advance, ahead)
  BY InitEntries, InitRecords
<1>4. (EntriesInv /\ RecordsInv(advance, ahead)) /\ [Next]_vars
        => (EntriesInv /\ RecordsInv(advance, ahead))'
  BY <1>2, NextEntries, NextRecords
<1>5. RecordsInv(advance, ahead) => NothingLostSilently
  BY RecordsSuffice
<1>6. QED BY <1>3, <1>4, <1>5, PTL DEF Spec
-----------------------------------------------------------------------------
(* The ring of segments.                                                   *)

PartNumbers == 0 .. MaxSegmentParts - 1

\* what the updates us of the segment of seq, with n parts, write and undo
UpdatesDo(r, seq, n, us) ==
  /\ \A k \in PartNumbers : Touches(us, DOMAIN us, TimedModuleID(seq, k))
  /\ seq >= RepeatWindow(r) =>
       \A k \in PartNumbers : Touches(us, DOMAIN us, TimedModuleID(seq - RepeatWindow(r), k))
  /\ \A id : Touches(us, DOMAIN us, id) =>
       \E k \in PartNumbers :
         \/ id = TimedModuleID(seq, k)
         \/ seq >= RepeatWindow(r) /\ id = TimedModuleID(seq - RepeatWindow(r), k)
  /\ \A id, x : Writes(us, DOMAIN us, id, x) =>
       /\ \E k \in PartNumbers : k < n /\ id = TimedModuleID(seq, k)
       /\ x.epoch = r.epochID /\ x.seq = seq /\ x.count = n
       /\ \A k \in PartNumbers : k < n => \E y : Writes(us, DOMAIN us, TimedModuleID(seq, k), y)
  /\ seq < RepeatWindow(r) =>
       \A k \in PartNumbers : k < n => \E y : Writes(us, DOMAIN us, TimedModuleID(seq, k), y)

LEMMA TimedIDs ==
  ASSUME NEW s, NEW k
  PROVE  /\ TimedModuleID(s, k)[1] = "timed"
         /\ TimedModuleID(s, k)[2] = s % Ring
         /\ TimedModuleID(s, k)[3] = k
BY DEF TimedModuleID

LEMMA TimedIDsEqual ==
  ASSUME NEW s, NEW k, NEW t, NEW l
  PROVE  TimedModuleID(s, k) = TimedModuleID(t, l) <=> s % Ring = t % Ring /\ k = l
<1>1. TimedModuleID(s, k) = TimedModuleID(t, l) => s % Ring = t % Ring /\ k = l
  BY TimedIDs
<1>2. s % Ring = t % Ring /\ k = l => TimedModuleID(s, k) = TimedModuleID(t, l)
  BY DEF TimedModuleID
<1>3. QED BY <1>1, <1>2

LEMMA UpdatesDoFacts ==
  ASSUME NEW r, r.duration \in {LongDuration, ShortDuration}, NEW seq \in Nat,
         NEW n \in Nat, n <= MaxSegmentParts, NEW us, UpdatesOf(r, seq, n, us)
  PROVE  UpdatesDo(r, seq, n, us)
<1>1. PICK w : w = RepeatWindow(r)
  OBVIOUS
<1>2. w \in Nat \ {0}
  BY <1>1, WindowFacts
<1>3. PICK m : m = MaxSegmentParts
  OBVIOUS
<1>4. m \in Nat \ {0}
  BY <1>3, RecorderAssumption
<1>5. PartNumbers = 0 .. m - 1
  BY <1>3 DEF PartNumbers
<1>6. PICK D : D = DOMAIN us
  OBVIOUS
<1>7. /\ D = 1 .. m + (IF seq < w THEN 0 ELSE m)
      /\ \A i \in D :
           \/ /\ i \in 1 .. n /\ ~ us[i].remove /\ PendingID(us[i]) = TimedModuleID(seq, i - 1)
              /\ us[i].update.stored.epoch = r.epochID
              /\ us[i].update.stored.seq = seq /\ us[i].update.stored.count = n
           \/ /\ i \in n + 1 .. m /\ us[i].remove
              /\ PendingID(us[i]) = TimedModuleID(seq, i - 1)
           \/ /\ seq >= w /\ i > m /\ us[i].remove
              /\ PendingID(us[i]) = TimedModuleID(seq - w, i - m - 1)
  BY <1>1, <1>3, <1>6 DEF UpdatesOf
<1>8. \A i \in 1 .. m : i \in D /\ PendingID(us[i]) = TimedModuleID(seq, i - 1)
  <2>1. SUFFICES ASSUME NEW i \in 1 .. m
                 PROVE  i \in D /\ PendingID(us[i]) = TimedModuleID(seq, i - 1)
    OBVIOUS
  <2>2. i \in D /\ ~ (i > m)
    BY <1>2, <1>4, <1>7
  <2>3. QED BY <1>7, <2>2
<1>9. \A i \in m + 1 .. m + m : seq >= w =>
        i \in D /\ PendingID(us[i]) = TimedModuleID(seq - w, i - m - 1)
  <2>1. SUFFICES ASSUME NEW i \in m + 1 .. m + m, seq >= w
                 PROVE  i \in D /\ PendingID(us[i]) = TimedModuleID(seq - w, i - m - 1)
    OBVIOUS
  <2>2. i \in D /\ i > m /\ ~ (i \in 1 .. n) /\ ~ (i \in n + 1 .. m)
    BY <1>2, <1>3, <1>4, <1>7, <2>1
  <2>3. QED BY <1>7, <2>2
<1>10. \A i \in D : \/ i \in 1 .. m
                    \/ seq >= w /\ i \in m + 1 .. m + m
  BY <1>2, <1>4, <1>7
<1>11. \A i \in D : ~ us[i].remove =>
         /\ i \in 1 .. n /\ PendingID(us[i]) = TimedModuleID(seq, i - 1)
         /\ us[i].update.stored.epoch = r.epochID
         /\ us[i].update.stored.seq = seq /\ us[i].update.stored.count = n
  BY <1>7
<1>12. \A i \in 1 .. n : i \in D /\ ~ us[i].remove
  <2>1. SUFFICES ASSUME NEW i \in 1 .. n PROVE i \in D /\ ~ us[i].remove
    OBVIOUS
  <2>2. i \in D /\ ~ (i > m) /\ ~ (i \in n + 1 .. m)
    BY <1>2, <1>3, <1>4, <1>7
  <2>3. QED BY <1>7, <2>2
<1>13. \A k \in 0 .. m - 1 : Touches(us, D, TimedModuleID(seq, k))
  <2>1. SUFFICES ASSUME NEW k \in 0 .. m - 1 PROVE Touches(us, D, TimedModuleID(seq, k))
    OBVIOUS
  <2>2. k + 1 \in 1 .. m /\ (k + 1) - 1 = k
    BY <1>4
  <2>3. QED BY <1>8, <2>2 DEF Touches
<1>14. seq >= w => \A k \in 0 .. m - 1 : Touches(us, D, TimedModuleID(seq - w, k))
  <2>1. SUFFICES ASSUME seq >= w, NEW k \in 0 .. m - 1
                 PROVE  Touches(us, D, TimedModuleID(seq - w, k))
    OBVIOUS
  <2>2. m + k + 1 \in m + 1 .. m + m /\ (m + k + 1) - m - 1 = k
    BY <1>4
  <2>3. QED BY <1>9, <2>1, <2>2 DEF Touches
<1>15. ASSUME NEW id, Touches(us, D, id)
       PROVE  \E k \in 0 .. m - 1 : \/ id = TimedModuleID(seq, k)
                                    \/ seq >= w /\ id = TimedModuleID(seq - w, k)
  <2>1. PICK i \in D : PendingID(us[i]) = id
    BY <1>15 DEF Touches
  <2>2. CASE i \in 1 .. m
    <3>1. i - 1 \in 0 .. m - 1
      BY <1>4, <2>2
    <3>2. QED BY <1>8, <2>1, <2>2, <3>1
  <2>3. CASE seq >= w /\ i \in m + 1 .. m + m
    <3>1. i - m - 1 \in 0 .. m - 1
      BY <1>4, <2>3
    <3>2. QED BY <1>9, <2>1, <2>3, <3>1
  <2>4. QED BY <1>10, <2>2, <2>3
\* nothing later undoes it, unless the segment that leaves has its slot
<1>16. ASSUME ~ (seq >= w /\ (seq - w) % Ring = seq % Ring),
              NEW k \in 0 .. m - 1, k < n
       PROVE  \E y : Writes(us, D, TimedModuleID(seq, k), y)
  <2>1. PICK i : i = k + 1
    OBVIOUS
  <2>2. i \in 1 .. n /\ i \in 1 .. m /\ i - 1 = k
    BY <1>3, <1>4, <1>16, <2>1
  <2>3. i \in D /\ ~ us[i].remove /\ PendingID(us[i]) = TimedModuleID(seq, k)
    BY <1>8, <1>12, <2>2
  <2>4. ASSUME NEW j \in D, j > i PROVE PendingID(us[j]) # TimedModuleID(seq, k)
    <3>1. CASE j \in 1 .. m
      <4>1. j - 1 # k
        BY <2>1, <2>4, <3>1, <1>16
      <4>2. QED BY <1>8, <3>1, <4>1, TimedIDsEqual
    <3>2. CASE seq >= w /\ j \in m + 1 .. m + m
      <4>1. PendingID(us[j]) = TimedModuleID(seq - w, j - m - 1)
        BY <1>9, <3>2
      <4>2. (seq - w) % Ring # seq % Ring
        BY <1>16, <3>2
      <4>3. QED BY <4>1, <4>2, TimedIDsEqual
    <3>3. QED BY <1>10, <3>1, <3>2
  <2>5. Writes(us, D, TimedModuleID(seq, k), us[i].update.stored)
    BY <2>3, <2>4 DEF Writes
  <2>6. QED BY <2>5
<1>17. ASSUME NEW id, NEW x, Writes(us, D, id, x)
       PROVE  /\ \E k \in 0 .. m - 1 : k < n /\ id = TimedModuleID(seq, k)
              /\ x.epoch = r.epochID /\ x.seq = seq /\ x.count = n
              /\ ~ (seq >= w /\ (seq - w) % Ring = seq % Ring)
  <2>1. PICK i \in D : /\ PendingID(us[i]) = id /\ ~ us[i].remove /\ us[i].update.stored = x
                       /\ \A j \in D : j > i => PendingID(us[j]) # id
    BY <1>17 DEF Writes
  <2>2. /\ i \in 1 .. n /\ id = TimedModuleID(seq, i - 1)
        /\ x.epoch = r.epochID /\ x.seq = seq /\ x.count = n
    BY <1>11, <2>1
  <2>3. i - 1 \in 0 .. m - 1 /\ i - 1 < n
    BY <1>3, <1>4, <2>2
  <2>4. ASSUME seq >= w, (seq - w) % Ring = seq % Ring PROVE FALSE
    <3>1. m + i \in m + 1 .. m + m /\ (m + i) - m - 1 = i - 1 /\ m + i > i
      BY <1>3, <1>4, <2>2
    <3>2. m + i \in D /\ PendingID(us[m + i]) = TimedModuleID(seq - w, i - 1)
      BY <1>9, <2>4, <3>1
    <3>3. TimedModuleID(seq - w, i - 1) = id
      BY <2>2, <2>4, TimedIDsEqual
    <3>4. QED BY <2>1, <3>1, <3>2, <3>3
  <2>5. QED BY <2>2, <2>3, <2>4
<1>18. \A id, x : Writes(us, D, id, x) =>
         /\ \E k \in PartNumbers : k < n /\ id = TimedModuleID(seq, k)
         /\ x.epoch = r.epochID /\ x.seq = seq /\ x.count = n
         /\ \A k \in PartNumbers : k < n => \E y : Writes(us, D, TimedModuleID(seq, k), y)
  BY <1>5, <1>16, <1>17
<1>19. seq < w => \A k \in PartNumbers : k < n => \E y : Writes(us, D, TimedModuleID(seq, k), y)
  <2>1. seq < w => ~ (seq >= w)
    BY <1>2
  <2>2. QED BY <1>5, <1>16, <2>1
<1>20. \A id : Touches(us, D, id) =>
         \E k \in PartNumbers : \/ id = TimedModuleID(seq, k)
                                \/ seq >= w /\ id = TimedModuleID(seq - w, k)
  BY <1>5, <1>15
<1>21. QED BY <1>1, <1>5, <1>6, <1>13, <1>14, <1>18, <1>19, <1>20 DEF UpdatesDo

\* the parts of a segment are on the air together, alone in their slot
Whole(r) ==
  \A id, x : id[1] = "timed" /\ On(r, id, x) =>
    /\ x.epoch \in Nat /\ x.seq \in Nat /\ x.count \in Nat
    /\ \E k \in PartNumbers : k < x.count /\ id = TimedModuleID(x.seq, k)
    /\ \A k \in PartNumbers :
         IF k < x.count
         THEN \E y : On(r, TimedModuleID(x.seq, k), y) /\ y.epoch = x.epoch /\ y.seq = x.seq
         ELSE \A y : ~ On(r, TimedModuleID(x.seq, k), y)

\* what is on the air was closed before
Behind(r) ==
  \A id, x : id[1] = "timed" /\ On(r, id, x) =>
    /\ x.epoch <= r.epochID
    /\ x.epoch = r.epochID => r.haveComplete /\ x.seq <= r.latestComplete

\* what a receiver heard of this epoch's window is still on the air
Windowed(h, r) ==
  \A s \in h.segments :
    /\ s[1] \in Nat /\ s[2] \in Nat /\ s[1] <= r.epochID
    /\ s[1] = r.epochID =>
         /\ r.haveComplete /\ s[2] <= r.latestComplete
         /\ r.latestComplete - s[2] < RepeatWindow(r) =>
              \E id, x : id[1] = "timed" /\ On(r, id, x) /\ x.epoch = r.epochID /\ x.seq = s[2]

Ringed(h, r) == Whole(r) /\ Behind(r) /\ Windowed(h, r)

\* seq may close next: only the first segment of an epoch closes twice
Follows(r, seq) ==
  r.haveComplete => /\ r.latestComplete \in Nat
                    /\ r.latestComplete < seq \/ (r.latestComplete = seq /\ seq = 0)

\* q is r with the updates us of the segment of seq, of n parts
WithUpdates(r, seq, n, us, q) ==
  /\ UpdatesDo(r, seq, n, us)
  /\ \A id, x : On(q, id, x) <=>
       \/ Writes(us, DOMAIN us, id, x)
       \/ ~ Touches(us, DOMAIN us, id) /\ On(r, id, x)
  /\ q.epochID = r.epochID /\ RepeatWindow(q) = RepeatWindow(r)
  /\ q.haveComplete = TRUE /\ q.latestComplete = seq

LEMMA WritesTouches ==
  ASSUME NEW us, NEW D, NEW id, NEW x, Writes(us, D, id, x)
  PROVE  Touches(us, D, id)
BY DEF Writes, Touches

\* a slot is touched as a whole
LEMMA TouchedSlots ==
  ASSUME NEW r, NEW seq, NEW n, NEW us, UpdatesDo(r, seq, n, us), NEW s, NEW k \in PartNumbers
  PROVE  Touches(us, DOMAIN us, TimedModuleID(s, k)) <=>
           \/ s % Ring = seq % Ring
           \/ seq >= RepeatWindow(r) /\ s % Ring = (seq - RepeatWindow(r)) % Ring
<1>1. PICK w : w = RepeatWindow(r)
  OBVIOUS
<1>2. ASSUME Touches(us, DOMAIN us, TimedModuleID(s, k))
      PROVE  s % Ring = seq % Ring \/ (seq >= w /\ s % Ring = (seq - w) % Ring)
  <2>1. \A id : Touches(us, DOMAIN us, id) =>
          \E l \in PartNumbers : \/ id = TimedModuleID(seq, l)
                                 \/ seq >= w /\ id = TimedModuleID(seq - w, l)
    BY <1>1 DEF UpdatesDo
  <2>2. \E l \in PartNumbers : \/ TimedModuleID(s, k) = TimedModuleID(seq, l)
                               \/ seq >= w /\ TimedModuleID(s, k) = TimedModuleID(seq - w, l)
    BY <1>2, <2>1
  <2>3. ASSUME NEW l \in PartNumbers, TimedModuleID(s, k) = TimedModuleID(seq, l)
        PROVE  s % Ring = seq % Ring
    BY <2>3, TimedIDsEqual
  <2>4. ASSUME NEW l \in PartNumbers, TimedModuleID(s, k) = TimedModuleID(seq - w, l)
        PROVE  s % Ring = (seq - w) % Ring
    <3>1. PICK t : t = seq - w
      OBVIOUS
    <3>2. TimedModuleID(s, k) = TimedModuleID(t, l)
      BY <2>4, <3>1
    <3>3. s % Ring = t % Ring
      BY <3>2, TimedIDsEqual
    <3>4. QED BY <3>1, <3>3
  <2>5. QED BY <2>2, <2>3, <2>4
<1>3. ASSUME s % Ring = seq % Ring PROVE Touches(us, DOMAIN us, TimedModuleID(s, k))
  <2>1. TimedModuleID(s, k) = TimedModuleID(seq, k)
    BY <1>3, TimedIDsEqual
  <2>2. Touches(us, DOMAIN us, TimedModuleID(seq, k))
    BY DEF UpdatesDo
  <2>3. QED BY <2>1, <2>2
<1>4. ASSUME seq >= w, s % Ring = (seq - w) % Ring
      PROVE  Touches(us, DOMAIN us, TimedModuleID(s, k))
  <2>1. TimedModuleID(s, k) = TimedModuleID(seq - w, k)
    BY <1>4, TimedIDsEqual
  <2>2. Touches(us, DOMAIN us, TimedModuleID(seq - w, k))
    BY <1>1, <1>4 DEF UpdatesDo
  <2>3. QED BY <2>1, <2>2
<1>5. QED BY <1>1, <1>2, <1>3, <1>4

LEMMA WholeAfter ==
  ASSUME NEW r, Whole(r), r.epochID \in Nat, NEW seq \in Nat, NEW n \in Nat, NEW us, NEW q,
         WithUpdates(r, seq, n, us, q)
  PROVE  Whole(q)
<1>1. SUFFICES ASSUME NEW id, NEW x, id[1] = "timed", On(q, id, x)
               PROVE  /\ x.epoch \in Nat /\ x.seq \in Nat /\ x.count \in Nat
                      /\ \E k \in PartNumbers : k < x.count /\ id = TimedModuleID(x.seq, k)
                      /\ \A k \in PartNumbers :
                           IF k < x.count
                           THEN \E y : /\ On(q, TimedModuleID(x.seq, k), y)
                                       /\ y.epoch = x.epoch /\ y.seq = x.seq
                           ELSE \A y : ~ On(q, TimedModuleID(x.seq, k), y)
  BY DEF Whole
<1>2. PICK D : D = DOMAIN us
  OBVIOUS
<1>3. UpdatesDo(r, seq, n, us)
  BY DEF WithUpdates
<1>4. \A i, y : On(q, i, y) <=> Writes(us, D, i, y) \/ (~ Touches(us, D, i) /\ On(r, i, y))
  BY <1>2 DEF WithUpdates
<1>5. \A i, y : Writes(us, D, i, y) =>
        /\ \E k \in PartNumbers : k < n /\ i = TimedModuleID(seq, k)
        /\ y.epoch = r.epochID /\ y.seq = seq /\ y.count = n
        /\ \A k \in PartNumbers : k < n => \E z : Writes(us, D, TimedModuleID(seq, k), z)
  BY <1>2, <1>3 DEF UpdatesDo
<1>6. CASE Writes(us, D, id, x)
  <2>1. /\ \E k \in PartNumbers : k < n /\ id = TimedModuleID(seq, k)
        /\ x.epoch = r.epochID /\ x.seq = seq /\ x.count = n
    BY <1>5, <1>6
  <2>2. ASSUME NEW k \in PartNumbers, k < n
        PROVE  \E y : /\ On(q, TimedModuleID(x.seq, k), y)
                      /\ y.epoch = x.epoch /\ y.seq = x.seq
    <3>1. PICK y : Writes(us, D, TimedModuleID(seq, k), y)
      BY <1>5, <1>6, <2>2
    <3>2. y.epoch = r.epochID /\ y.seq = seq
      BY <1>5, <3>1
    <3>3. On(q, TimedModuleID(seq, k), y)
      BY <1>4, <3>1
    <3>4. QED BY <2>1, <3>2, <3>3
  <2>3. ASSUME NEW k \in PartNumbers, ~ (k < n), NEW y
        PROVE  ~ On(q, TimedModuleID(x.seq, k), y)
    <3>1. Touches(us, D, TimedModuleID(seq, k))
      BY <1>2, <1>3 DEF UpdatesDo
    <3>2. ASSUME Writes(us, D, TimedModuleID(seq, k), y) PROVE FALSE
      <4>1. PICK l \in PartNumbers : l < n /\ TimedModuleID(seq, k) = TimedModuleID(seq, l)
        BY <1>5, <3>2
      <4>2. QED BY <2>3, <4>1, TimedIDsEqual
    <3>3. QED BY <1>4, <2>1, <3>1, <3>2
  <2>4. QED BY <2>1, <2>2, <2>3
<1>7. CASE ~ Touches(us, D, id) /\ On(r, id, x)
  <2>1. /\ x.epoch \in Nat /\ x.seq \in Nat /\ x.count \in Nat
        /\ \E k \in PartNumbers : k < x.count /\ id = TimedModuleID(x.seq, k)
        /\ \A k \in PartNumbers :
             IF k < x.count
             THEN \E y : On(r, TimedModuleID(x.seq, k), y) /\ y.epoch = x.epoch /\ y.seq = x.seq
             ELSE \A y : ~ On(r, TimedModuleID(x.seq, k), y)
    BY <1>1, <1>7 DEF Whole
  <2>2. \A k \in PartNumbers : ~ Touches(us, D, TimedModuleID(x.seq, k))
    BY <1>2, <1>3, <1>7, <2>1, TouchedSlots
  <2>3. \A k \in PartNumbers : \A y : ~ Writes(us, D, TimedModuleID(x.seq, k), y)
    BY <2>2, WritesTouches
  <2>4. \A k \in PartNumbers : \A y :
          On(q, TimedModuleID(x.seq, k), y) <=> On(r, TimedModuleID(x.seq, k), y)
    BY <1>4, <2>2, <2>3
  <2>5. QED BY <2>1, <2>4
<1>8. QED BY <1>1, <1>4, <1>6, <1>7

LEMMA BehindAfter ==
  ASSUME NEW r, Whole(r), Behind(r), r.epochID \in Nat, NEW seq \in Nat, Follows(r, seq),
         NEW n, NEW us, NEW q, WithUpdates(r, seq, n, us, q)
  PROVE  Behind(q)
<1>1. SUFFICES ASSUME NEW id, NEW x, id[1] = "timed", On(q, id, x)
               PROVE  /\ x.epoch <= q.epochID
                      /\ x.epoch = q.epochID => q.haveComplete /\ x.seq <= q.latestComplete
  BY DEF Behind
<1>2. q.epochID = r.epochID /\ q.haveComplete = TRUE /\ q.latestComplete = seq
  BY DEF WithUpdates
<1>3. CASE Writes(us, DOMAIN us, id, x)
  <2>1. x.epoch = r.epochID /\ x.seq = seq
    BY <1>3 DEF WithUpdates, UpdatesDo
  <2>2. QED BY <1>2, <2>1
<1>4. CASE On(r, id, x)
  <2>1. /\ x.epoch <= r.epochID /\ x.seq \in Nat
        /\ x.epoch = r.epochID => r.haveComplete /\ x.seq <= r.latestComplete
    BY <1>1, <1>4 DEF Whole, Behind
  <2>2. r.haveComplete => r.latestComplete \in Nat /\ r.latestComplete <= seq
    BY DEF Follows
  <2>3. QED BY <1>2, <2>1, <2>2
<1>5. On(q, id, x) => Writes(us, DOMAIN us, id, x) \/ On(r, id, x)
  BY DEF WithUpdates
<1>6. QED BY <1>1, <1>3, <1>4, <1>5

LEMMA WindowedAfter ==
  ASSUME NEW r, Whole(r), r.duration \in {LongDuration, ShortDuration},
         NEW seq \in Nat, Follows(r, seq), NEW n \in Nat, 0 < n,
         NEW us, NEW q, WithUpdates(r, seq, n, us, q), NEW h, Windowed(h, r)
  PROVE  Windowed(h, q)
<1>1. SUFFICES ASSUME NEW s \in h.segments
               PROVE  /\ s[1] \in Nat /\ s[2] \in Nat /\ s[1] <= q.epochID
                      /\ s[1] = q.epochID =>
                           /\ q.haveComplete /\ s[2] <= q.latestComplete
                           /\ q.latestComplete - s[2] < RepeatWindow(q) =>
                                \E id, x : /\ id[1] = "timed" /\ On(q, id, x)
                                           /\ x.epoch = q.epochID /\ x.seq = s[2]
  BY DEF Windowed
<1>2. PICK w : w = RepeatWindow(r)
  OBVIOUS
<1>3. w \in Nat \ {0} /\ w <= Ring /\ Ring \in Nat \ {0} /\ MaxSegmentParts \in Nat \ {0}
  BY <1>2, WindowFacts, RecorderAssumption
<1>4. /\ q.epochID = r.epochID /\ RepeatWindow(q) = w
      /\ q.haveComplete = TRUE /\ q.latestComplete = seq
  BY <1>2 DEF WithUpdates
<1>5. s[1] \in Nat /\ s[2] \in Nat /\ s[1] <= r.epochID
  BY DEF Windowed
<1>6. SUFFICES ASSUME s[1] = r.epochID
               PROVE  /\ s[2] <= seq
                      /\ seq - s[2] < w =>
                           \E id, x : /\ id[1] = "timed" /\ On(q, id, x)
                                      /\ x.epoch = r.epochID /\ x.seq = s[2]
  BY <1>4, <1>5
<1>7. /\ r.haveComplete /\ s[2] <= r.latestComplete
      /\ r.latestComplete - s[2] < w =>
           \E id, x : id[1] = "timed" /\ On(r, id, x) /\ x.epoch = r.epochID /\ x.seq = s[2]
  BY <1>2, <1>6 DEF Windowed
<1>8. /\ r.latestComplete \in Nat
      /\ r.latestComplete < seq \/ (r.latestComplete = seq /\ seq = 0)
  BY <1>7 DEF Follows
<1>9. s[2] <= seq
  BY <1>5, <1>7, <1>8
<1>10. SUFFICES ASSUME seq - s[2] < w
                PROVE  \E id, x : /\ id[1] = "timed" /\ On(q, id, x)
                                  /\ x.epoch = r.epochID /\ x.seq = s[2]
  BY <1>9
<1>11. CASE s[2] = seq
  <2>1. seq < w /\ 0 \in PartNumbers
    BY <1>3, <1>5, <1>7, <1>8, <1>11 DEF PartNumbers
  <2>2. PICK y : Writes(us, DOMAIN us, TimedModuleID(seq, 0), y)
    BY <1>2, <2>1 DEF WithUpdates, UpdatesDo
  <2>3. y.epoch = r.epochID /\ y.seq = seq
    BY <2>2 DEF WithUpdates, UpdatesDo
  <2>4. On(q, TimedModuleID(seq, 0), y) /\ TimedModuleID(seq, 0)[1] = "timed"
    BY <2>2, TimedIDs DEF WithUpdates
  <2>5. QED BY <1>11, <2>3, <2>4
<1>12. CASE s[2] # seq
  <2>1. PICK id, x : id[1] = "timed" /\ On(r, id, x) /\ x.epoch = r.epochID /\ x.seq = s[2]
    BY <1>5, <1>7, <1>8, <1>10, <1>3
  <2>2. PICK k \in PartNumbers : id = TimedModuleID(s[2], k)
    BY <2>1 DEF Whole
  <2>3. s[2] % Ring # seq % Ring
    <3>1. 0 < seq - s[2] /\ seq - s[2] < Ring /\ Ring \in Int /\ Ring > 0
      BY <1>3, <1>5, <1>9, <1>10, <1>12
    <3>2. QED BY <1>5, <3>1, SlotsApart
  <2>4. seq >= w => s[2] % Ring # (seq - w) % Ring
    <3>1. SUFFICES ASSUME seq >= w PROVE s[2] % Ring # (seq - w) % Ring
      OBVIOUS
    <3>2. PICK b : b = seq - w
      OBVIOUS
    <3>3. b \in Nat /\ 0 < s[2] - b /\ s[2] - b < Ring /\ Ring \in Int /\ Ring > 0
      BY <1>3, <1>5, <1>9, <1>10, <1>12, <3>1, <3>2
    <3>4. QED BY <1>5, <3>2, <3>3, SlotsApart
  <2>5. ~ Touches(us, DOMAIN us, id)
    <3>1. UpdatesDo(r, seq, n, us)
      BY DEF WithUpdates
    <3>2. QED BY <1>2, <2>2, <2>3, <2>4, <3>1, TouchedSlots
  <2>6. On(q, id, x)
    BY <2>1, <2>5 DEF WithUpdates
  <2>7. QED BY <2>1, <2>6
<1>13. QED BY <1>11, <1>12

\* q waits for the same emission as r, or for one that has not been
Still(r, q) ==
  /\ q.realtime = r.realtime
  /\ q.pending = <<>> /\ q.haveComplete =>
       /\ r.pending = <<>> /\ r.haveComplete
       /\ q.epochID = r.epochID /\ q.latestComplete = r.latestComplete /\ q.duration = r.duration

Counted(r) == r.haveComplete <=> r.nextSeq # 0

Numbered(r) == r.haveComplete => r.latestComplete \in Nat /\ r.nextSeq = r.latestComplete + 1

\* what closing segments does to the ring, if what closes follows
RingGoesOn(r, q) ==
  /\ Still(r, q)
  /\ Counted(r) => Counted(q)
  /\ q.err = "none" => r.err = "none"

LEMMA CloseRing ==
  ASSUME NEW r, Segments(r), NEW seq \in DOMAIN r.open, NEW q, q = CloseSegment(r, seq)
  PROVE  /\ RingGoesOn(r, q)
         /\ q.err = "none" /\ r.open[seq] # <<>> /\ Follows(r, seq) =>
              Numbered(q) /\ \A h : Ringed(h, r) => Ringed(h, q)
<1>1. PICK us : us = SegmentUpdates(r, seq)
  OBVIOUS
<1>2. PICK split : split = SplitSegment(r.open[seq])
  OBVIOUS
<1>3. PICK n : n = Len(split.parts)
  OBVIOUS
<1>4. seq \in Nat /\ r.open[seq] \in Seq(Record) /\ r.pending \in Seq(PendingEntry)
  BY DEF Segments
<1>5. n \in Nat /\ n <= MaxSegmentParts /\ (r.open[seq] # <<>> => 0 < n)
  <2>1. /\ split.parts \in Seq(Seq(Record)) /\ Len(split.parts) <= MaxSegmentParts
        /\ r.open[seq] # <<>> => split.parts # <<>>
    BY <1>2, <1>4, SplitSegmentFacts
  <2>2. QED BY <1>3, <2>1
<1>6. us \in Seq(PendingEntry) /\ UpdatesOf(r, seq, n, us)
  BY <1>1, <1>2, <1>3, SegmentUpdatesFacts
<1>7. UpdatesDo(r, seq, n, us)
  BY <1>4, <1>5, <1>6, UpdatesDoFacts DEF Segments
<1>8. us # <<>>
  <2>1. MaxSegmentParts \in Nat \ {0}
    BY RecorderAssumption
  <2>2. 1 \in DOMAIN us
    BY <2>1, <1>6 DEF UpdatesOf
  <2>3. QED BY <2>2
<1>9. ClosedOne(r, seq, us, q)
  BY <1>1, CloseSegmentFacts
<1>10. DOMAIN r = Fields /\ Same(r, q, CloseFields) /\ DOMAIN q = Fields
  BY <1>9 DEF ClosedOne, Segments
<1>11. q.realtime = r.realtime /\ q.epochID = r.epochID /\ q.duration = r.duration
  BY <1>10 DEF Same, Fields, NewRecorder, CloseFields
<1>12. CASE q.err # "none" /\ Same(r, q, {"open", "err"})
  <2>1. /\ q.pending = r.pending /\ q.haveComplete = r.haveComplete
        /\ q.latestComplete = r.latestComplete /\ q.nextSeq = r.nextSeq
    BY <1>10, <1>12 DEF Same, Fields, NewRecorder
  <2>2. QED BY <1>11, <1>12, <2>1 DEF RingGoesOn, Still, Counted
<1>13. CASE /\ q.err = r.err /\ q.pending = r.pending \o us /\ q.nextSeq = seq + 1
            /\ q.haveComplete = TRUE /\ q.latestComplete = seq
  <2>1. q.pending # <<>>
    <3>1. Len(q.pending) = Len(r.pending) + Len(us)
      BY <1>4, <1>6, <1>13, ConcatFacts
    <3>2. Len(us) \in Nat \ {0} /\ Len(r.pending) \in Nat
      BY <1>4, <1>6, <1>8
    <3>3. QED BY <3>1, <3>2
  <2>2. RingGoesOn(r, q)
    BY <1>4, <1>11, <1>13, <2>1 DEF RingGoesOn, Still, Counted
  <2>3. Numbered(q)
    BY <1>4, <1>13 DEF Numbered
  <2>4. WithUpdates(r, seq, n, us, q)
    <3>1. \A id, x : On(q, id, x) <=>
            \/ Writes(us, DOMAIN us, id, x)
            \/ ~ Touches(us, DOMAIN us, id) /\ On(r, id, x)
      <4>1. PICK a \in Seq(PendingEntry) : a = r.pending
        BY <1>4
      <4>2. PICK p : p = q.pending
        OBVIOUS
      <4>3. PICK c : c = r.realtime
        OBVIOUS
      <4>4. us \in Seq(PendingEntry) /\ p = a \o us
        BY <1>6, <1>13, <4>1, <4>2
      <4>5. \A id, x : Holds(p, DOMAIN p, c, id, x) <=>
              \/ Writes(us, DOMAIN us, id, x)
              \/ ~ Touches(us, DOMAIN us, id) /\ Holds(a, DOMAIN a, c, id, x)
        BY <4>4, HoldsAppended
      <4>6. QED BY <1>11, <4>1, <4>2, <4>3, <4>5 DEF On
    <3>2. RepeatWindow(q) = RepeatWindow(r)
      BY <1>11 DEF RepeatWindow
    <3>3. QED BY <1>7, <1>11, <1>13, <3>1, <3>2 DEF WithUpdates
  <2>5. ASSUME r.open[seq] # <<>>, Follows(r, seq), NEW h, Ringed(h, r) PROVE Ringed(h, q)
    <3>1. /\ Whole(r) /\ Behind(r) /\ Windowed(h, r)
          /\ r.epochID \in Nat /\ r.duration \in {LongDuration, ShortDuration}
      BY <2>5 DEF Ringed, Segments
    <3>2. Whole(q)
      BY <1>4, <1>5, <2>4, <3>1, WholeAfter
    <3>3. Behind(q)
      BY <1>4, <2>4, <2>5, <3>1, BehindAfter
    <3>4. Windowed(h, q)
      BY <1>4, <1>5, <2>4, <2>5, <3>1, WindowedAfter
    <3>5. QED BY <3>2, <3>3, <3>4 DEF Ringed
  <2>6. QED BY <2>2, <2>3, <2>5
<1>14. QED BY <1>9, <1>12, <1>13 DEF ClosedOne

\* the fold of CloseSegments again, in.r is the recorder before it
RingStep(in, acc, seq) == CloseSegment(acc, seq)

\* what closing the segments of S needs
Closable(h, r, S) ==
  /\ \A s \in S : r.open[s] # <<>> /\ Follows(r, s)
  /\ Numbered(r) /\ Ringed(h, r)

RingKeeps(in, done, acc) ==
  /\ CloseKept(in.r, done, acc)
  /\ RingGoesOn(in.r, acc)
  /\ acc.err = "none" /\ Closable(in.h, in.r, in.closing) => Numbered(acc) /\ Ringed(in.h, acc)

RingClosings == INSTANCE FoldFacts WITH Step <- RingStep, Keeps <- RingKeeps

LEMMA RingStepKeeps ==
  ASSUME NEW in, Segments(in.r), NEW S, S \subseteq DOMAIN in.r.open, in.closing = S,
         NEW x \in S, NEW acc, RingKeeps(in, RingClosings!Under(S, x), acc)
  PROVE  RingKeeps(in, RingClosings!Through(S, x), RingStep(in, acc, x))
<1>1. PICK r : r = in.r
  OBVIOUS
<1>2. PICK q : q = CloseSegment(acc, x)
  OBVIOUS
<1>3. PICK done : done = RingClosings!Under(S, x)
  OBVIOUS
<1>4. /\ Closings!Under(S, x) = RingClosings!Under(S, x)
      /\ Closings!Through(S, x) = RingClosings!Through(S, x)
  BY DEF Closings!Under, RingClosings!Under, Closings!Through, RingClosings!Through
<1>5. CloseKept(r, done, acc) /\ RingGoesOn(r, acc)
  BY <1>1, <1>3 DEF RingKeeps
<1>6. CloseKept(r, RingClosings!Through(S, x), q)
  BY <1>1, <1>2, <1>3, <1>4, <1>5, CloseStepKeeps DEF CloseStep
<1>7. x \in Nat /\ S \subseteq Nat
  BY <1>1 DEF Segments
<1>8. \A s \in done : s \in Nat /\ s < x
  BY <1>3, <1>7 DEF RingClosings!Under
<1>9. Segments(acc) /\ x \in DOMAIN acc.open /\ acc.open[x] = r.open[x]
  <2>1. ~ (x < x)
    BY <1>7
  <2>2. x \notin done
    BY <1>8, <2>1
  <2>3. QED BY <1>1, <1>5, <2>2 DEF CloseKept
<1>10. /\ RingGoesOn(acc, q)
       /\ q.err = "none" /\ acc.open[x] # <<>> /\ Follows(acc, x) =>
            Numbered(q) /\ \A h : Ringed(h, acc) => Ringed(h, q)
  BY <1>2, <1>9, CloseRing
<1>11. RingGoesOn(r, q)
  BY <1>5, <1>10 DEF RingGoesOn, Still
<1>12. ASSUME q.err = "none", Closable(in.h, r, S) PROVE Numbered(q) /\ Ringed(in.h, q)
  <2>1. acc.err = "none" /\ Numbered(acc) /\ Ringed(in.h, acc)
    BY <1>1, <1>10, <1>12 DEF RingGoesOn, RingKeeps
  <2>2. Follows(acc, x)
    <3>1. CASE done = {}
      <4>1. acc = r
        BY <1>5, <3>1 DEF CloseKept
      <4>2. QED BY <1>12, <4>1 DEF Closable
    <3>2. CASE done # {}
      <4>1. PICK s \in done : acc.nextSeq = s + 1
        BY <1>5, <2>1, <3>2 DEF CloseKept, ClosedWell
      <4>2. s \in Nat /\ s < x
        BY <1>8
      <4>3. QED BY <2>1, <4>1, <4>2 DEF Numbered, Follows
    <3>3. QED BY <3>1, <3>2
  <2>3. acc.open[x] # <<>>
    BY <1>9, <1>12 DEF Closable
  <2>4. QED BY <1>10, <1>12, <2>1, <2>2, <2>3
<1>13. QED BY <1>1, <1>2, <1>6, <1>11, <1>12 DEF RingKeeps, RingStep

LEMMA CloseSegmentsRing ==
  ASSUME NEW r, Segments(r), NEW S, S \subseteq DOMAIN r.open, NEW h,
         NEW q, q = CloseSegments(r, S)
  PROVE  /\ RingGoesOn(r, q)
         /\ q.err = "none" /\ Closable(h, r, S) => Numbered(q) /\ Ringed(h, q)
<1>1. PICK in : in = [r |-> r, h |-> h, closing |-> S]
  OBVIOUS
<1>2. in.r = r /\ in.h = h /\ in.closing = S
  BY <1>1
<1>3. q = RingClosings!FoldUp(in, r, S)
  BY DEF CloseSegments, RingClosings!FoldUp, RingClosings!MapThenFoldSet, MapThenFoldSet,
     RingClosings!Max, Max, RingStep
<1>4. RingKeeps(in, {}, r)
  <2>1. r.err = "none" => ClosedWell(r, {}, r)
    BY DEF ClosedWell, Distinct
  <2>2. CloseKept(r, {}, r)
    BY <2>1 DEF CloseKept, Same, Trimmed
  <2>3. QED BY <1>2, <2>2 DEF RingKeeps, RingGoesOn, Still, Closable
<1>5. \A x \in S : \A acc :
        RingKeeps(in, RingClosings!Under(S, x), acc)
          => RingKeeps(in, RingClosings!Through(S, x), RingStep(in, acc, x))
  BY <1>2, RingStepKeeps
<1>6. IsFiniteSet(S) /\ S \subseteq Nat
  BY FS_Subset DEF Segments
<1>7. RingClosings!IsFiniteSet(S)
  BY <1>6 DEF IsFiniteSet, RingClosings!IsFiniteSet
<1>8. RingKeeps(in, S, RingClosings!FoldUp(in, r, S))
  BY <1>4, <1>5, <1>6, <1>7, RingClosings!FoldUpKeeps
<1>9. QED BY <1>2, <1>3, <1>8 DEF RingKeeps

\* what the ring is told by is as it was
SameRing(r, q) ==
  /\ q.realtime = r.realtime /\ q.pending = r.pending /\ q.err = r.err
  /\ q.epochID = r.epochID /\ q.duration = r.duration /\ q.nextSeq = r.nextSeq
  /\ q.haveComplete = r.haveComplete /\ q.latestComplete = r.latestComplete

LEMMA SameWhole ==
  ASSUME NEW r, NEW q, \A id, x : On(q, id, x) <=> On(r, id, x), Whole(r)
  PROVE  Whole(q)
BY DEF Whole

LEMMA SameRingFacts ==
  ASSUME NEW r, NEW q, SameRing(r, q)
  PROVE  /\ RingGoesOn(r, q)
         /\ Numbered(r) => Numbered(q)
         /\ \A h : Ringed(h, r) => Ringed(h, q)
<1>1. \A id, x : On(q, id, x) <=> On(r, id, x)
  BY DEF SameRing, On
<1>2. RepeatWindow(q) = RepeatWindow(r)
  BY DEF SameRing, RepeatWindow
<1>3. Whole(r) => Whole(q)
  BY <1>1, SameWhole
<1>4. Behind(r) => Behind(q)
  BY <1>1 DEF Behind, SameRing
<1>5. \A h : Windowed(h, r) => Windowed(h, q)
  BY <1>1, <1>2 DEF Windowed, SameRing
<1>6. RingGoesOn(r, q)
  BY DEF SameRing, RingGoesOn, Still, Counted
<1>7. Numbered(r) => Numbered(q)
  BY DEF SameRing, Numbered
<1>8. QED BY <1>3, <1>4, <1>5, <1>6, <1>7 DEF Ringed

-----------------------------------------------------------------------------
(* The order in which segments close.                                      *)

\* an epoch has begun; only its first segment may be open again after it closed
Proceeds(r) ==
  /\ Numbered(r)
  /\ \A s \in DOMAIN r.open : r.open[s] # <<>> /\ (r.nextSeq <= s \/ (s = 0 /\ r.nextSeq = 1))
  /\ r.haveEpoch = TRUE
  /\ r.nextSeq <= Cur(r)
  /\ r.duration = LongDuration /\ r.nextSeq = 0 => Cur(r) = 0

\* the segment of the latest reading is open; UseShortSegments drops the first ones
Present(r) == Cur(r) \in DOMAIN r.open \/ (r.duration # LongDuration /\ Cur(r) <= 1)

Order(r) ==
  IF r.haveEpoch = TRUE THEN Proceeds(r) /\ Present(r)
  ELSE Numbered(r) /\ DOMAIN r.open = {} /\ r.nextSeq = 0

LEMMA OrderIsClosable ==
  ASSUME NEW r, Kept(r), Order(r), NEW h, Ringed(h, r), NEW S, S \subseteq DOMAIN r.open
  PROVE  Closable(h, r, S)
<1>1. Numbered(r)
  BY DEF Order, Proceeds
<1>2. ASSUME NEW s \in S PROVE r.open[s] # <<>> /\ Follows(r, s)
  <2>1. r.open[s] # <<>> /\ (r.nextSeq <= s \/ (s = 0 /\ r.nextSeq = 1))
    BY DEF Order, Proceeds
  <2>2. s \in Nat
    BY DEF Kept, Segments
  <2>3. QED BY <1>1, <2>1, <2>2 DEF Follows, Numbered
<1>3. QED BY <1>1, <1>2 DEF Closable

LEMMA SequenceMonotone ==
  ASSUME NEW r, Kept(r), NEW a \in Nat, NEW b \in Nat, a <= b
  PROVE  SequenceOf(r, a) <= SequenceOf(r, b)
<1>1. r.duration \in Nat \ {0} /\ r.epochBase \in Nat
  BY RecorderAssumption DEF Kept, Segments
<1>2. CASE a <= r.epochBase
  <2>1. SequenceOf(r, a) = 0 /\ SequenceOf(r, b) \in Nat
    BY <1>2, SequenceOfFacts DEF SequenceOf
  <2>2. QED BY <2>1
<1>3. CASE ~ (a <= r.epochBase)
  <2>1. PICK m : m = a - r.epochBase
    OBVIOUS
  <2>2. PICK n : n = b - r.epochBase
    OBVIOUS
  <2>3. /\ m \in Nat /\ n \in Nat /\ m <= n
        /\ r.duration \in Int /\ r.duration > 0
        /\ ~ (b <= r.epochBase)
    BY <1>1, <1>3, <2>1, <2>2
  <2>4. m \div r.duration <= n \div r.duration
    BY <2>3, QuotientMonotone
  <2>5. QED BY <1>3, <2>1, <2>2, <2>3, <2>4 DEF SequenceOf
<1>4. QED BY <1>2, <1>3

LEMMA IDsOfSome ==
  ASSUME NEW s \in Seq(Record)
  PROVE  s # <<>> <=> IDs(s) # {}
<1>1. ASSUME s # <<>> PROVE IDs(s) # {}
  <2>1. 1 \in DOMAIN s
    BY <1>1
  <2>2. s[1].id \in IDs(s)
    BY <2>1 DEF IDs, Range
  <2>3. QED BY <2>2
<1>2. ASSUME s = <<>> PROVE IDs(s) = {}
  BY <1>2 DEF IDs, Range
<1>3. QED BY <1>1, <1>2

\* a record of ntp joins its segment
LEMMA AddedOrder ==
  ASSUME NEW r, Kept(r), NEW ntp \in Nat, Proceeds(r),
         Present(r) \/ SequenceOf(r, ntp) = Cur(r),
         NEW seq, seq = SegmentFor(r, ntp), NEW x, NEW q, Kept(q), Added(r, q, seq, x),
         SameRing(r, q)
  PROVE  Order(q)
<1>1. /\ Cur(r) \in Nat /\ r.nextSeq \in Nat /\ DOMAIN r.open \subseteq Nat
      /\ SequenceOf(r, ntp) \in Nat
  BY CurIsNat, SequenceOfFacts
<1>2. /\ seq \in Nat
      /\ \/ seq \in DOMAIN r.open
         \/ /\ seq = SequenceOf(r, ntp)
            /\ SequenceOf(r, ntp) < r.nextSeq => DOMAIN r.open = {}
      /\ ~ (SequenceOf(r, ntp) < r.nextSeq) => seq = SequenceOf(r, ntp)
  BY SegmentForFacts
<1>3. /\ q.haveEpoch = r.haveEpoch /\ q.latestNTP = r.latestNTP /\ q.epochBase = r.epochBase
      /\ q.duration = r.duration /\ q.nextSeq = r.nextSeq
      /\ DOMAIN q.open = DOMAIN r.open \cup {seq}
  BY DEF Added, SameTimes, SameRing
<1>4. Cur(q) = Cur(r)
  BY <1>3 DEF Cur, SequenceOf
<1>5. Numbered(q)
  BY SameRingFacts DEF Proceeds
<1>6. /\ \A s \in DOMAIN r.open : r.open[s] # <<>> /\ (r.nextSeq <= s \/ (s = 0 /\ r.nextSeq = 1))
      /\ r.haveEpoch = TRUE /\ r.nextSeq <= Cur(r)
      /\ r.duration = LongDuration /\ r.nextSeq = 0 => Cur(r) = 0
  BY DEF Proceeds
<1>7. r.nextSeq <= seq \/ (seq = 0 /\ r.nextSeq = 1)
  <2>1. CASE seq \in DOMAIN r.open
    BY <1>6, <2>1
  <2>2. CASE seq = SequenceOf(r, ntp) /\ ~ (seq < r.nextSeq)
    BY <1>1, <2>2
  <2>3. CASE seq = SequenceOf(r, ntp) /\ seq < r.nextSeq /\ DOMAIN r.open = {}
    BY <1>1, <1>6, <2>3 DEF Present
  <2>4. QED BY <1>2, <2>1, <2>2, <2>3
<1>8. \A s \in DOMAIN q.open : q.open[s] # <<>>
  <2>1. \A s \in DOMAIN q.open : q.open[s] \in Seq(Record)
    BY DEF Kept, Segments
  <2>2. \A s \in DOMAIN r.open : IDs(r.open[s]) # {}
    <3>1. \A s \in DOMAIN r.open : r.open[s] \in Seq(Record)
      BY DEF Kept, Segments
    <3>2. QED BY <1>6, <3>1, IDsOfSome
  <2>3. \A s \in DOMAIN q.open : IDs(q.open[s]) # {}
    BY <1>3, <2>2 DEF Added
  <2>4. QED BY <2>1, <2>3, IDsOfSome
<1>9. Proceeds(q)
  BY <1>3, <1>4, <1>5, <1>6, <1>7, <1>8 DEF Proceeds
<1>10. Present(q)
  <2>1. CASE Present(r)
    BY <1>3, <1>4, <2>1 DEF Present
  <2>2. CASE SequenceOf(r, ntp) = Cur(r)
    <3>1. seq = Cur(r)
      BY <1>1, <1>2, <1>6, <2>2
    <3>2. QED BY <1>3, <1>4, <3>1 DEF Present
  <2>3. QED BY <2>1, <2>2
<1>11. QED BY <1>3, <1>6, <1>9, <1>10 DEF Order

\* what a step does to the ring
Rings(h, r, q) ==
  /\ RingGoesOn(r, q)
  /\ q.err = "none" /\ Order(r) /\ Ringed(h, r) => Order(q) /\ Ringed(h, q)

LEMMA StartRing ==
  ASSUME NEW r, Kept(r), NEW ntp \in Nat, NEW q, q = StartEpoch(r, ntp)
  PROVE  /\ SameRing(r, q)
         /\ r.haveEpoch # TRUE /\ Order(r) => Proceeds(q) /\ SequenceOf(q, ntp) = Cur(q)
<1>1. DOMAIN r = Fields
  BY DEF Kept, Segments
<1>2. /\ q.haveEpoch = TRUE /\ q.latestNTP = ntp /\ q.epochBase = ntp
      /\ Same(r, q, {"epochBase", "haveEpoch", "latestNTP"})
  BY <1>1 DEF StartEpoch, Same, Fields, NewRecorder
<1>3. SameRing(r, q) /\ q.open = r.open
  BY <1>1, <1>2 DEF Same, Fields, NewRecorder, SameRing
<1>4. SequenceOf(q, ntp) = 0 /\ Cur(q) = 0
  BY <1>2 DEF Cur, SequenceOf
<1>5. ASSUME r.haveEpoch # TRUE, Order(r) PROVE Proceeds(q)
  <2>1. Numbered(r) /\ DOMAIN r.open = {} /\ r.nextSeq = 0
    BY <1>5 DEF Order
  <2>2. Numbered(q) /\ q.nextSeq = 0
    BY <1>3, <2>1, SameRingFacts DEF SameRing
  <2>3. QED BY <1>2, <1>3, <1>4, <2>1, <2>2 DEF Proceeds
<1>6. QED BY <1>3, <1>4, <1>5

\* before a record of ntp is taken
Awaits(r, ntp) == Proceeds(r) /\ (Present(r) \/ SequenceOf(r, ntp) = Cur(r))

LEMMA AddRecordRing ==
  ASSUME NEW r, Kept(r), NEW ntp \in Nat, NEW x \in Record, NEW q, q = AddRecord(r, ntp, x)
  PROVE  /\ RingGoesOn(r, q)
         /\ \A h : Ringed(h, r) => Ringed(h, q)
         /\ Order(r) \/ Awaits(r, ntp) => Order(q)
<1>1. PICK ready : ready = IF r.haveEpoch THEN r ELSE StartEpoch(r, ntp)
  OBVIOUS
<1>2. PICK seq : seq = SegmentFor(ready, ntp)
  OBVIOUS
<1>3. Carries(r, q) /\ Kept(ready) /\ Added(ready, q, seq, x)
  BY <1>1, <1>2, AddRecordFacts
<1>4. SameRing(r, ready)
  <2>1. CASE r.haveEpoch
    BY <1>1, <2>1 DEF SameRing
  <2>2. CASE ~ r.haveEpoch
    BY <1>1, <2>2, StartRing
  <2>3. QED BY <2>1, <2>2
<1>5. SameRing(ready, q)
  <2>1. DOMAIN ready = Fields
    BY <1>3 DEF Kept, Segments
  <2>2. PICK f : q = [ready EXCEPT !.open = f]
    BY <1>1, <1>2 DEF AddRecord
  <2>3. QED BY <2>1, <2>2 DEF SameRing, Fields, NewRecorder
<1>6. SameRing(r, q)
  BY <1>4, <1>5 DEF SameRing
<1>7. ASSUME Order(r) \/ Awaits(r, ntp) PROVE Order(q)
  <2>1. Awaits(ready, ntp)
    <3>1. CASE r.haveEpoch = TRUE
      BY <1>1, <1>7, <3>1 DEF Order, Awaits
    <3>2. CASE r.haveEpoch # TRUE
      <4>1. Order(r) /\ ~ r.haveEpoch
        BY <1>7, <3>2 DEF Awaits, Proceeds
      <4>2. QED BY <1>1, <3>2, <4>1, StartRing DEF Awaits
    <3>3. QED BY <3>1, <3>2
  <2>2. QED BY <1>2, <1>3, <1>5, <2>1, AddedOrder DEF Awaits, Carries
<1>8. QED BY <1>6, <1>7, SameRingFacts

LEMMA NewEpochRing ==
  ASSUME NEW r, Kept(r), NEW ntp \in Nat, NEW q, q = NewEpoch(r, ntp)
  PROVE  /\ RingGoesOn(r, q)
         /\ \A h : q.err = "none" /\ Order(r) /\ Ringed(h, r) => Awaits(q, ntp) /\ Ringed(h, q)
<1>1. PICK f : f = FlushOpen(r)
  OBVIOUS
<1>2. Renewed(r, f, q, ntp) /\ Segments(r)
  BY <1>1, NewEpochFacts DEF Kept
<1>3. DOMAIN f = Fields /\ f.epochID \in Nat
  BY <1>2 DEF Renewed, CloseKept, Segments
<1>4. /\ q.epochID = f.epochID + 1 /\ q.haveComplete = FALSE /\ q.nextSeq = 0
      /\ q.realtime = f.realtime /\ q.pending = f.pending /\ q.err = f.err
      /\ DOMAIN q.open = {}
      /\ q.haveEpoch = TRUE /\ q.latestNTP = ntp /\ q.epochBase = ntp
  <2>1. PICK s : s = StartEpoch(f, ntp)
    OBVIOUS
  <2>2. DOMAIN s = Fields /\ s.epochID = f.epochID /\ s.realtime = f.realtime
    BY <1>3, <2>1 DEF StartEpoch, Fields, NewRecorder
  <2>3. q = [s EXCEPT !.epochID = s.epochID + 1, !.nextSeq = 0, !.haveComplete = FALSE,
                      !.open = Nothing, !.avmapDirty = s.avmapDirty \/ f.avmap # {}]
    BY <1>1, <2>1 DEF NewEpoch
  <2>4. q.epochID = f.epochID + 1 /\ q.haveComplete = FALSE /\ q.realtime = f.realtime
    BY <2>2, <2>3 DEF Fields, NewRecorder
  <2>5. QED BY <1>2, <2>4 DEF Renewed, Nothing
<1>5. /\ RingGoesOn(r, f)
      /\ \A h : f.err = "none" /\ Closable(h, r, DOMAIN r.open) => Numbered(f) /\ Ringed(h, f)
  BY <1>1, <1>2, CloseSegmentsRing DEF FlushOpen
<1>6. RingGoesOn(r, q)
  BY <1>4, <1>5 DEF RingGoesOn, Still, Counted
<1>7. ASSUME NEW h, q.err = "none", Order(r), Ringed(h, r) PROVE Awaits(q, ntp) /\ Ringed(h, q)
  <2>1. Ringed(h, f)
    BY <1>4, <1>5, <1>7, OrderIsClosable
  <2>2. \A id, x : On(q, id, x) <=> On(f, id, x)
    BY <1>4 DEF On
  <2>3. Whole(q)
    BY <2>1, <2>2 DEF Ringed, Whole
  <2>4. Behind(q)
    <3>1. SUFFICES ASSUME NEW id, NEW x, id[1] = "timed", On(q, id, x)
                   PROVE  x.epoch <= q.epochID /\ x.epoch # q.epochID
      BY DEF Behind
    <3>2. x.epoch \in Nat /\ x.epoch <= f.epochID
      BY <2>1, <2>2, <3>1 DEF Ringed, Whole, Behind
    <3>3. QED BY <1>3, <1>4, <3>2
  <2>5. Windowed(h, q)
    <3>1. SUFFICES ASSUME NEW s \in h.segments
                   PROVE  /\ s[1] \in Nat /\ s[2] \in Nat
                          /\ s[1] <= q.epochID /\ s[1] # q.epochID
      BY DEF Windowed
    <3>2. s[1] \in Nat /\ s[2] \in Nat /\ s[1] <= f.epochID
      BY <2>1 DEF Ringed, Windowed
    <3>3. QED BY <1>3, <1>4, <3>2
  <2>6. SequenceOf(q, ntp) = 0 /\ Cur(q) = 0
    BY <1>4 DEF Cur, SequenceOf
  <2>7. Numbered(q)
    BY <1>4 DEF Numbered
  <2>8. QED BY <1>4, <2>3, <2>4, <2>5, <2>6, <2>7 DEF Awaits, Proceeds, Ringed
<1>8. QED BY <1>6, <1>7

LEMMA ElapsedRing ==
  ASSUME NEW r, Kept(r), r.haveEpoch = TRUE, NEW ntp \in Nat,
         NEW s, s = [r EXCEPT !.latestNTP = Max({r.latestNTP, ntp})],
         NEW q, q = CloseElapsed(s)
  PROVE  /\ RingGoesOn(r, q)
         /\ \A h : q.err = "none" /\ Order(r) /\ Ringed(h, r) => Awaits(q, ntp) /\ Ringed(h, q)
<1>1. PICK S : S = {seq \in DOMAIN s.open : seq < SequenceOf(s, s.latestNTP)}
  OBVIOUS
<1>2. Elapsed(r, s, S, q, ntp)
  BY <1>1, CloseElapsedFacts
<1>3. DOMAIN r = Fields
  BY DEF Kept, Segments
<1>4. SameRing(r, s) /\ s.open = r.open /\ s.epochBase = r.epochBase /\ s.duration = r.duration
  BY <1>2, <1>3 DEF Elapsed, Same, Fields, NewRecorder, SameRing
<1>5. /\ q.duration = r.duration /\ q.epochBase = r.epochBase
      /\ q.haveEpoch = TRUE /\ q.latestNTP = s.latestNTP
      /\ CloseKept(s, S, q) /\ Kept(q)
  BY <1>2 DEF Elapsed, Carries
<1>6. /\ s.latestNTP \in Nat /\ s.latestNTP \in {r.latestNTP, ntp}
      /\ r.latestNTP \in Nat /\ r.latestNTP <= s.latestNTP
  <2>1. r.latestNTP \in Nat /\ s.latestNTP = Max({r.latestNTP, ntp})
    BY <1>2 DEF Elapsed, Kept
  <2>2. /\ Max({r.latestNTP, ntp}) \in {r.latestNTP, ntp}
        /\ Max({r.latestNTP, ntp}) >= r.latestNTP
    BY <2>1, MaxOfTwo
  <2>3. QED BY <2>1, <2>2
<1>7. \A m : SequenceOf(q, m) = SequenceOf(r, m) /\ SequenceOf(s, m) = SequenceOf(r, m)
  BY <1>4, <1>5 DEF SequenceOf
<1>8. PICK c : c = Cur(q)
  OBVIOUS
<1>9. c \in Nat /\ Cur(r) \in Nat /\ Cur(r) <= c /\ c = SequenceOf(r, s.latestNTP)
  <2>1. c = SequenceOf(r, s.latestNTP)
    BY <1>5, <1>7, <1>8 DEF Cur
  <2>2. QED BY <1>6, <2>1, SequenceMonotone, SequenceOfFacts DEF Cur
<1>10. S = {seq \in DOMAIN r.open : seq < c}
  BY <1>1, <1>4, <1>7, <1>9
<1>11. Segments(s)
  <2>1. r.closedSegments = s.closedSegments /\ s.losses = r.losses /\ DOMAIN s = Fields
        /\ s.avmap = r.avmap /\ s.avmapDirty = r.avmapDirty
    BY <1>2, <1>3 DEF Elapsed, Same, Fields, NewRecorder
  <2>2. QED BY <1>4, <2>1 DEF Kept, Segments, SameRing
<1>12. /\ RingGoesOn(s, q)
       /\ \A h : q.err = "none" /\ Closable(h, s, S) => Numbered(q) /\ Ringed(h, q)
  <2>1. S \subseteq DOMAIN s.open
    BY <1>1
  <2>2. QED BY <1>1, <1>11, <2>1, CloseSegmentsRing DEF CloseElapsed
<1>13. RingGoesOn(r, q)
  <2>1. RingGoesOn(r, s)
    BY <1>4, SameRingFacts
  <2>2. QED BY <1>12, <2>1 DEF RingGoesOn, Still
<1>14. ASSUME NEW h, q.err = "none", Order(r), Ringed(h, r) PROVE Awaits(q, ntp) /\ Ringed(h, q)
  <2>1. /\ Proceeds(r) /\ Present(r)
    BY <1>14 DEF Order
  <2>2. Closable(h, r, S)
    BY <1>10, <1>14, OrderIsClosable
  <2>3. Closable(h, s, S)
    BY <1>4, <2>2, SameRingFacts DEF Closable, Follows, SameRing
  <2>4. Numbered(q) /\ Ringed(h, q)
    BY <1>12, <1>14, <2>3
  <2>5. /\ DOMAIN q.open = DOMAIN r.open \ S
        /\ \A t \in DOMAIN q.open : q.open[t] = r.open[t]
        /\ S = {} => q = s
        /\ S # {} => \E t \in S : q.nextSeq = t + 1
    BY <1>4, <1>5, <1>14 DEF CloseKept, ClosedWell
  <2>6. DOMAIN r.open \subseteq Nat /\ r.nextSeq \in Nat /\ s.nextSeq = r.nextSeq
    BY <1>4 DEF Kept, Segments, SameRing
  <2>7. /\ \A t \in DOMAIN r.open : r.open[t] # <<>> /\ (r.nextSeq <= t \/ (t = 0 /\ r.nextSeq = 1))
        /\ r.nextSeq <= Cur(r)
        /\ r.duration = LongDuration /\ r.nextSeq = 0 => Cur(r) = 0
    BY <2>1 DEF Proceeds
  <2>8. \A t \in DOMAIN q.open : t \in DOMAIN r.open /\ c <= t /\ q.open[t] # <<>>
    <3>1. SUFFICES ASSUME NEW t \in DOMAIN q.open
                   PROVE  t \in DOMAIN r.open /\ c <= t /\ q.open[t] # <<>>
      OBVIOUS
    <3>2. t \in DOMAIN r.open /\ t \notin S /\ q.open[t] = r.open[t] /\ t \in Nat
      BY <2>5, <2>6
    <3>3. ~ (t < c)
      BY <1>10, <3>2
    <3>4. QED BY <1>9, <2>7, <3>2, <3>3
  <2>9. q.nextSeq \in Nat /\ q.nextSeq <= c /\ (S # {} => q.nextSeq # 0)
    <3>1. CASE S = {}
      <4>1. q.nextSeq = r.nextSeq /\ r.nextSeq \in Nat
        BY <2>5, <2>6, <3>1
      <4>2. r.nextSeq <= Cur(r)
        BY <2>7
      <4>3. QED BY <1>9, <3>1, <4>1, <4>2
    <3>2. CASE S # {}
      <4>1. PICK t \in S : q.nextSeq = t + 1
        BY <2>5, <3>2
      <4>2. t \in Nat /\ t < c
        BY <1>10, <2>6
      <4>3. QED BY <1>9, <4>1, <4>2
    <3>3. QED BY <3>1, <3>2
  <2>10. ASSUME r.duration = LongDuration, q.nextSeq = 0 PROVE c = 0
    <3>1. S = {} /\ r.nextSeq = 0
      BY <2>5, <2>6, <2>9, <2>10
    <3>2. 0 \in DOMAIN r.open
      BY <2>1, <2>7, <2>10, <3>1 DEF Present
    <3>3. QED BY <1>9, <1>10, <3>1, <3>2
  <2>11. Proceeds(q)
    <3>1. \A t \in DOMAIN q.open : q.open[t] # <<>> /\ q.nextSeq <= t
      <4>1. SUFFICES ASSUME NEW t \in DOMAIN q.open PROVE q.open[t] # <<>> /\ q.nextSeq <= t
        OBVIOUS
      <4>2. t \in Nat /\ c <= t /\ q.open[t] # <<>>
        BY <2>6, <2>8
      <4>3. QED BY <1>9, <2>9, <4>2
    <3>2. QED BY <1>5, <1>8, <2>4, <2>9, <2>10, <3>1 DEF Proceeds
  <2>12. Present(q) \/ SequenceOf(q, ntp) = c
    <3>1. CASE s.latestNTP = ntp
      BY <1>7, <1>9, <3>1
    <3>2. CASE s.latestNTP = r.latestNTP
      <4>1. c = Cur(r)
        BY <1>9, <3>2 DEF Cur
      <4>2. c \in DOMAIN r.open => c \in DOMAIN q.open
        BY <1>9, <1>10, <2>5
      <4>3. QED BY <1>5, <1>8, <2>1, <4>1, <4>2 DEF Present
    <3>3. QED BY <1>6, <3>1, <3>2
  <2>13. QED BY <1>8, <2>4, <2>11, <2>12 DEF Awaits
<1>15. QED BY <1>13, <1>14

LEMMA ObserveRing ==
  ASSUME NEW r, Kept(r), NEW ntp \in Nat, NEW q, q = Observe(r, ntp)
  PROVE  /\ RingGoesOn(r, q)
         /\ \A h : q.err = "none" /\ Order(r) /\ Ringed(h, r) => Awaits(q, ntp) /\ Ringed(h, q)
<1>1. CASE ~ r.haveEpoch
  <2>1. /\ SameRing(r, q)
        /\ r.haveEpoch # TRUE /\ Order(r) => Proceeds(q) /\ SequenceOf(q, ntp) = Cur(q)
    BY <1>1, StartRing DEF Observe
  <2>2. QED BY <1>1, <2>1, SameRingFacts DEF Awaits
<1>2. CASE r.haveEpoch /\ Jumps(r, ntp)
  BY <1>2, NewEpochRing DEF Observe
<1>3. CASE r.haveEpoch /\ ~ Jumps(r, ntp)
  BY <1>3, ElapsedRing DEF Observe
<1>4. QED BY <1>1, <1>2, <1>3

\* the ring on the air of r, and what a receiver has of it
OnTheAir(h, r) ==
  /\ \A id \in DOMAIN r.realtime.modules : id[1] = "timed" =>
       \A part \in PartNumbers :
         LET m == r.realtime.modules[id].stored
             k == TimedModuleID(m.seq, part)
         IN  IF part >= m.count THEN k \notin DOMAIN r.realtime.modules
             ELSE /\ k \in DOMAIN r.realtime.modules
                  /\ r.realtime.modules[k].stored.seq = m.seq
                  /\ r.realtime.modules[k].stored.epoch = m.epoch
  /\ \A s \in h.segments :
       /\ s[1] = r.epochID /\ r.haveComplete /\ r.pending = <<>>
       /\ r.latestComplete - s[2] < RepeatWindow(r)
       => \E id \in DOMAIN r.realtime.modules :
            /\ id[1] = "timed"
            /\ r.realtime.modules[id].stored.epoch = r.epochID
            /\ r.realtime.modules[id].stored.seq = s[2]

LEMMA OnTheAirIsRingKept == OnTheAir(heard, rec) <=> RingKept
BY DEF OnTheAir, RingKept, WholeSegments, WindowKept, Carried, PartNumbers

LEMMA NothingPending ==
  ASSUME NEW r, r.pending = <<>>, NEW id, NEW x
  PROVE  On(r, id, x) <=> InCarousel(r.realtime, id, x)
<1>1. DOMAIN r.pending = {}
  OBVIOUS
<1>2. QED BY <1>1, HoldsNothing DEF On

LEMMA RingedIsOnTheAir ==
  ASSUME NEW r, r.pending = <<>>, NEW h, Ringed(h, r)
  PROVE  OnTheAir(h, r)
<1>1. \A id, x : On(r, id, x) <=> InCarousel(r.realtime, id, x)
  BY NothingPending
<1>2. PICK c : c = r.realtime.modules
  OBVIOUS
<1>3. ASSUME NEW id \in DOMAIN c, id[1] = "timed", NEW part \in PartNumbers,
             NEW m, m = c[id].stored, NEW k, k = TimedModuleID(m.seq, part)
      PROVE  IF part >= m.count THEN k \notin DOMAIN c
             ELSE k \in DOMAIN c /\ c[k].stored.seq = m.seq /\ c[k].stored.epoch = m.epoch
  <2>1. On(r, id, m)
    BY <1>1, <1>2, <1>3 DEF InCarousel
  <2>whole. Whole(r)
    BY DEF Ringed
  <2>parts. /\ m.count \in Nat
        /\ \A j \in PartNumbers :
             IF j < m.count
             THEN \E y : On(r, TimedModuleID(m.seq, j), y) /\ y.epoch = m.epoch /\ y.seq = m.seq
             ELSE \A y : ~ On(r, TimedModuleID(m.seq, j), y)
    <3>1. id[1] = "timed" /\ On(r, id, m)
      BY <1>3, <2>1
    <3>2. QED BY <2>whole, <3>1 DEF Whole
  <2>2. /\ m.count \in Nat
        /\ IF part < m.count THEN \E y : On(r, k, y) /\ y.epoch = m.epoch /\ y.seq = m.seq
           ELSE \A y : ~ On(r, k, y)
    BY <1>3, <2>parts
  <2>3. part \in Int
    BY RecorderAssumption DEF PartNumbers
  <2>4. CASE part < m.count
    <3>1. PICK y : On(r, k, y) /\ y.epoch = m.epoch /\ y.seq = m.seq
      BY <2>2, <2>4
    <3>2. k \in DOMAIN c /\ c[k].stored = y
      BY <1>1, <1>2, <3>1 DEF InCarousel
    <3>3. QED BY <2>2, <2>3, <2>4, <3>1, <3>2
  <2>5. CASE ~ (part < m.count)
    <3>1. ~ On(r, k, c[k].stored)
      BY <2>2, <2>5
    <3>2. k \notin DOMAIN c
      BY <1>1, <1>2, <3>1 DEF InCarousel
    <3>3. QED BY <2>2, <2>3, <2>5, <3>2
  <2>6. QED BY <2>4, <2>5
<1>4. ASSUME NEW s \in h.segments, s[1] = r.epochID,
             r.latestComplete - s[2] < RepeatWindow(r)
      PROVE  \E id \in DOMAIN c : /\ id[1] = "timed"
                                  /\ c[id].stored.epoch = r.epochID /\ c[id].stored.seq = s[2]
  <2>1. PICK id, x : id[1] = "timed" /\ On(r, id, x) /\ x.epoch = r.epochID /\ x.seq = s[2]
    BY <1>4 DEF Ringed, Windowed
  <2>2. id \in DOMAIN c /\ c[id].stored = x
    BY <1>1, <1>2, <2>1 DEF InCarousel
  <2>3. QED BY <2>1, <2>2
<1>5. QED BY <1>2, <1>3, <1>4 DEF OnTheAir

LEMMA StillOnTheAir ==
  ASSUME NEW r, NEW q, Still(r, q), NEW h, OnTheAir(h, r)
  PROVE  OnTheAir(h, q)
<1>1. q.realtime = r.realtime
  BY DEF Still
<1>2. ASSUME q.pending = <<>>, q.haveComplete
      PROVE  /\ r.pending = <<>> /\ r.haveComplete
             /\ q.epochID = r.epochID /\ q.latestComplete = r.latestComplete
             /\ RepeatWindow(q) = RepeatWindow(r)
  BY <1>2 DEF Still, RepeatWindow
<1>3. QED BY <1>1, <1>2 DEF OnTheAir

\* the installation puts in the carousel what was to be on the air
LEMMA SameOnTheAir ==
  ASSUME NEW r, NEW q, \A id, x : id[1] = "timed" => (On(q, id, x) <=> On(r, id, x)),
         q.epochID = r.epochID, q.duration = r.duration,
         q.haveComplete = r.haveComplete, q.latestComplete = r.latestComplete,
         NEW h, Ringed(h, r)
  PROVE  Ringed(h, q)
<1>1. \A s, k, x : On(q, TimedModuleID(s, k), x) <=> On(r, TimedModuleID(s, k), x)
  BY TimedIDs
<1>2. RepeatWindow(q) = RepeatWindow(r)
  BY DEF RepeatWindow
<1>whole. Whole(r)
  BY DEF Ringed
<1>3. Whole(q)
  <2>1. SUFFICES ASSUME NEW id, NEW x, id[1] = "timed", On(q, id, x)
                 PROVE  /\ x.epoch \in Nat /\ x.seq \in Nat /\ x.count \in Nat
                        /\ \E k \in PartNumbers : k < x.count /\ id = TimedModuleID(x.seq, k)
                        /\ \A k \in PartNumbers :
                             IF k < x.count
                             THEN \E y : On(q, TimedModuleID(x.seq, k), y)
                                         /\ y.epoch = x.epoch /\ y.seq = x.seq
                             ELSE \A y : ~ On(q, TimedModuleID(x.seq, k), y)
    BY DEF Whole
  <2>2. id[1] = "timed" /\ On(r, id, x)
    BY <2>1
  <2>3. /\ x.epoch \in Nat /\ x.seq \in Nat /\ x.count \in Nat
        /\ \E k \in PartNumbers : k < x.count /\ id = TimedModuleID(x.seq, k)
        /\ \A k \in PartNumbers :
             IF k < x.count
             THEN \E y : On(r, TimedModuleID(x.seq, k), y) /\ y.epoch = x.epoch /\ y.seq = x.seq
             ELSE \A y : ~ On(r, TimedModuleID(x.seq, k), y)
    BY <1>whole, <2>2 DEF Whole
  <2>4. QED BY <1>1, <2>3
<1>4. Behind(q)
  BY DEF Ringed, Behind
<1>5. Windowed(h, q)
  BY <1>2 DEF Ringed, Windowed
<1>6. QED BY <1>3, <1>4, <1>5 DEF Ringed

\* what an installation, and then an emission, leaves of the ring
RingAsBefore(r, q) ==
  /\ q.epochID = r.epochID /\ q.duration = r.duration /\ q.nextSeq = r.nextSeq
  /\ q.haveComplete = r.haveComplete /\ q.latestComplete = r.latestComplete
  /\ q.open = r.open /\ SameTimes(r, q)

LEMMA InstalledRing ==
  ASSUME NEW r, DOMAIN r = Fields, NEW q, Same(r, q, InstallFields), SegmentsInstalled(r, q),
         NEW h, Ringed(h, r)
  PROVE  Ringed(h, q) /\ RingAsBefore(r, q) /\ q.pending = <<>>
<1>1. RingAsBefore(r, q)
  BY DEF Same, Fields, NewRecorder, InstallFields, CommitFields, BootstrapFields,
     RingAsBefore, SameTimes
<1>2. q.pending = <<>>
  BY DEF SegmentsInstalled
<1>3. \A id, x : id[1] = "timed" => (InCarousel(q.realtime, id, x) <=> On(r, id, x))
  BY DEF SegmentsInstalled
<1>4. \A id, x : id[1] = "timed" => (On(q, id, x) <=> On(r, id, x))
  BY <1>2, <1>3, NothingPending
<1>5. QED BY <1>1, <1>2, <1>4, SameOnTheAir DEF RingAsBefore

\* the emission tells a receiver of no other segment
Told(h, c, g) ==
  \A s \in g.segments :
    \/ s \in h.segments
    \/ \E id, x : id[1] = "timed" /\ InCarousel(c, id, x) /\ s[1] = x.epoch /\ s[2] = x.seq

LEMMA ToldFacts ==
  ASSUME NEW t, NEW c, NEW h, h = heard, NEW g, g = Hears(c, t)
  PROVE  Told(h, c, g)
<1> DEFINE timed == OfKind(c, Due(c, t), "timed")
<1>1. g.segments = h.segments \cup {<<m.epoch, m.seq>> : m \in timed}
  BY DEF Hears
<1>2. \A m \in timed : \E id : id[1] = "timed" /\ InCarousel(c, id, m)
  BY DEF OfKind, Due, InCarousel
<1> HIDE DEF timed
<1>3. QED BY <1>1, <1>2 DEF Told

LEMMA AirTold ==
  ASSUME NEW t, NEW q, NEW done, Air(q, t, done), state' # "failed", Shape(q.realtime)
  PROVE  Told(heard, q.realtime, heard')
<1>1. heard' = Hears(Rebuilt(q.realtime, t), t)
  BY DEF Air
<1>2. PICK g : g = heard'
  OBVIOUS
<1>3. PICK h : h = heard
  OBVIOUS
<1>4. PICK b : b = Rebuilt(q.realtime, t)
  OBVIOUS
<1>5. b.modules = q.realtime.modules
  BY <1>4 DEF Rebuilt, Shape, CarouselFields, NewCarousel
<1>6. Told(h, b, g)
  <2>1. g = Hears(b, t)
    BY <1>1, <1>2, <1>4
  <2>2. QED BY <1>3, <2>1, ToldFacts
<1>7. Told(h, q.realtime, g)
  BY <1>5, <1>6 DEF Told, InCarousel
<1>8. QED BY <1>2, <1>3, <1>7

LEMMA AiredRing ==
  ASSUME NEW q, DOMAIN q = Fields, q.pending = <<>>, NEW h, Ringed(h, q),
         NEW p, NEW g, Aired(q, p, g), Told(h, q.realtime, g)
  PROVE  Ringed(g, p) /\ RingAsBefore(q, p) /\ OnTheAir(g, p)
<1>1. RingAsBefore(q, p) /\ p.pending = <<>>
  BY DEF Aired, Same, Fields, NewRecorder, RingAsBefore, SameTimes
<1>2. \A id, x : InCarousel(p.realtime, id, x) <=> InCarousel(q.realtime, id, x)
  BY DEF Aired, InCarousel
<1>3. \A id, x : On(p, id, x) <=> On(q, id, x)
  BY <1>1, <1>2, NothingPending
<1>4. Ringed(h, p)
  BY <1>1, <1>3, SameOnTheAir DEF RingAsBefore
<1>5. Windowed(g, p)
  <2>1. SUFFICES ASSUME NEW s \in g.segments
                 PROVE  /\ s[1] \in Nat /\ s[2] \in Nat /\ s[1] <= p.epochID
                        /\ s[1] = p.epochID =>
                             /\ p.haveComplete /\ s[2] <= p.latestComplete
                             /\ p.latestComplete - s[2] < RepeatWindow(p) =>
                                  \E id, x : /\ id[1] = "timed" /\ On(p, id, x)
                                             /\ x.epoch = p.epochID /\ x.seq = s[2]
    BY DEF Windowed
  <2>2. CASE s \in h.segments
    BY <1>4, <2>2 DEF Ringed, Windowed
  <2>3. CASE s \notin h.segments
    <3>1. PICK id, x : id[1] = "timed" /\ InCarousel(q.realtime, id, x)
                       /\ s[1] = x.epoch /\ s[2] = x.seq
      BY <2>3 DEF Told
    <3>2. On(p, id, x)
      BY <1>1, <1>2, <3>1, NothingPending
    <3>3. /\ x.epoch \in Nat /\ x.seq \in Nat /\ x.epoch <= p.epochID
          /\ x.epoch = p.epochID => p.haveComplete /\ x.seq <= p.latestComplete
      BY <1>4, <3>1, <3>2 DEF Ringed, Whole, Behind
    <3>4. QED BY <3>1, <3>2, <3>3
  <2>4. QED BY <2>2, <2>3
<1>6. Ringed(g, p)
  BY <1>4, <1>5 DEF Ringed
<1>7. QED BY <1>1, <1>6, RingedIsOnTheAir

-----------------------------------------------------------------------------
(* The steps of the ring.                                                  *)

\* nothing the ring or the order is told by has changed
Untold(r, q) == SameRing(r, q) /\ SameTimes(r, q) /\ q.open = r.open

LEMMA UntoldRings ==
  ASSUME NEW r, NEW q, Untold(r, q), NEW h
  PROVE  Rings(h, r, q)
<1>1. Cur(q) = Cur(r)
  BY DEF Untold, SameRing, SameTimes, Cur, SequenceOf
<1>2. Numbered(r) => Numbered(q)
  BY SameRingFacts DEF Untold
<1>3. Proceeds(r) => Proceeds(q)
  BY <1>1, <1>2 DEF Untold, SameRing, SameTimes, Proceeds
<1>4. Order(r) => Order(q)
  BY <1>1, <1>2, <1>3 DEF Untold, SameRing, SameTimes, Order, Present
<1>5. QED BY <1>4, SameRingFacts DEF Untold, Rings

LEMMA UnchangedOrder ==
  ASSUME NEW r, NEW q, RingAsBefore(r, q)
  PROVE  (Order(r) => Order(q)) /\ (Counted(r) => Counted(q))
<1>1. Cur(q) = Cur(r)
  BY DEF RingAsBefore, SameTimes, Cur, SequenceOf
<1>2. Numbered(r) => Numbered(q)
  BY DEF RingAsBefore, Numbered
<1>3. Proceeds(r) => Proceeds(q)
  BY <1>1, <1>2 DEF RingAsBefore, SameTimes, Proceeds
<1>4. QED BY <1>1, <1>2, <1>3 DEF RingAsBefore, SameTimes, Order, Present, Counted

LEMMA ShortSegmentsRing ==
  ASSUME LongDuration <= 2 * ShortDuration,
         NEW r, Kept(r), Counted(r), NEW q, q = UseShortSegments(r), NEW h
  PROVE  Rings(h, r, q)
<1>1. CASE q = r
  BY <1>1 DEF Rings, RingGoesOn, Still
<1>2. CASE r.nextSeq = 0 /\ ~ (r.duration <= ShortDuration)
  <2>1. q = [r EXCEPT !.duration = ShortDuration, !.open = Nothing]
    BY <1>2 DEF UseShortSegments
  <2>2. DOMAIN r = Fields
    BY DEF Kept, Segments
  <2>3. /\ q.realtime = r.realtime /\ q.pending = r.pending /\ q.err = r.err
        /\ q.epochID = r.epochID /\ q.nextSeq = r.nextSeq
        /\ q.haveComplete = r.haveComplete /\ q.latestComplete = r.latestComplete
        /\ SameTimes(r, q) /\ q.duration = ShortDuration /\ q.open = Nothing
    BY <2>1, <2>2 DEF Fields, NewRecorder, SameTimes
  <2>4. /\ ShortDuration \in Nat \ {0} /\ LongDuration \in Nat \ {0}
        /\ r.duration \in {LongDuration, ShortDuration}
    BY RecorderAssumption DEF Kept, Segments
  <2>5. r.duration = LongDuration /\ q.duration # LongDuration
    BY <1>2, <2>3, <2>4
  <2>6. ~ r.haveComplete
    BY <1>2 DEF Counted
  <2>7. RingGoesOn(r, q)
    BY <2>3, <2>6 DEF RingGoesOn, Still, Counted
  <2>8. ASSUME Ringed(h, r) PROVE Ringed(h, q)
    <3>1. \A id, x : On(q, id, x) <=> On(r, id, x)
      BY <2>3 DEF On
    <3>2. Whole(q)
      BY <2>8, <3>1, SameWhole DEF Ringed
    <3>3. Behind(q)
      BY <2>3, <2>8, <3>1 DEF Ringed, Behind
    <3>4. Windowed(h, q)
      BY <2>3, <2>6, <2>8 DEF Ringed, Windowed
    <3>5. QED BY <3>2, <3>3, <3>4 DEF Ringed
  <2>9. ASSUME Order(r) PROVE Order(q)
    <3>1. DOMAIN q.open = {}
      BY <2>3 DEF Nothing
    <3>2. Numbered(q)
      BY <2>3, <2>6 DEF Numbered
    <3>3. CASE r.haveEpoch = TRUE
      <4>1. Cur(r) = 0
        BY <1>2, <2>5, <2>9, <3>3 DEF Order, Proceeds
      <4>2. Cur(q) \in {0, 1}
        <5>1. PICK a : a = r.latestNTP - r.epochBase
          OBVIOUS
        <5>2. r.latestNTP \in Nat /\ r.epochBase \in Nat
          BY DEF Kept
        <5>3. CASE r.latestNTP <= r.epochBase
          BY <2>3, <5>3 DEF Cur, SequenceOf, SameTimes
        <5>4. CASE ~ (r.latestNTP <= r.epochBase)
          <6>1. a \in Nat
            BY <5>1, <5>2, <5>4
          <6>2. a \div LongDuration = 0
            BY <2>5, <4>1, <5>1, <5>4 DEF Cur, SequenceOf
          <6>3. /\ a = LongDuration * (a \div LongDuration) + (a % LongDuration)
                /\ a % LongDuration \in Nat /\ a % LongDuration < LongDuration
            BY <2>4, <6>1, Division, Quotient
          <6>4. a < LongDuration
            BY <2>4, <6>1, <6>2, <6>3
          <6>5. a <= (ShortDuration - 1) + 1 * ShortDuration
            BY <2>4, <6>1, <6>4
          <6>6. a \div ShortDuration <= (ShortDuration - 1) \div ShortDuration + 1
            <7>1. PICK m : m = ShortDuration - 1
              OBVIOUS
            <7>2. m \in Nat /\ a <= m + 1 * ShortDuration /\ ShortDuration \in Int /\ ShortDuration > 0
              BY <2>4, <6>5, <7>1
            <7>3. QED BY <6>1, <7>1, <7>2, QuotientGrows
          <6>7. (ShortDuration - 1) \div ShortDuration = 0
            BY <2>4
          <6>8. a \div ShortDuration \in Nat
            BY <2>4, <6>1, Quotient
          <6>9. a \div ShortDuration \in {0, 1}
            BY <6>6, <6>7, <6>8
          <6>10. QED BY <2>3, <5>1, <5>4, <6>9 DEF Cur, SequenceOf, SameTimes
        <5>5. QED BY <5>3, <5>4
      <4>3. Proceeds(q)
        BY <1>2, <2>3, <2>5, <3>1, <3>2, <3>3, <4>2 DEF Proceeds, SameTimes
      <4>4. Present(q)
        BY <2>5, <4>2 DEF Present
      <4>5. QED BY <4>3, <4>4 DEF Order, Proceeds
    <3>4. CASE r.haveEpoch # TRUE
      BY <1>2, <2>3, <3>1, <3>2, <3>4 DEF Order, SameTimes
    <3>5. QED BY <3>3, <3>4
  <2>10. QED BY <2>7, <2>8, <2>9 DEF Rings
<1>3. QED BY <1>1, <1>2 DEF UseShortSegments

LEMMA AVMapEntryRing ==
  ASSUME NEW r, Kept(r), NEW e, NEW q, q = AddAVMapEntry(r, e), NEW h
  PROVE  Rings(h, r, q)
<1>1. DOMAIN r = Fields
  BY DEF Kept, Segments
<1>2. PICK m : m = r.avmap \cup {[entry |-> e, addedAt |-> r.closedSegments, installed |-> FALSE]}
  OBVIOUS
<1>3. q = [r EXCEPT !.avmap = m, !.avmapDirty = TRUE]
  BY <1>2 DEF AddAVMapEntry
<1>4. Untold(r, q)
  BY <1>1, <1>3 DEF Fields, NewRecorder, Untold, SameRing, SameTimes
<1>5. QED BY <1>4, UntoldRings

LEMMA CodecConfigRing ==
  ASSUME NEW r, Kept(r), NEW id, NEW data, NEW q, q = SetCodecConfig(r, id, data), NEW h
  PROVE  Rings(h, r, q)
<1>1. DOMAIN r = Fields
  BY DEF Kept, Segments
<1>2. CASE q = r
  BY <1>2, UntoldRings DEF Untold, SameRing, SameTimes
<1>3. CASE q = [r EXCEPT !.codec = Put(r.codec, id, data), !.codecDirty = TRUE]
  <2>1. Untold(r, q)
    BY <1>1, <1>3 DEF Fields, NewRecorder, Untold, SameRing, SameTimes
  <2>2. QED BY <2>1, UntoldRings
<1>4. QED BY <1>2, <1>3 DEF SetCodecConfig

LEMMA ObjectRing ==
  ASSUME NEW r, Kept(r), NEW id, NEW stored, NEW q, q = AddObject(r, id, stored), NEW h
  PROVE  Rings(h, r, q)
<1>1. DOMAIN r = Fields
  BY DEF Kept, Segments
<1>2. CASE q = r
  BY <1>2, UntoldRings DEF Untold, SameRing, SameTimes
<1>3. CASE q = [r EXCEPT !.objects = Put(r.objects, id, stored), !.objectsDirty = TRUE,
                         !.objectBytes = BytesBeside(r, id) + Len(stored)]
  <2>1. Untold(r, q)
    BY <1>1, <1>3 DEF Fields, NewRecorder, Untold, SameRing, SameTimes
  <2>2. QED BY <2>1, UntoldRings
<1>4. CASE q = [AddLoss(r, {}) EXCEPT !.objectBytes = BytesBeside(r, id), !.err = "object"]
  <2>1. /\ q.realtime = r.realtime /\ q.pending = r.pending /\ q.err = "object"
        /\ q.epochID = r.epochID /\ q.duration = r.duration /\ q.nextSeq = r.nextSeq
        /\ q.haveComplete = r.haveComplete /\ q.latestComplete = r.latestComplete
    BY <1>1, <1>4 DEF AddLoss, Fields, NewRecorder
  <2>2. QED BY <2>1 DEF Rings, RingGoesOn, Still, Counted
<1>5. QED BY <1>2, <1>3, <1>4 DEF AddObject

\* a refused item is two more losses; the error ends where it came from
LEMMA ItemRing ==
  ASSUME NEW r, Kept(r), NEW id, NEW stored, NEW q, q = AddItem(r, id, stored), NEW h
  PROVE  Rings(h, r, q)
<1>1. PICK a : a = AddObject(r, id, stored)
  OBVIOUS
<1>2. CASE a.err # "object"
  <2>1. q = a
    BY <1>1, <1>2 DEF AddItem
  <2>2. QED BY <1>1, <2>1, ObjectRing
<1>3. CASE a.err = "object"
  <2>1. DOMAIN r = Fields
    BY DEF Kept, Segments
  <2>2. q = [AddLoss(a, {}) EXCEPT !.err = r.err]
    BY <1>1, <1>3 DEF AddItem
  <2>3. DOMAIN a = Fields /\ Same(r, a, {"losses", "objects", "objectsDirty", "objectBytes", "err"})
    BY <1>1, <2>1 DEF AddObject, AddLoss, Same, Fields, NewRecorder
  <2>4. DOMAIN q = Fields /\ q.err = r.err
        /\ Same(a, q, {"losses", "err"})
    BY <2>2, <2>3 DEF AddLoss, Same, Fields, NewRecorder
  <2>5. Untold(r, q)
    BY <2>1, <2>3, <2>4 DEF Same, Fields, NewRecorder, Untold, SameRing, SameTimes
  <2>6. QED BY <2>5, UntoldRings
<1>4. QED BY <1>2, <1>3

LEMMA FlushedRing ==
  ASSUME NEW r, Kept(r), NEW q, q = Flushed(r), NEW h, q.err = "none", Order(r), Ringed(h, r)
  PROVE  Ringed(h, q)
<1>1. PICK f : f = FlushOpen(r)
  OBVIOUS
<1>2. Carries(r, f) /\ DOMAIN f = Fields
  BY <1>1, FlushedFacts, ClosedIsKept
<1>3. SameRing(f, q)
  <2>1. q = [f EXCEPT !.objectsDirty = f.objectsDirty \/ f.objects # Nothing,
                      !.lastCommit = IF f.objects # Nothing THEN LongAgo ELSE f.lastCommit,
                      !.lastAVMap = LongAgo]
    BY <1>1 DEF Flushed
  <2>2. QED BY <1>2, <2>1 DEF Fields, NewRecorder, SameRing
<1>4. Closable(h, r, DOMAIN r.open)
  BY OrderIsClosable
<1>5. f.err = "none" => Ringed(h, f)
  BY <1>1, <1>4, CloseSegmentsRing DEF FlushOpen, Kept
<1>6. f.err = "none"
  BY <1>3 DEF SameRing
<1>7. QED BY <1>3, <1>5, <1>6, SameRingFacts

\* the ring, inductively: Order and Ringed hold while nothing has failed
RingInv ==
  /\ OnTheAir(heard, rec)
  /\ state = "running" => Counted(rec)
  /\ state = "running" /\ rec.err = "none" => Order(rec) /\ Ringed(heard, rec)

LEMMA RingsKeep ==
  ASSUME RingInv, Running, Rings(heard, rec, rec'), heard' = heard
  PROVE  RingInv'
<1>1. PICK h : h = heard
  OBVIOUS
<1>2. PICK r : r = rec
  OBVIOUS
<1>3. PICK q : q = rec'
  OBVIOUS
<1>4. RingGoesOn(r, q) /\ (q.err = "none" /\ Order(r) /\ Ringed(h, r) => Order(q) /\ Ringed(h, q))
  BY <1>1, <1>2, <1>3 DEF Rings
<1>5. OnTheAir(h, r) /\ Counted(r) /\ (r.err = "none" => Order(r) /\ Ringed(h, r))
  BY <1>1, <1>2 DEF RingInv, Running
<1>6. OnTheAir(h, q)
  BY <1>4, <1>5, StillOnTheAir DEF RingGoesOn
<1>7. Counted(q) /\ (q.err = "none" => Order(q) /\ Ringed(h, q))
  BY <1>4, <1>5 DEF RingGoesOn
<1>8. h = heard'
  BY <1>1
<1>9. OnTheAir(heard', rec') /\ Counted(rec') /\ (rec'.err = "none" => Order(rec') /\ Ringed(heard', rec'))
  BY <1>3, <1>6, <1>7, <1>8
<1>10. QED BY <1>9 DEF RingInv

LEMMA FailureKeepsRing ==
  ASSUME RingInv, Failed, Kept(rec)
  PROVE  RingInv'
<1>1. PICK h : h = heard
  OBVIOUS
<1>2. PICK r : r = rec
  OBVIOUS
<1>3. PICK q : q = rec'
  OBVIOUS
<1>4. DOMAIN r = Fields /\ q = [r EXCEPT !.err = q.err]
  BY <1>2, <1>3 DEF Kept, Segments, Failed
<1>5. Still(r, q)
  BY <1>4 DEF Still, Fields, NewRecorder
<1>6. OnTheAir(h, q)
  BY <1>1, <1>2, <1>5, StillOnTheAir DEF RingInv
<1>7. OnTheAir(heard', rec') /\ state' = "failed"
  BY <1>1, <1>3, <1>6 DEF Failed
<1>8. QED BY <1>7 DEF RingInv

LEMMA ObserveKeepsRing ==
  ASSUME EntriesInv, RingInv, NEW step \in Steps, ObserveNTP(Around(step))
  PROVE  RingInv'
<1>1. PICK ntp : ntp = Around(step)
  OBVIOUS
<1>2. Kept(rec) /\ records \in Nat /\ Running
  BY DEF EntriesInv, ObserveNTP, Running
<1>3. ntp \in Nat
  <2>1. step \in Int
    BY InputAssumption
  <2>2. QED BY <1>1, <1>2, <2>1, AroundFacts
<1>4. PICK r : r = Observe(rec, ntp)
  OBVIOUS
<1>5. Kept(r)
  BY <1>2, <1>3, <1>4, ObserveCarries DEF Carries
<1>6. PICK x : x = NewRecord(1, FALSE)
  OBVIOUS
<1>7. x \in Record
  BY <1>2, <1>6, NewRecordFacts
<1>8. PICK q : q = rec'
  OBVIOUS
<1>9. q = AddRecord(r, ntp, x)
  BY <1>1, <1>4, <1>6, <1>8 DEF ObserveNTP
<1>10. PICK h : h = heard
  OBVIOUS
<1>11. PICK p : p = rec
  OBVIOUS
<1>12. /\ RingGoesOn(p, r)
       /\ r.err = "none" /\ Order(p) /\ Ringed(h, p) => Awaits(r, ntp) /\ Ringed(h, r)
  BY <1>2, <1>3, <1>4, <1>11, ObserveRing
<1>13. /\ RingGoesOn(r, q)
       /\ Ringed(h, r) => Ringed(h, q)
       /\ Awaits(r, ntp) => Order(q)
  BY <1>3, <1>5, <1>7, <1>9, AddRecordRing
<1>14. RingGoesOn(p, q)
  BY <1>12, <1>13 DEF RingGoesOn, Still
<1>15. q.err = "none" => r.err = "none"
  BY <1>13 DEF RingGoesOn
<1>16. Rings(h, p, q)
  BY <1>12, <1>13, <1>14, <1>15 DEF Rings
<1>17. Rings(heard, rec, rec') /\ heard' = heard
  BY <1>8, <1>10, <1>11, <1>16 DEF ObserveNTP
<1>18. QED BY <1>2, <1>17, RingsKeep

LEMMA TakeKeepsRing ==
  ASSUME EntriesInv, RingInv,
         NEW skew \in Skews, NEW i \in RecordInputs, TakeRecord(Around(skew), i[1], i[2])
  PROVE  RingInv'
<1>1. PICK ntp : ntp = Around(skew)
  OBVIOUS
<1>2. Kept(rec) /\ records \in Nat /\ Running
  BY DEF EntriesInv, TakeRecord, Running
<1>3. ntp \in Nat
  <2>1. skew \in Int
    BY InputAssumption
  <2>2. QED BY <1>1, <1>2, <2>1, AroundFacts
<1>4. PICK x : x = NewRecord(i[1], i[2])
  OBVIOUS
<1>5. x \in Record
  <2>1. i[1] \in Nat /\ i[2] \in BOOLEAN
    BY InputAssumption
  <2>2. QED BY <1>2, <1>4, <2>1, NewRecordFacts
<1>6. PICK q : q = rec'
  OBVIOUS
<1>7. PICK h : h = heard
  OBVIOUS
<1>8. PICK p : p = rec
  OBVIOUS
<1>9. q = AddRecord(p, ntp, x)
  BY <1>1, <1>4, <1>6, <1>8 DEF TakeRecord
<1>10. /\ RingGoesOn(p, q)
       /\ Ringed(h, p) => Ringed(h, q)
       /\ Order(p) => Order(q)
  BY <1>2, <1>3, <1>5, <1>8, <1>9, AddRecordRing
<1>11. Rings(h, p, q)
  BY <1>10 DEF Rings
<1>12. Rings(heard, rec, rec') /\ heard' = heard
  BY <1>6, <1>7, <1>8, <1>11 DEF TakeRecord
<1>13. QED BY <1>2, <1>12, RingsKeep

LEMMA EmitKeepsRing ==
  ASSUME EntriesInv, RingInv, NEW t \in Nat, Emit(t)
  PROVE  RingInv'
<1>1. Kept(rec) /\ AllHeard(heard, rec) /\ Running
  BY DEF EntriesInv, Emit, Running
<1>2. PICK q : q = InstallAll(rec, t)
  OBVIOUS
<1>3. CASE Failed
  BY <1>1, <1>3, FailureKeepsRing
<1>4. CASE InstalledOn(t, rec, q) /\ Aired(q, rec', heard') /\ state' = "running"
  <2>1. PICK h : h = heard
    OBVIOUS
  <2>2. PICK r : r = rec
    OBVIOUS
  <2>3. PICK p : p = rec'
    OBVIOUS
  <2>4. PICK g : g = heard'
    OBVIOUS
  <2>5. /\ r.err = "none" /\ Kept(q) /\ Same(r, q, InstallFields) /\ SegmentsInstalled(r, q)
        /\ DOMAIN r = Fields
    BY <1>1, <1>4, <2>2 DEF InstalledOn, Kept, Segments
  <2>6. Order(r) /\ Ringed(h, r) /\ Counted(r)
    BY <1>1, <2>1, <2>2, <2>5 DEF RingInv, Running
  <2>7. Ringed(h, q) /\ RingAsBefore(r, q) /\ q.pending = <<>>
    BY <2>5, <2>6, InstalledRing
  <2>8. DOMAIN q = Fields /\ Shape(q.realtime)
    BY <2>5 DEF Kept, Segments
  <2>9. Told(h, q.realtime, g)
    <3>1. Air(q, t, "running") /\ state' # "failed"
      BY <1>2, <1>4 DEF Emit
    <3>2. QED BY <2>1, <2>4, <2>8, <3>1, AirTold
  <2>10. Ringed(g, p) /\ RingAsBefore(q, p) /\ OnTheAir(g, p)
    BY <1>4, <2>3, <2>4, <2>7, <2>8, <2>9, AiredRing
  <2>11. Order(p) /\ Counted(p)
    BY <2>6, <2>7, <2>10, UnchangedOrder
  <2>12. OnTheAir(heard', rec') /\ Counted(rec') /\ Order(rec') /\ Ringed(heard', rec')
    BY <2>3, <2>4, <2>10, <2>11
  <2>13. QED BY <2>12 DEF RingInv
<1>5. QED BY <1>1, <1>2, <1>3, <1>4, EmitSteps

LEMMA FinishKeepsRing ==
  ASSUME EntriesInv, RingInv, NEW t \in Nat, Finish(t)
  PROVE  RingInv'
<1>1. Kept(rec) /\ AllHeard(heard, rec) /\ Running
  BY DEF EntriesInv, Finish, Running
<1>2. PICK f : f = Flushed(rec)
  OBVIOUS
<1>3. PICK q : q = InstallAll(f, t)
  OBVIOUS
<1>4. PICK q2 : q2 = InstallAll(q, t)
  OBVIOUS
<1>5. CASE Failed
  BY <1>1, <1>5, FailureKeepsRing
<1>6. CASE /\ InstalledOn(t, f, q) /\ InstalledOn(t, q, q2)
           /\ Aired(q2, rec', heard') /\ state' = "finished"
  <2>1. PICK h : h = heard
    OBVIOUS
  <2>2. PICK r : r = rec
    OBVIOUS
  <2>3. PICK p : p = rec'
    OBVIOUS
  <2>4. PICK g : g = heard'
    OBVIOUS
  <2>5. Kept(f) /\ Kept(r) /\ r.err = "none" /\ f.err = "none"
    <3>1. Kept(r) /\ f = Flushed(r)
      BY <1>1, <1>2, <2>2
    <3>2. Carries(r, f) /\ CloseKept(r, DOMAIN r.open, FlushOpen(r)) /\ SameRecords(FlushOpen(r), f)
      BY <3>1, FlushedFacts
    <3>3. f.err = "none"
      BY <1>6 DEF InstalledOn
    <3>4. r.err = "none"
      BY <3>2, <3>3 DEF SameRecords, CloseKept, ClosedWell
    <3>5. QED BY <3>1, <3>2, <3>3, <3>4 DEF Carries
  <2>6. Order(r) /\ Ringed(h, r)
    BY <1>1, <2>1, <2>2, <2>5 DEF RingInv, Running
  <2>7. Ringed(h, f)
    BY <1>2, <2>2, <2>5, <2>6, FlushedRing
  <2>8. /\ Same(f, q, InstallFields) /\ SegmentsInstalled(f, q) /\ DOMAIN f = Fields
        /\ Same(q, q2, InstallFields) /\ SegmentsInstalled(q, q2) /\ DOMAIN q = Fields
        /\ Kept(q2)
    BY <1>6, <2>5 DEF InstalledOn, Kept, Segments
  <2>9. Ringed(h, q)
    BY <2>7, <2>8, InstalledRing
  <2>10. Ringed(h, q2) /\ q2.pending = <<>>
    BY <2>8, <2>9, InstalledRing
  <2>11. DOMAIN q2 = Fields /\ Shape(q2.realtime)
    BY <2>8 DEF Kept, Segments
  <2>12. Told(h, q2.realtime, g)
    <3>1. Air(q2, t, "finished") /\ state' # "failed"
      BY <1>2, <1>3, <1>4, <1>6 DEF Finish
    <3>2. QED BY <2>1, <2>4, <2>11, <3>1, AirTold
  <2>13. OnTheAir(g, p)
    BY <1>6, <2>3, <2>4, <2>10, <2>11, <2>12, AiredRing
  <2>14. OnTheAir(heard', rec')
    BY <2>3, <2>4, <2>13
  <2>15. QED BY <1>6, <2>14 DEF RingInv
<1>7. QED BY <1>1, <1>2, <1>3, <1>4, <1>5, <1>6, FinishSteps

LEMMA InitRing == Init => RingInv
<1>1. SUFFICES ASSUME Init PROVE RingInv
  OBVIOUS
<1>2. PICK r : r = rec
  OBVIOUS
<1>3. PICK h : h = heard
  OBVIOUS
<1>4. r = NewRecorder /\ h.segments = {} /\ state = "running"
  BY <1>1, <1>2, <1>3 DEF Init
<1>5. /\ r.open = Nothing /\ r.pending = <<>> /\ r.haveEpoch = FALSE /\ r.haveComplete = FALSE
      /\ r.nextSeq = 0 /\ r.realtime = NewCarousel(MaxRealtimeModules)
  BY <1>4 DEF NewRecorder
<1>6. DOMAIN r.open = {} /\ DOMAIN r.realtime.modules = {}
  BY <1>5 DEF Nothing, NewCarousel
<1>7. \A id, x : ~ On(r, id, x)
  BY <1>5, <1>6, NothingPending DEF InCarousel
<1>8. Ringed(h, r)
  BY <1>4, <1>7 DEF Ringed, Whole, Behind, Windowed
<1>9. OnTheAir(h, r)
  BY <1>5, <1>8, RingedIsOnTheAir
<1>10. Order(r) /\ Counted(r)
  BY <1>5, <1>6 DEF Order, Numbered, Counted
<1>11. QED BY <1>2, <1>3, <1>8, <1>9, <1>10 DEF RingInv

LEMMA NextRing ==
  ASSUME LongDuration <= 2 * ShortDuration, EntriesInv, RingInv, [Next]_vars
  PROVE  RingInv'
<1>1. Running => Kept(rec) /\ Counted(rec)
  BY DEF EntriesInv, RingInv, Running
<1>2. records \in Nat /\ now \in Nat
  BY DEF EntriesInv
<1>3. CASE \E step \in Steps : ObserveNTP(Around(step))
  BY <1>3, ObserveKeepsRing
<1>4. CASE \E skew \in Skews, x \in RecordInputs : TakeRecord(Around(skew), x[1], x[2])
  BY <1>4, TakeKeepsRing
<1>5. CASE Scrambled
  <2>1. Running /\ rec' = UseShortSegments(rec) /\ heard' = heard
    BY <1>5 DEF Scrambled
  <2>2. Rings(heard, rec, rec')
    BY <1>1, <2>1, ShortSegmentsRing
  <2>3. QED BY <2>1, <2>2, RingsKeep
<1>6. CASE CloseRun
  <2>1. Running /\ rec' = AddAVMapEntry(rec, entries + 1) /\ heard' = heard
    BY <1>6 DEF CloseRun
  <2>2. Rings(heard, rec, rec')
    BY <1>1, <2>1, AVMapEntryRing
  <2>3. QED BY <2>1, <2>2, RingsKeep
<1>7. CASE \E c \in CodecInputs : NoteConfig(c[1], c[2])
  <2>1. PICK c \in CodecInputs : NoteConfig(c[1], c[2])
    BY <1>7
  <2>2. Running /\ rec' = SetCodecConfig(rec, c[1], c[2]) /\ heard' = heard
    BY <2>1 DEF NoteConfig
  <2>3. Rings(heard, rec, rec')
    BY <1>1, <2>2, CodecConfigRing
  <2>4. QED BY <2>2, <2>3, RingsKeep
<1>8. CASE \E o \in ObjectInputs : TakeCaption(o[1], o[2])
  <2>1. PICK o \in ObjectInputs : TakeCaption(o[1], o[2])
    BY <1>8
  <2>2. Running /\ rec' = AddObject(rec, o[1], o[2]) /\ heard' = heard
    BY <2>1 DEF TakeCaption
  <2>3. Rings(heard, rec, rec')
    BY <1>1, <2>2, ObjectRing
  <2>4. QED BY <2>2, <2>3, RingsKeep
<1>9. CASE \E o \in ObjectInputs : TakeItem(o[1], o[2])
  <2>1. PICK o \in ObjectInputs : TakeItem(o[1], o[2])
    BY <1>9
  <2>2. Running /\ rec' = AddItem(rec, o[1], o[2]) /\ heard' = heard
    BY <2>1 DEF TakeItem
  <2>3. Rings(heard, rec, rec')
    BY <1>1, <2>2, ItemRing
  <2>4. QED BY <2>2, <2>3, RingsKeep
<1>10. CASE \E t \in now .. MaxNow : Emit(t)
  <2>1. MaxNow \in Nat
    BY InputAssumption
  <2>2. PICK t \in now .. MaxNow : Emit(t)
    BY <1>10
  <2>3. t \in Nat
    BY <1>2, <2>1
  <2>4. QED BY <2>2, <2>3, EmitKeepsRing
<1>11. CASE \E t \in 0 .. now : Finish(t)
  <2>1. PICK t \in 0 .. now : Finish(t)
    BY <1>11
  <2>2. t \in Nat
    BY <1>2
  <2>3. QED BY <2>1, <2>2, FinishKeepsRing
<1>12. CASE UNCHANGED vars
  BY <1>12 DEF vars, RingInv
<1>13. QED BY <1>3, <1>4, <1>5, <1>6, <1>7, <1>8, <1>9, <1>10, <1>11, <1>12 DEF Next

(* closeSegment, observe, useShortSegments and installPending: whatever    *)
(* segments close between two emissions and however epochs restart the     *)
(* ring, what is on the air is whole segments, alone in their slots, and a *)
(* segment stays until the one repeatWindow later closes.  A short segment *)
(* is at least half a long one, as by default: so only the first segment   *)
(* of an epoch is ever opened again after it closed.                       *)
THEOREM RingIsKept ==
  ASSUME LongDuration <= 2 * ShortDuration
  PROVE  Spec => []RingKept
<1>1. RingInv => RingKept
  BY OnTheAirIsRingKept DEF RingInv
<1>2. EntriesInv /\ RingInv /\ [Next]_vars => RingInv'
  BY NextRing
<1>3. QED BY <1>1, <1>2, InitEntries, NextEntries, InitRing, PTL DEF Spec
=============================================================================
