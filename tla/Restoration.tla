----------------------------- MODULE Restoration -----------------------------
(***************************************************************************)
(* From the recorder through the air into ts2mmt: what Recorder emits is   *)
(* received by the carousel reader, but a disturbance may swallow a run of *)
(* consecutive sections of an emission, all of it included: a reader that  *)
(* tunes in late is one.  Sections of a PID arrive in order; one whose CRC *)
(* is wrong counts as swallowed (tsdemux).                                 *)
(***************************************************************************)
EXTENDS Recorder, ReaderOps

CONSTANTS
  MaxBursts,   \* bound: how many emissions are disturbed
  BurstLength  \* bound: sections swallowed in the middle of an emission

VARIABLES
  reader,    \* the Reader, a side for each role
  bursts,    \* how many emissions were disturbed
  received   \* <<role, id, version>> -> which blocks came after a DII that lists it

rvars == <<vars, reader, bursts, received>>

RInit ==
  /\ Init
  /\ reader = [role \in {"realtime", "object"} |-> NewSide]
  /\ bursts = 0
  /\ received = Nothing
-----------------------------------------------------------------------------
\* what goes on the air when r is installed
Emission(r, t) ==
  IF r.err # "none" THEN <<>>
  ELSE Sections("realtime", Rebuilt(r.realtime, t), t)
       \o Sections("object", Rebuilt(r.object, t), t)

Listed(rd, x) ==
  x.id \in DOMAIN rd[x.role].modules /\ rd[x.role].modules[x.id] = x.version

\* one section for the reader, and for the history
Hear(acc, x) ==
  LET k == <<x.role, x.id, x.version>> IN
  [ reader   |-> Push(acc.reader, x),
    received |-> IF x.table = "DDB" /\ Listed(acc.reader, x)
                 THEN Put(acc.received, k,
                        [stored |-> x.stored,
                         blocks |-> IF k \in DOMAIN acc.received
                                    THEN acc.received[k].blocks \cup {x.block} ELSE {x.block}])
                 ELSE acc.received ]

HearAll(sections) ==
  LET after == FoldLeft(Hear, [reader |-> reader, received |-> received], sections) IN
  /\ reader' = after.reader
  /\ received' = after.received

Undisturbed(sections) == HearAll(sections) /\ UNCHANGED bursts

\* the sections from i to j are swallowed
Disturbed(sections) ==
  /\ bursts < MaxBursts
  /\ bursts' = bursts + 1
  /\ \E i \in DOMAIN sections : \E j \in i .. Len(sections) :
       /\ j - i < BurstLength \/ j = Len(sections) \/ i = 1
       /\ HearAll(SubSeq(sections, 1, i - 1) \o SubSeq(sections, j + 1, Len(sections)))

EmitHeard(t) ==
  /\ Emit(t)
  /\ LET sections == Emission(InstallAll(rec, t), t) IN
     Undisturbed(sections) \/ Disturbed(sections)

\* what is swallowed after the last repetition cannot be repaired
FinishHeard(t) ==
  /\ Finish(t)
  /\ Undisturbed(Emission(InstallAll(InstallAll(Flushed(rec), t), t), t))

Silent == UNCHANGED <<reader, bursts, received>>

RNext ==
  \/ \E step \in Steps : ObserveNTP(Around(step)) /\ Silent
  \/ \E skew \in Skews, x \in RecordInputs : TakeRecord(Around(skew), x[1], x[2]) /\ Silent
  \/ CloseRun /\ Silent
  \/ \E c \in CodecInputs : NoteConfig(c[1], c[2]) /\ Silent
  \/ \E o \in ObjectInputs : TakeCaption(o[1], o[2]) /\ Silent
  \/ \E o \in ObjectInputs : TakeItem(o[1], o[2]) /\ Silent
  \/ \E t \in now .. MaxNow : EmitHeard(t)
  \/ \E t \in 0 .. now : FinishHeard(t)

RSpec == RInit /\ [][RNext]_rvars
-----------------------------------------------------------------------------
Realtime == reader["realtime"]
Object   == reader["object"]

RestoredIDs == FlattenSeq([i \in DOMAIN Realtime.segments |->
                 [j \in DOMAIN Realtime.segments[i].records |->
                    Realtime.segments[i].records[j].id]])

Restored == Range(RestoredIDs)

\* what was received in full
Whole == {k \in DOMAIN received : received[k].blocks = 1 .. Blocks}

TimedModules == {received[k].stored : k \in {w \in Whole : w[2][1] = "timed"}}

\* the segments all of whose parts were received in full
WholeParts(m) ==
  {p \in TimedModules : p.epoch = m.epoch /\ p.seq = m.seq /\ p.count = m.count}

(* ddb and dii: a module whose blocks all came after a DII that lists it   *)
(* is taken, in whichever cycles they came and whatever else the           *)
(* directory changed in between.                                           *)
BlocksAddUp ==
  \A k \in Whole : LET s == reader[k[1]] IN
    k[2] \in DOMAIN s.version /\ s.version[k[2]] >= k[3]

(* addSegmentPart: all records of a segment whose parts were all received  *)
(* are passed on, also when the bootstrap that lists it is missing or came *)
(* in between.                                                             *)
PartsAreRestored ==
  \A m \in TimedModules :
    Cardinality(WholeParts(m)) = m.count =>
      \A p \in WholeParts(m) : IDs(p.records) \subseteq Restored

(* moduleComplete: repetitions, and blocks that complete a module a second *)
(* time, do not pass a record on twice.                                    *)
RestoredOnce == IsInjective(RestoredIDs)

(* dii, ddb, moduleComplete and addSegmentPart, where joining the parts is *)
(* known to work: modules are collected across cycles, and the records of  *)
(* segments of one part, and of any segment as long as nothing was         *)
(* swallowed, are passed on, once.                                         *)
SegmentsAreRestored ==
  /\ BlocksAddUp
  /\ RestoredOnce
  /\ \A m \in TimedModules :
       m.count = 1 \/ bursts = 0 => IDs(m.records) \subseteq Restored

(* resolveCommitted is called for a manifest and for an object module, in  *)
(* whatever order they come: once both are those of the last commit, every *)
(* object of the commit is resolved, to the bytes that were committed.     *)
CommittedIsResolved ==
  LET modules == rec.object.modules IN
  /\ ManifestID \in DOMAIN modules
  /\ Object.manifest = modules[ManifestID].stored
  /\ \A id \in ObjectModules(rec.object) :
       id \in DOMAIN Object.objectVersion /\ Object.objectVersion[id] = modules[id].version
  => \A id \in DOMAIN Object.manifest.at :
       id \in DOMAIN Object.resolved /\ Object.resolved[id] = Object.manifest.at[id].hashed

(* End to end: a conversion that finished and was received undisturbed is  *)
(* restored: the records and the AV map entries, or a loss report instead, *)
(* and the objects.  It depends on the order in which the recorder sends:  *)
(* the parts of a segment before the bootstrap that lists them.            *)
FinishedIsRestored ==
  (state = "finished" /\ bursts = 0) =>
    /\ 1 .. records \subseteq Restored \cup UNION {e.missing : e \in Realtime.losses}
    /\ 1 .. entries \subseteq Range(Realtime.avmap)
    /\ Object.resolved = rec.objects
=============================================================================
