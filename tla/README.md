# mmt2ts and ts2mmt in TLA+

This directory models, in TLA+, the parts of this repository in which order, time,
loss and several actors matter: the way of media and signalling from a lossy MMT/TLV
stream into an MPEG-2 TS, the muxer, the DSM-CC preservation carousel with the
recorder that feeds it and the reader that gets it back from the air, the replay and
the conversion of an ordinary TS to MMT/TLV, the stream checker, and the goroutines that
move bytes between files and the conversion. TLC checks the models on small
instances; TLAPS proves the theorems for all of them.

## 1. The system

`mmt2ts` converts an MMT/TLV broadcast to an MPEG-2 TS and puts what a TS cannot
say into a DSM-CC carousel of its own ("preservation"); `ts2mmt` restores MMT/TLV
from it. Both are pipelines: a reader goroutine, one converting goroutine and a
writer goroutine. Everything between the reader and the writer is sequential and
streaming, so its hard behaviour is not the interleaving of threads but the order
of inputs (loss, reordering, versions, jumps of the clock), several clocks, and
caches that must agree.

| Component (package) | State | Operations | Hard behaviour | What makes it correct |
| --- | --- | --- | --- | --- |
| Carousel (`preservation/carousel.go`) | modules with versions and due times, retired versions, directory, DII time | `Set`, `Remove`, `Emit` | version numbers wrap; the muxer's clock goes back; changes pile up before an emission | no receiver confuses two contents; blocks are announced first; repetition |
| Recorder (`preservation/recorder.go`, `emit.go`) | open segments, pending updates, epoch, losses, AV map, codec configurations, objects, two carousels, cached bootstraps | `Observe`, `NewEpoch`, `AddRecord`, `UseShortSegments`, `AddAVMapEntry`, `SetCodecConfig`, `AddLoss`, `AddObject`, `Emit`, `Finish` | two clocks (NTP closes segments, the muxer emits); ring ids; intervals that hold things back | nothing lost silently; what is announced is on the air; segments whole |
| Carousel reader (`tsremux/carouselin`) | DII, blocks, module versions, bootstrap, segment parts, objects | `Push` of a section | order of bootstrap and segments, versions, epochs | what is read is what was recorded |
| Input and output (`iopipe`, `iox`) | buffers that go around, channels, first error | `ParallelReader`, `ReadAhead`, `AsyncWriter` | the only concurrency; errors behind data; reuse of memory | the bytes in order, success only when complete, no deadlock |
| TLV and IP (`tlv`) | fragment sets, compressed header contexts | `Next`, `Datagram` | holes in the byte stream, fragments out of order, contexts that change | a datagram is whole and in its own flow; the reader resumes |
| Media reassembly (`mpu`, `remux/aubuild.go`, `rawmedia.go`) | expected sequence number, fragment buffers, MPU times, packets kept for scrambled units | `Push`, `push`, `finish`, `capture` | gaps in the middle of a unit, late packets, MPU times that come late | no unit joined across a gap; losses told |
| Captions (`caption`), data broadcasting (`remux/appdata`) | MPU of subsamples; items, directories, index items | `Push`, `Finish`, `Graph` | losses inside an MPU; everything in any order | only complete resources |
| Signalling and SI (`signaling`, `si`, `siconv`) | message buffers, sections by version, last complete tables, generated tables | reassembly, `Collector.Add`, `State.apply`, `Generator` | two versions interleaved | never a mixed table; a change reaches the receiver |
| Converter and muxer (`remux`) | packages, streams, routes, PIDs and tags, reorder queue, PCR/PSI times | handlers of MPT, units and clock, `push`, `drain`, `advance`, `idle` | reorder window, late units, streams that appear, move and leave | identifiers unique, routes right, units in order behind a PMT that lists them, clock |
| TS writer and checker (`mpegts`, `pes`, `tscheck`) | continuity counters; the scanner's PSI, PES, section and carousel state | `WritePES`, `WriteSection`, `SkipContinuity`; `Scan` | a carried loss must show, nothing else may | an undamaged stream has no complaint, a damaged one has |
| TS demultiplexer (`tsdemux`) | continuity, section and PES buffers per PID | `Push`, `Flush` | loss, duplicates | no join across a gap |
| Replay and general conversion (`tsremux`, `mmtwrite`, `codecrev`) | event heap, watermark, deferred objects, flows, access unit queues; services with their MPUs | `push`, `drain`, `flush`, `write`; `runGeneralTS` | late records, waiting for objects, windows of MPUs by time | order of events; MPUs announced; what is written reads back |
| Data conversion (`arib`, `codec`, `escan`, `siup`), tools (`inspect`, `logocarousel`, `cmd/trace`, `cmd/ptsprobe`, `cmd/mmtcut`) | none across calls | functions of their input | - | tested by the repository |

How they interact: the converter hands the recorder NTP readings, records, AV map
runs, codec configurations and objects (`remux/preserve.go`); the muxer calls
`Recorder.Emit` once per PCR interval and per dispatched unit (`remux/mux.go`
`advance`) or, before the first unit, once per NTP packet (`idle`); `Emit`
installs what is pending into the two carousels and both put sections on the air.
`Recorder.Finish` is called after the last unit. The converter reads from a
`ParallelReader` (regular file) or a `ReadAhead` and writes to an `AsyncWriter`.

## 2. Modules

| Module | Models | How it corresponds |
| --- | --- | --- |
| `CarouselOps` | `carousel.go` as operators on a record | `AfterSet`/`SetFails` = `Set`, `AfterRemove` = `Remove`, `AfterEmit` = `Emit`. Stored bytes are one value, compared for equality only |
| `Carousel` | one carousel on the air | actions `Set`, `SetRefused` (an error, which ends the conversion), `Remove`, `Emit`, and the clock: `Tick`, `SetBack`. `heard` and `announced` are history: what a receiver has |
| `RecorderOps` | `recorder.go`, `emit.go`, `PackObjects` as operators | one operator per function, by its name |
| `Recorder` | the recorder between converter and muxer | `ObserveNTP`, `TakeRecord`, `Scrambled`, `CloseRun`, `NoteConfig`, `TakeCaption`, `TakeItem` are the callers in `remux`: a full object carousel ends the conversion for a caption, and is one more loss for an item; `Emit(t)` and `Finish(t)` are the muxer at its own clock, which goes on here and is set back in `Carousel` |
| `ReaderOps` | `carouselin.go`, `resolve.go` as operators; what a carousel sends, section by section | `Push`, `AfterDII` = `dii`, `AfterDDB` = `ddb`, and the functions they call by their names |
| `Restoration` | `Recorder` and the reader with a lossy air between them | `RNext` is `Next` with the emissions heard (`EmitHeard`, `FinishHeard`): all sections in order (`Undisturbed`) or without a run of them (`Disturbed`). `received` is history: which blocks came |
| `MpuReassembly` | `mpu.Reassembler` for the packets of one asset | `PushPacket` = `Push` with `track`, `abandon` and the fragment states |
| `AccessUnits` | `auBuilder` and the random access gate of `handleAU` | NAL units to access units, numbering in the MPU, the start times that the MPT gives, `trusted` |
| `CaptionStream`, `AppData` | `caption.Stream`, `appdata.Store` | subsamples of an MPU, cues, management data; items, directories, index items, `Finish`, `Graph` |
| `MediaPath` | one asset from the sender through a network to the stream | `Arrive`, `ArriveLate`, `ArriveBad`, `Lose`, `End` drive `handleMedia`; `Declare`, `Redescribe`, `TableArrives` are what the signalling says beside it |
| `Signalling` | `signaling.Reassembler`, sections and the tables of a PA message; `si.Collector` and `si.State`; `siconv.Generator` and the muxer's SI | fragments have no index; what a CRC guards is never taken in pieces, what none guards is; one table for each way a table is merged: joined, keyed, single |
| `SignalPath` | broadcaster, network, converter, receiver that goes by versions | `Send`, `Reissue`, `HearLate`, `Continue`, and the muxer's rounds `MuxRound`, `MuxUnit` |
| `Programs` | packages, streams, routes, PIDs, tags and PMTs (`remux.go`, `stream.go`, `pkg.go`) | `ApplyMPT`, `AssignOutput`, `PIDFor`, `TagFor`, `ChoosePCRPID`, `PMT` |
| `Multiplexer` | the muxer (`mux.go`); MPTs, units and clock readings in any interleaving, and a receiver | `PushUnit`, `Drain`, `Emit`, `Advance`, `Idle`, `WritePSI`; the actions `MPTArrives`, `Reissue`, `UnitArrives`, `ClockArrives`, `End` |
| `TsDemux` | `tsdemux.Demuxer` | `PushTs` = `Push`, `FlushTs` = `Flush` |
| `MmtpWriter` | `mmtwrite` with its sequencer; the splitting of access units (`codecrev`) | fragments and their indicators; Annex B, ADTS, LOAS as cells |
| `Replay` | `carouselReplay` (`replay.go`, `av.go`, `caption.go`, `application.go`) | one operator per method, by its name |
| `GeneralService` | `runGeneralTS` (`general.go`) | MPUs, MPT windows, admission units, SI rounds, the sorted events |
| `TsToMmt` | `RunWithOptions`: a TS with losses and repetitions into either of the two | `Receive`, `Repeat`, `Lose`, `Finish` |
| `TlvReader` | `tlv.Reader`, fragment sets, compressed headers | `Next` packet by packet, resynchronisation byte by byte |
| `TlvPath` | datagrams into a byte stream with holes, and the loop of `remux.run` behind it | `Send`, `Stop`, `Read` |
| `TsCheck` | `mpegts.Writer` and `pes.AppendHeader`; `tscheck`: its scanner, and its side of a carousel | packets, counters, adaptation fields; `Scan` = `packet` and what it calls; `dsmcc.go` |
| `Checked` | recorder, muxer (in outline), writer, a way that loses a run of packets, scanner | `Tick`, `Unit`, `End` beside the recorder's actions |
| `Stream` | abstract: what a reader or writer promises | `Give`, `Pass`, `End`, `Fail` |
| `ParallelReader` | `iopipe.ParallelReader` | one action per channel operation of `fetch` and `Read`; refines `Stream` |
| `ReadAhead`, `AsyncWriter` | the other two goroutines | the same; joined by `Pipeline` |
| `Pipeline` | a program run with both | `mmt2ts` fills blocks through `mpegts.Writer`, `ts2mmt` calls `Write`; down to the exit status. Its writer refines `Stream` |
| `...Proofs`, `RecorderFacts`, `FoldFacts` | theorems, and the lemmas they rest on | section 5 |
| `MC...` | bounds and inputs for TLC | `ParallelReader` and `Pipeline` are run as they are |

### Composition

`Multiplexer` extends `Programs`. `MediaPath` extends the four
modules of one asset's way, `SignalPath` those of signalling and SI, `TsToMmt` those
behind the demultiplexer; `TsToMmt` instantiates `MpuReassembly`, so that what one
direction writes is read back by the reader of the other. `Restoration` extends
`Recorder` and joins it to the carousel reader; `Checked` extends `Recorder` and joins
it to the TS writer and the checker.

### Abstractions

Data are values where the code only passes them on or compares them. A module's
payload is a value; of DII, DDB, MMTC header, bootstrap, segment and manifest there is
what the properties tell apart (which versions a DII or a bootstrap lists, which
records a segment has, where an object lies in the packed bytes). Time is counted in
ticks. A module id is a triple of kind, slot and part, so that the reuse of ids along
the rings is kept and the numbers are not. In the iopipe models the file is the
sequence 1, 2, 3, ... so that loss, doubling and reordering of units show.

Where bytes are cut and joined again, a unit, message, section or PES is a sequence
of cells that say what they are part of ("the n-th of most of ..."): a unit joined
from two, or with a hole, is then visible, which equal bytes would hide. A header is
one cell. Lengths are counted in cells and kept where the code goes by them (PES of
declared length, fragments, byte counts of items, the TLV length).

* Media: an access unit is a set of facts the code sees in it (delimiter, IRAP,
  parameter sets, damaged). Timestamps are MPU times plus offsets.
* Signalling: what a descriptor says is a value; sections are guarded by their CRC,
  so a section with a wrong one is one that did not come; PA tables are not guarded.
* Multiplexer: a unit that comes on a packet id its asset has left counts as having
  found no time; framing errors of audio are a flag of the unit.
* TS to MMT: the carousel reader is seen from outside (Restoration models it): a
  section completes items, each taken once. The sender honours the replay window for
  what is not meant to be late. Write errors, which end the program, are left out.
* TLV: the bytes of a header are one cell, the protocol is left out of the fragments'
  key, since all are UDP, and a packet that begins in the middle of
  another is malformed. The reader is fed when it would block.
* Checker: checks of a single field, counts, the report of profiles and the SI tables
  are left out; the sections of the model are well formed.

A section of the air is a DII with the versions it lists or a block of one stored
value; a module collected from blocks of two stored values fails its checksum, a
section with a wrong CRC counts as swallowed. A reader that tunes in late is one
whose first sections were swallowed. Scrambled packets are left out of
`Restoration` (they only shorten the segments).

`ObjectInputs` of `Recorder` replaces an object under an id it already has. The
recorder provides for that (`recorder.go:438-444`); today's only caller,
`preserve.go`, gives every new content a new id. A replacement that is refused leaves
the bytes of the object that stays uncounted (`recorder.go:443`); the model has this,
and no caller replaces. Of an item, the loss reported for a compression that cannot be
expanded and the record of its activation are left out.

Operators whose comment begins "mutant:" are not used by the specification. Each is a
form of the definition after it with a plausible bug, and PROJECT.json names the
property that the bug breaks.

## 3. What is checked

Each module states its properties at its end, with what they mean. The bounds keep
the proportions of the code: the repeat window is smaller than the ring, the ring
smaller than the number of segments of a run, a jump that is no new epoch spans
several segments, versions and sequence numbers wrap during a run, windows are smaller
than what passes through them; the MPUs of `ts_to_mmt` exceed the window of the MPT in
one plan (seven points of access in a row, window 3), and fit it in the others.

| Run | Question | Properties | Bounds |
| --- | --- | --- | --- |
| `carousel` | Can a receiver of one carousel be confused or starved, under any order of updates, removals, emissions and ticks? | `FreshVersions`, `AnnouncedBeforeSent`, `HeldIsHeard`, `RepeatedOnTime` | two ids, two contents, 2 versions (a version returns after two changes), stale guard 2, 5 ticks, 4 calls, the clock set back once |
| `recorder` | Is anything lost on the way into the carousels that is not reported? | `NothingLostSilently`, `RingKept`, `AVMapCarried` | 6 records (3 beside AV map entries, 2 beside configurations, an object that fits the object carousel or one that does not, and the first scrambled packet), NTP steps 0, 2, 4 (several segments), 7 (new epoch), -1, -3 (new epoch); segments 2 ticks, window 3, ring 4, 2 parts |
| `restoration` | Does the reader get back what was recorded, over an air that swallows sections? | `SegmentsAreRestored`, `CommittedIsResolved`, `FinishedIsRestored` | 3 records and an AV map entry with 2 disturbances, or 2 object changes and a configuration over 3 ticks with 1; capacity 2 units per module and 2 modules, so that packing splits objects and shrinks |
| `restoration_parts` (violation) | Is a segment of several parts always restored when all of it was received? | `PartsAreRestored` | as `restoration` |
| `parallel_reader` | Do the workers deliver the file in order, and do all goroutines end? | `KeepsThePromise` (refinement of `Stream`), `Finishes` | 3 workers, channels of 1 (two buffers each), 8 blocks, the last one short |
| `pipeline` | Does exit status 0 mean complete, and can the three goroutines block each other? | `SuccessIsComplete`, `WriterKeepsThePromise` (refinement of `Stream`), `Terminates` | 3 input and 2 output buffers of 2 units, 6 units, both programs, reads and writes that may fail anywhere |
| `media` | Is what comes out of a lossy network what was sent, and are its losses told? | `UnitsWhole`, `OutputIsSent`, `LossIsTold`, `RawKept`, `CaptionsWhole`, `ItemsRight` | eight assets (video, video of a resumed input, damaged video, audio, captions, superimposed text, files, files with an index) of 5 to 12 packets, up to 3 faults of loss, repetition, damage or lateness (by one packet), sequence numbers that wrap |
| `signalling` | Do messages and tables stay unmixed while they change, and does a receiver notice every change? | `MessagesWhole`, `ReceiverSees`, `NeverRevived` | five plans of tables in two issues each, fragmented and aggregated, with lost and late payloads; 4 versions |
| `mux` | Are identifiers, routes, PMTs, order and clock right while MPTs change under the units? | `Addressed`, `Announced`, `InOrder`, `ClockRuns` | seven plans with one or two packages, few PIDs and tags, window 3, PCR interval 2, PSI interval 5, units within and beyond the window |
| `ts_to_mmt` | Is a TS that lost packets converted to MMT/TLV that its reader takes, in order and with its losses? | `Replayed`, `UnitsOfTheirMPU`, `FlowRight`, `Announced`, `ReadsBack`, `LossCarried` | six plans (a preserved stream, one with records that are late or whose objects are missing, an ordinary one, two services, a point of access every picture beside a service without times, times that jump back), 2 faults at any packet, counters of 4, reorder window 2, grace 3; an MPT every 4 ticks names 3 video and 4 audio MPUs |
| `tlv` | Are datagrams whole and in their flows when the byte stream has holes? | `DatagramsWhole`, `FlowsKept`, `ResumesSoon` | six plans of IPv4, IPv6, fragments in any order and compressed headers, 2 holes anywhere, of any length up to a whole packet, 2 fragment sets |
| `check` | Does the checker find losses and only those, in what the recorder and the writer write? | `EverythingIsVerified`, `LossIsSeen`, `NoFalseAlarm` | two objects and records one kind at a time, 3 units, 3 ticks, one run of up to 3 lost packets, counters of 3 |

`OneKindOfInput`, the constraint of `recorder`, `restoration` and `check`, adds up
instances that would be runs of their own: in each only some kinds of input are used
to their bound, together with the fewest of the others. It cuts no behaviour of the
code short, since a state beyond it is one with more inputs.

Bounds that stand for an assumption about the environment:

* `MaxBatch = 1` in the recorder runs, one of the conditions of `Punctual` (section 5): at most one closing of segments falls between
  two emissions. It holds while units are dispatched (a PCR interval is far shorter
  than a segment), and `drain(true)` at the end of the input emits before `Finish`. It
  does not hold when no unit is dispatched or the NTP jumps: see section 4.
* `Failing = {0}` in `parallel_reader`: a read fails at the start of a block, see
  section 4.
* `NothingLostSilently` speaks of the time before the first scrambled packet, which
  drops the open segments, see section 4.
* `SuccessIsComplete` makes the one exception the code makes, `ts2mmt` after a failed
  read: `tsremux/run.go:161` leaves its loop at any error, and the program ends with
  status 0.
* `Steps = {2}` in `restoration` and `check`: the NTP advances within one epoch. After
  a jump the sequences restart from the new epoch's, and a reader may still hold a
  bootstrap of the old epoch that lists the same sequence in several parts: even
  undisturbed it then waits for a part that does not exist. This is the weakness of
  `addSegmentPart` shown by `restoration_parts`.
* `FinishHeard` is undisturbed: nothing is repeated after it.
* A read of a regular file or of standard input never returns no bytes and no error
  (`os.File`); `ReadAhead` would lose a buffer for each such read.
* `MediaPath` and `SignalPath`: the network brings a packet late by a few places, not
  by half the range of the sequence numbers.
* `tlv`: holes begin and end anywhere in a packet. The reader takes the length in a
  header for what follows it (`tlv.go:132-141`), so bytes missing behind the header are
  made up from the packets behind: `ResumesSoon` says that these are the packets which
  begin in as many bytes as are missing, no more, and that a packet further on is read.
  It exempts a hole that hits the length of a packet, which can be anything, and data
  taken for a sync byte. `DatagramsWhole` exempts an identification
  used again behind a lost fragment, and, since checksums are not verified, packets
  with bytes missing inside; `FlowsKept` a header of the context that was lost.
* `Announced` of `ts_to_mmt`: fewer MPUs of the asset start between two MPTs than an MPT
  names (3 of video, 15 of audio; from the one that has begun), they start in the order
  of their numbers, and no two at once. Beyond that MPUs go unannounced, see section 4.
* `Checked`: one run of lost packets; a loss of a multiple of the counter's range is
  invisible to any reader of the stream, and `LossIsSeen` says so.

Deadlock is not checked, in any run: all the programs end, and the runs stop at their
bounds. The absence of deadlock before the end is `Finishes` and `Terminates`.

Fairness. `Finishes` assumes that each worker and the consumer go on when they can,
`Terminates` the three goroutines: Go schedules every runnable goroutine, and reads and
writes return. Nothing else is assumed; the other properties are safety and need none.
The rest of the program is sequential: what "must happen" there (a repetition, a PCR, a
retry) is bounded in time by the code, and stated as safety (`RepeatedOnTime`,
`ClockRuns`, `ResumesSoon`, `FinishedIsRestored`).

## 4. Where the code and its documents part

`restoration_parts` is the one disagreement kept as a run: `carouselin.go:427` joins
the parts of a segment, which are segments of their own, and refuses the whole; only
parts heard before the bootstrap that lists them are read. Which parts are lost
depends on the order in which bootstrap and parts arrive. PROJECT.json quotes the
line it contradicts.

Seen while modelling, and left out of the passing runs by the bounds or exemptions
above; each is behaviour of the code that the models have:

* Carousel and recorder. The DII and the modules are withheld after the muxer's clock
  moved back, since idle emissions run on the NTP axis and the first unit starts at 0
  (`mux.go:132`, against `docs/dsmcc-preservation-format.md:460`). Segments closed
  together can be overwritten before they were sent, without a loss report
  (`recorder.go:335`). `UseShortSegments` drops records without one (`recorder.go:225`).
  `repeatWindow` is capped at `timedRingSegments` (`recorder.go:35-39`), and a window
  as long as the ring makes `closeSegment` remove, behind its own parts, the slot they
  were just put in (`recorder.go:331-336`): the segment is never sent and no loss is
  reported. The default limit of 3000 ms gives windows of 7 and 13 of 16; the theorem
  on the recorder needs the window to be smaller than the ring, and says so.
* `iopipe.go:167`: an I/O error behind a partial block is hidden by the round-robin.
  `run.go:161`: `ts2mmt` takes any read error for the end and exits with 0.
* Media. When the head of an MPU is lost, the audio access units after it get the
  wrong index and time (`aubuild.go:45-60`), also when the head is a fragmented unit of
  which only the first fragment arrived: the builder takes the next unit of the new MPU
  for its first. `OutputIsSent` speaks of the MPUs whose first unit was received
  (`BeginningHeard`). After a lost last subsample, captions of
  one subsample stay one MPU behind; a changed descriptor drops the pending MPU. Items
  are complete by their byte count alone (`appdata.go:192-205`), so a repetition with a
  gap can be taken for whole. A "first" fragment that comes late clears the mark that
  the kept packets are incomplete (`rawmedia.go`).
* Signalling. The end of one PA message and the beginning of the next lost together
  give a mixed MPT (`signaling.go`, against `docs/architecture.md:69`). EIT sections of
  an older version are never forgotten; of a multi-section AIT the last section
  remains; when several actual SDTs or EITs disagree, map order decides.
* Multiplexer. When two assets swap packet ids the second deletion takes the new route
  of the first (`remux.go:450-456`); packet ids once of an unconverted asset stay
  closed (`unconvPID`). PMT descriptors change under a standing version. The PCR of a
  second package may starve, and PCRs have a gap when their PID moves. A caption with a
  time in the far future empties the reorder window. `SkipContinuity` counts modulo 16.
* TS to MMT. A packet that repeats the counter is appended again; losses inside a PES
  are reported with the next one; ordinals shift for good when the start of a PES is
  lost; an AV entry whose units are not yet there writes nothing and reports nothing;
  late anchors are not counted as late. All HEVC assets of a service have packet id
  0xf100; of two MPUs with one start time the first is never announced, and of the video MPUs
  that start between two MPTs, 100 ms apart, only two are (`general.go:1097-1101`,
  `1150-1160`): with a point of access every frame or two the third begins unannounced.
  The window is found by a binary search over start times, so times that jump back put
  it anywhere (the plan `BackInTime` has such a search); losses before
  the first random access point and behind the last PES start are not carried.
* TLV. Resynchronisation stops at any 0x7f byte (`docs/architecture.md:353`);
  a hole in a
  long packet swallows as many bytes of those behind it, which arrived whole;
  fragment sets never time out and are evicted arbitrarily; a context stays in force
  when the full header that changes it is lost; IPv4 and UDP checksums are not
  verified.
* tscheck. A PID keeps its stream type when it leaves the PMT; duplicates count as
  continuity errors; PCRs of all PIDs are compared with one another; DSM-CC packets
  before the first PMT are counted as start code errors.

## 5. What is proved

`CarouselProofs` proves, for any set of updates, budget, number of versions,
stale guard, DII interval, and without the bounds of the runs mattering:

* `TypeCorrect`: `Spec => []TypeOK`
* `EverythingHeldIsHeard`: `Spec => []HeldIsHeard`
* `VersionsAreFresh`: `Spec => FreshVersions`
* `BlocksAreAnnounced`: `Spec => AnnouncedBeforeSent`
* `RepetitionsAreOnTime`: `Spec => RepeatedOnTime`

The assumptions are `CarouselAssumption`, `UpdatesAssumption` and
`BoundAssumption`: the constants are numbers of the kinds the code uses, an update
that is not sent once has an interval (the recorder's are `ObjectInterval`,
`SegmentInterval` and the playout limit), and the clock does not reach `neverAgain`,
2^62 ticks of 90 kHz.

None of these properties is inductive. The invariant is the conjunction of
`TypeOK` and
* `Remembered`: an (id, version) that was heard is either still held, with the
  bytes heard or after the guard has run out since it was heard, or it is in
  `retired`, at a reading of the clock that is not before the time it was last
  heard once both are compared through `real - now`. A clock that is set back only
  increases `real - now`: this is why the guard in `Set`, which looks at the
  muxer's clock alone, is strong enough.
* `Pending`: a module whose bytes were not yet on the air is due, and the directory
  is dirty.
* `Announced`: while the directory is clean, the last DII built and, when there is
  a module, the last DII on the air list the held modules under their present
  versions.

The lemma `Invariance` shows `IInv /\ [Next]_vars => IInv'` with one step per
action; each theorem follows from it. TLC checked the invariant first.

For `RepeatedOnTime` the invariant has `Schedule` beside it: `Clocks` (a clock that was
never set back is the elapsed time), `Scheduled` (a module never sent is due; one sent
once will not come again), and `Repeated` (`next` is at most the last time on the air
plus the pause). `EmitKeepsSchedule` is the step that matters: an emission sends every
module that is due, whatever the order in which it goes through them.

`ParallelReaderProofs` proves, for any number of workers, depth of the channels, block
size and file, and any sizes of the calls of `Read`:

* `ReaderKeepsThePromise`: `Spec => KeepsThePromise`, the refinement of `Stream`
* `BuffersAreExclusive`: `Spec => [](Live => Exclusive)`: while the consumer reads on, a
  buffer is free, queued, held by its worker or being read, and no two of these

The assumptions are `ReaderAssumption` and `Failing \subseteq {0}`: a read that fails
has read nothing. Without the second the theorems are false, because `Read` goes on
after the part of a block that came before an error as after a whole block, until it
meets the error one round later (`iopipe.go:160-173`). The run has the same assumption.

That the bytes come in order needs more than the order: the block at the head of a
channel must be the one the consumer waits for. The invariant says so by a history that
is not a variable, `start[w]`, where in the file the next block from worker w begins:

* `Turns`: around the workers, from the one whose turn it is, `start` goes up by one
  block, and falls back by a stride less a block at the end of the round.
* `Passing`: what was returned is the first units of the file, and it ends, together
  with what is left of the present block, where the next block begins.
* `Sent`: the i-th block queued by w holds the units from `start[w] + (i - 1) * Stride`
  on, all there are for a block; an end queued there is really at the end of the file.
* `Working`: a worker is about to read, or holds, the one after these; a closed channel
  means that the file is over or that an error is the last in it.
* `Exclusive`: without it `Sent` is not kept, since a worker writes into the memory of
  a buffer.

`Invariance` shows that each action keeps it (for `ReadNext`, with `start` moved on by
a stride for the worker whose turn it was), and `StreamStep` that each is a step of
`Stream` or changes nothing it sees. Products with the stride stay in three lemmas.

`PipelineProofs` proves, for any number and sizes of buffers, any input, both programs,
and reads and writes that fail anywhere:

* `ExitStatus`: `Spec => []SuccessIsComplete`
* `WriterIsAStream`: `Spec => WriterKeepsThePromise`, the refinement of `Stream`
* `BuffersApart`: a buffer of either side is in one place only

They need no assumption but those on the constants' kinds. The invariant follows the
units through the program by positions: `InputFlow(in)` and `OutputFlow(out)` say that
there are positions, one for each buffer in a channel, from where each buffer holds the
units that follow (`Chain`); what the filler reads next, what the conversion has in
hand, and what the drainer writes begin where the chain ends or starts. `Control` ties
the steps of the conversion to what is closed and to the errors, and `InputOnce` and
`OutputOnce` keep a buffer from being filled while another goroutine reads it. The
positions are not variables: `Between` says that they exist, and each action names the
next ones.

`MediaProofs` proves, for any sender that `StreamsAssumption` admits, any losses,
repetitions and damages:

* `UnitsAreWhole`: `Spec => []UnitsWhole`, for the reassembler
* `ScrambledIsKept`: `Spec => []RawKept`, for the recording of scrambled media
* `OutputWasSent`: `Delimited => (Spec => []OutputIsSent)`, for the access units
* `LossWasTold`: `Delimited => (Spec => []LossIsTold)`, for the marks of a loss

`StreamsAssumption` says what a sender does: the fragments of a unit follow one another
without a packet between them, only timed media is fragmented, and a packet that comes
late does so by less than half of the sequence numbers. The code relies on each of them:
a packet up to half of the range ahead is a gap, any other is late (`mpu.go`, `track`),
there is one buffer for an asset, and units of non-timed media are handed on as they are. `AsmInv` says that there is a packet, the h-th, up to which the
reassembler has heard (`Listens`), and that the pieces it joins are those of the packets
from a first fragment up to the h-th (`Joining`): h is not a variable, and is not `sent`,
since lost packets lie between. `RawInv` has `HeldBack` and `Poisoned`: of a unit in
progress every packet heard is held back or kept, and one scrambled packet among them
has poisoned it.

`Delimited` is what `auBuilder` relies on in a video or audio stream: a fragment is one
piece of a packet and belongs to the MPU of the fragment before it, MPUs come one after
another, and an access unit of video begins with its MPU and at each delimiter, which
is not in the middle of a NAL unit. The property was weaker than thought before: a proof
of it failed on an MPU whose first unit is fragmented and lost behind its first fragment
(section 4), which no stream of the run had; the audio stream of the run has one now.
`MCMediaPath` asserts `Delimited`, so TLC evaluates it on the streams of the run.

The invariant of both is `AVInv`. There are packets m and h, the first and the last
heard, and a builder b, which is the variable `builder` until `Finish` has emptied it:

* `Hears`, `Lacks`: the packets heard lie from m to h, and how many of them were missed.
* `Listens`, `Heeds`: the reassembler is at h; what it is joining was taken, packet for
  packet, and it is joining whenever a unit in progress was received so far.
* `Goes`: what the builder holds is all the bytes taken since the head of the unit in
  progress, in order (`Builds`); a trusted builder has counted the heads of its MPU since
  the MPU began, unless the beginning was not heard; the marks say whether a packet was
  missed since the last unit of the output (`Marks`); every unit of the output is one
  that was sent, behind the one before it, with its marks (`Sends`), and the losses
  carried add up (`Counted`).
* `Knows`: the builder has come to the MPU of each unit that was received entire. This
  is what makes the count right when the beginning of an MPU was heard.

The places of the stream up to where the builder has read (`Upto(Reach(st, h))`) are what
ties these together: a packet hands over a sequence of losses and units (`Shaped`), each
unit moves the place on, and `PacketStep` folds `MediaUnit` over it with the help of
`FoldFacts`. `WholeIs` shows that cells in order which are those of the places of one
unit are that unit. TLC checked the invariant before the proof.

`FoldFacts`, `RecorderFacts` and `RecorderProofs` prove about the preservation recorder:

* `EntriesAreCarried`: `Spec => []AVMapCarried`
* `NothingIsLost`: `Punctual => (Spec => []NothingLostSilently)`
* `RingIsKept`: `LongDuration <= 2 * ShortDuration => (Spec => []RingKept)`

The code's loops are folds in the model, and a fold is a definition over all its inputs.
`FoldFacts` has the induction: a module with two constant operators, `Step` (the loop's
body) and `Keeps` (what is so when some members are done), whose lemmas say that the
fold has `Keeps` at its end when each step hands it on. The induction itself is the
existence of a least counterexample, `WFMin` of a well-founded order, which needs no
operator as a parameter. `RecorderFacts` instantiates it for each loop (splitting a
segment, closing segments, installing what is pending, packing objects, and so on), and
says what each operation does to the recorder. `RecorderProofs` has the invariants.

* `EntriesInv`: the recorder's types (`Kept`); every module of the realtime carousel was
  on the air or is due at the next emission (`AllHeard`); every AV map entry is in the
  map or was on the air, those marked as installed were on the air, and the map is dirty
  while one is not (`Mapping`). `Finish` sets `LongAgo`, so that no interval holds the
  map back; `RecorderAssumption` says that this is long enough ago.
* `RecordsInv`: in the present epoch the segment of the latest reading is open, and the
  open ones lie between `nextSeq` and the reading, give or take what `Punctual` allows
  (`Orderly`); no update that waits is overwritten by one that waits behind it, and every
  record is open, waiting, reported or was on the air (`Waits`).

`Punctual` is an assumption on the input and the configuration, and is what the bounds of
the run stand for: the readings of the NTP within an epoch advance by at most `advance`
segments at a time, a record is at most `ahead` segments early, the two together are no
more than the repeat window, the window is smaller than the ring, and segments close at
most once between two emissions. Without it the theorem is false (section 4). With the
defaults (500 ms and 3000 ms) the window is 7 of 16 segments, and readings come far more
often than that. `MCRecorder` asserts `Punctual`, so TLC shows that it can be met.

`RingIsKept` needs no `Punctual`: it holds for any batch of closings between two
emissions. Its invariant is `RingInv`, which TLC checked on the run's instance first:

* `Ringed`, of what is or will be on the air, that is the carousel with the waiting
  updates applied to it: every segment in it is there with all its parts and without
  parts of another in its slots (`Whole`), it closed before (`Behind`), and one that a
  receiver heard is there while the window lasts (`Windowed`). A closing writes or
  empties whole slots (`UpdatesDo`).
* `Order`: what closes next closed never before, but for the first segment of an epoch,
  which a reading that goes back may open again. This is what a ring that takes a
  sequence modulo its size relies on.

The hypothesis is about `UseShortSegments`, which shortens the segments at the first
scrambled packet while the epoch's numbers stand. It holds for the defaults (500 ms and
250 ms; 2 and 1 in the run). `SegmentDurationMS` may be set to as much as 1000: then the
reading may be several short segments ahead of the first, and readings that go back again
and again could close segments out of their order. The property is neither proved nor
checked for that. In the run the short window is as long as the ring, and the code
carries nothing in it (section 4), so there only the theorem speaks of a ring of short
segments.

`MultiplexerProofs` proves, for any MPTs of any packages, any units in any interleaving,
any reorder window and any intervals:

* `UnitsInOrder`: `Spec => []InOrder`, for the queue of the muxer

`PlansAssumption` only says that units and assets are numbered and that times are
integers. The invariant is `OrderInv`, and `Right` is its part about the muxer and its
output. A unit in the queue is no further behind the furthest decoding time than the
window, and one that was written is (`Passed`, until the input ends); so a unit that is
written now follows all that were written before, unless it came when the window had
passed it, which is what `late` collects. The numbers of the units written and waiting
are different (`Fits`) and are those that were pushed.

A drain writes its units in turn. `InTurn` is the order of the heap, the unit with n - 1
before it as the n-th; `RankTaken` shows that each place is taken, by counting
(`FS_Injection`), and `InTurnTurns` that the order is that of the heap. Between two units
come PSI and PCRs, over loops within loops: `Quiet` says that they leave the queue alone
and write no unit. `Brings` is what a drain has written, `Adds` what the receiver has
heard of it. TLC checked the invariant on the run's instance before the proof.

What is model-checked only, and why. Liveness (`Finishes`, `Terminates`) is beyond the
prover. `SignalPath`, `TsToMmt`, `TlvPath`, `Restoration` and `Checked` rest on recursive
functions, sorts and nested folds (joining tables, writing a PES as packets, resolving a
bootstrap) whose facts are not stated; so do `CaptionsWhole` and `ItemsRight` of
`MediaPath`, on sums over sets of pieces and tables. `Addressed` of `Multiplexer` is false
for some plans: when nothing is free, `allocatePID` gives 0 to each stream and
`allocateTag` a tag that is taken; the run's ranges are large enough for its plans.
`Announced` and `ClockRuns` need the history of each package's PMT and PCR, which `Quiet`
does not follow.

## 6. Not modelled

* Character coding (`arib`), TTML, fonts and DRCS, descriptors in both directions
  (`siconv/descriptor.go`, `siup`, `si/descriptor.go`), bit streams (`escan`, `codec`):
  functions of their input without a protocol; tables about their formats would be
  their transcription. Where a result decides control (random access, times, how a
  unit is split), it is data of the models.
* The order of decoding in `signaling/graph.go`: a sort.
* `inspect`, `logocarousel` and the small commands: reports about a file.
* Reports and statistics, except where a property is about them (losses carried, late
  records).
* Crash and restart: nothing is persisted but the output; a program that stops is run
  again from the beginning.

## 7. Plan

Next:

1. `Restoration` with versions that wrap while a receiver is away, and with epochs;
   `TsToMmt` with `ReaderOps` in place of the reader seen from outside, so that the
   recorder of one program feeds the replay of the other.
2. `Multiplexer` with the recorder's emissions (`Checked` has them with the muxer in
   outline), and with the disposition of packets that find no stream.

Proofs to come:

1. `MessagesWhole` of `SignalPath` for its reassembler, and `DatagramsWhole` and the
   bound on the fragment sets of `TlvReader`.
2. `ClockRuns` of `Multiplexer`, with what `Quiet` leaves out of the PCRs.
3. The reader's side of `Restoration`, behind `EntriesInv` and the recorder's ring.
