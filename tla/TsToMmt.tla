------------------------------- MODULE TsToMmt -------------------------------
(***************************************************************************)
(* tsremux.RunWithOptions: a transport stream is demultiplexed packet by   *)
(* packet.  With a preservation carousel in it, what was preserved is      *)
(* written while it is read (Replay); without one, everything is kept and  *)
(* converted at the end (GeneralService).  Which of the two, the input     *)
(* decides while it is read.                                               *)
(*                                                                         *)
(* The way of the packets may lose or repeat some of them.  The reader of  *)
(* the carousel (Restoration) is seen from outside: a section of it        *)
(* completes items, each taken once, however often it is repeated.  An     *)
(* item is [what, n, list]: the bootstrap, a segment of records, entries   *)
(* of the AV map, or a commit of objects.                                  *)
(***************************************************************************)
EXTENDS TsDemux, Replay, GeneralService

LOCAL INSTANCE SequencesExt
LOCAL INSTANCE FiniteSetsExt

CONSTANTS
  Plans,       \* [packets, faults]: what is sent, and what the way may do to it
  SeqRange, MaxFragment

Receiver == INSTANCE MpuReassembly

VARIABLES
  plan,
  left, faults,   \* of the plan
  demux,
  programs,       \* in the order first seen, the newest PMT of each
  streamType, dsmcc,
  aus,            \* the access units of each PID
  sections,       \* kept for the conversion at the end
  reader,         \* the carousel: what was taken, and what waits to be drained
  replay,         \* NoReplay until a bootstrap or a segment is there
  general,        \* what the conversion at the end wrote
  ended,
  given, heard    \* history: the PES handed over, the records and entries taken

stream == <<plan, left, faults>>
vars == << plan, left, faults, demux, programs, streamType, dsmcc, aus, sections, reader, replay,
           general, ended, given, heard >>

NoReplay == [none |-> TRUE]
Replaying == replay # NoReplay

NewReader ==
  [taken |-> {}, bootstrap |-> FALSE, segments |-> <<>>, entries |-> <<>>, resolved |-> <<>>]

Init ==
  /\ plan \in Plans
  /\ left = plan.packets
  /\ faults = plan.faults
  /\ demux = NewDemuxer
  /\ programs = <<>>
  /\ streamType = [pid \in TsPIDs |-> "none"]
  /\ dsmcc = {}
  /\ aus = <<>>
  /\ sections = <<>>
  /\ reader = NewReader
  /\ replay = NoReplay
  /\ general = NewWriter
  /\ ended = FALSE
  /\ given = [pid \in TsPIDs |-> <<>>]
  /\ heard = <<>>
-----------------------------------------------------------------------------
(* What the handlers change, as one record that is passed along.            *)

State ==
  [ programs |-> programs, streamType |-> streamType, dsmcc |-> dsmcc, aus |-> aus,
    sections |-> sections, reader |-> reader, replay |-> replay, given |-> given,
    heard |-> heard ]

\* OnPMT
OnPMT(s, table) ==
  LET Known(k) == s.programs[k].number = table.number
      at == {k \in 1..Len(s.programs) : Known(k)}
      Typed(acc, st) ==
        [acc EXCEPT !.streamType[st.pid] = st.type,
                    !.dsmcc = IF st.type = "dsmcc" THEN @ \cup {st.pid} ELSE @]
  IN  FoldLeft(Typed, [s EXCEPT !.programs =
                         IF at = {} THEN Append(@, table)
                         ELSE [k \in 1..Len(@) |-> IF Known(k) THEN table ELSE @[k]]],
               table.streams)

\* OnPES
OnPES(s, x) ==
  LET q == IF x.pid \in DOMAIN s.aus THEN s.aus[x.pid] ELSE [base |-> 0, pes |-> <<>>]
      p == [pes |-> x.pes, body |-> x.body]
      more == [q EXCEPT !.pes = Append(@, p)]
  IN  [s EXCEPT !.aus = [pid \in DOMAIN @ \cup {x.pid} |-> IF pid = x.pid THEN more ELSE @[pid]],
                !.given[x.pid] = Append(@, p)]

\* carouselin.Reader.Push, seen from outside
TakeItem(r, item) ==
  IF item.n \in r.taken THEN r
  ELSE LET seen == [r EXCEPT !.taken = @ \cup {item.n}] IN
       CASE item.what = "bootstrap" -> [seen EXCEPT !.bootstrap = TRUE]
         [] item.what = "segment"   -> [seen EXCEPT !.segments = @ \o item.list]
         [] item.what = "entries"   -> [seen EXCEPT !.entries = @ \o item.list]
         [] item.what = "objects"   -> [seen EXCEPT !.resolved = item.list]

\* carouselReplay.drain: segments first, then the AV map
Drain(s) ==
  LET all == s.reader.segments \o s.reader.entries
  IN  [s EXCEPT !.replay = FoldLeft(TakeEntry, FoldLeft(TakeRecord, @, s.reader.segments),
                                    s.reader.entries),
                !.reader.segments = <<>>, !.reader.entries = <<>>,
                !.heard = @ \o [k \in 1..Len(all) |-> all[k] @@ [closed |-> s.replay.flushedTo]]]

WithFlush(s, x) == [s EXCEPT !.replay = x.r, !.aus = x.c.aus]

Flushed(s, final) ==
  WithFlush(s, Flush(s.replay, [aus |-> s.aus, streamType |-> s.streamType,
                                resolved |-> s.reader.resolved], final))

\* OnSection
OnSection(s, x) ==
  LET kept == [s EXCEPT !.sections = IF s.replay = NoReplay THEN Append(@, x.table) ELSE @]
      read == [kept EXCEPT !.reader = FoldLeft(TakeItem, @, x.table.items)]
      begun == [read EXCEPT !.replay = NewReplay, !.sections = <<>>]
  IN  CASE x.pid \notin s.dsmcc -> kept
        [] x.pid \in s.dsmcc /\ s.replay # NoReplay -> Flushed(Drain(read), FALSE)
        [] x.pid \in s.dsmcc /\ s.replay = NoReplay ->
             IF read.reader.bootstrap \/ read.reader.segments # <<>>
             THEN Flushed(Drain(begun), FALSE) ELSE read

Handled(s, x) ==
  CASE x.what = "pmt"     -> OnPMT(s, x.table)
    [] x.what = "section" -> OnSection(s, x)
    [] x.what = "pes"     -> OnPES(s, x)

Becomes(s) ==
  /\ programs' = s.programs
  /\ streamType' = s.streamType
  /\ dsmcc' = s.dsmcc
  /\ aus' = s.aus
  /\ sections' = s.sections
  /\ reader' = s.reader
  /\ replay' = s.replay
  /\ given' = s.given
  /\ heard' = s.heard
-----------------------------------------------------------------------------
Push(p) ==
  /\ demux' = PushTs(demux, p)
  /\ Becomes(FoldLeft(Handled, State, demux'.got))
  /\ UNCHANGED <<plan, general, ended>>

Receive ==
  /\ left # <<>>
  /\ Push(Head(left))
  /\ left' = Tail(left)
  /\ UNCHANGED faults

\* the way repeats a packet
Repeat ==
  /\ left # <<>> /\ faults > 0
  /\ Push(Head(left))
  /\ faults' = faults - 1
  /\ UNCHANGED left

\* the way loses a packet
Lose ==
  /\ left # <<>> /\ faults > 0
  /\ left' = Tail(left)
  /\ faults' = faults - 1
  /\ UNCHANGED << plan, demux, programs, streamType, dsmcc, aus, sections, reader, replay, general,
                  ended, given, heard >>

ByPID(q) == [pid \in DOMAIN q |-> q[pid].pes]

\* the end of the input
Finish ==
  /\ left = <<>> /\ ~ ended
  /\ ended' = TRUE
  /\ demux' = FlushTs(demux)
  /\ \E s \in {FoldLeft(Handled, State, demux'.got)} :
       IF Replaying
       THEN Becomes(Flushed(Drain(s), TRUE)) /\ UNCHANGED general
       ELSE Becomes(s) /\ general' = ConvertGeneral(s.programs, ByPID(s.aus), s.sections)
  /\ UNCHANGED stream

Next == Receive \/ Repeat \/ Lose \/ Finish

Spec == Init /\ [][Next]_vars
-----------------------------------------------------------------------------
Out == IF Replaying THEN replay.w.out ELSE general.out

Of(kind) == SelectSeq(heard, LAMBDA rec : rec.kind = kind)

\* it came before its time was written
OnTime(rec) == rec.closed = 0 \/ rec.ntp > rec.closed

Written(id) == SelectSeq(Out, LAMBDA p : p.id = id)

\* What was preserved comes out in the order of its time; every record that
\* does not is one that the report counts as late.  (An object that had to be
\* waited for has its own place.)
LateIsCounted ==
  Replaying =>
    Cardinality({Out[k].id : k \in {k \in 1..Len(Out) :
                   /\ Out[k].id[1] \in {"signalling", "generic", "av"}
                   /\ \E j \in 1..(k - 1) : Out[j].ntp > Out[k].ntp}}) <= replay.late

\* Nothing that the carousel gave back is forgotten or written twice: at the
\* end every record of signalling or data is one packet, every object that an
\* activation names is either written or reported, and reported only when it
\* never came or came after the grace.
NothingForgotten ==
  ended /\ Replaying =>
    /\ \A rec \in ToSet(Of("signalling") \o Of("generic")) : Len(Written(rec.id)) = 1
    /\ \A rec \in ToSet(Of("item") \o Of("caption")) :
         \/ rec.kind = "item" /\ rec.pid \in replay.rawPIDs /\ Written(rec.id) = <<>>
         \/ /\ rec.id \notin replay.problems
            /\ FlattenSeq([k \in 1..Len(Written(rec.id)) |-> Written(rec.id)[k].data])
                 = reader.resolved[rec.object]
         \/ /\ rec.id \in replay.problems /\ Written(rec.id) = <<>>
            /\ \/ rec.object \notin DOMAIN reader.resolved
               \/ rec.ntp + ObjectGrace < replay.frontier - Window

\* push and drain: the order and the completeness of what is replayed.
Replayed == LateIsCounted /\ NothingForgotten

\* The AV map counts access units over the whole stream: while no packet of it
\* is lost or begins a PES twice, however many units were dropped after they
\* were written and whatever became of the carousel, an MPU consists of the
\* units that its entry names, or it is reported.
UnitsOfTheirMPU ==
  ended /\ Replaying =>
    \A e \in ToSet(Of("av")) :
      LET pes   == given[e.output]
          units == FlattenSeq([k \in 1..e.count |->
                     FlattenSeq(SamplesOf(streamType[e.output], pes[e.first + k].body))])
      IN  demux.lost[e.output] = 0 /\ (\A k \in 1..Len(pes) : pes[k].pes.id = k) /\ e.first + e.count <= Len(pes)
            /\ e.id \notin replay.problems
          => FlattenSeq([k \in 1..Len(Written(e.id)) |-> Written(e.id)[k].data]) = units

\* The packets of an MPU go where the stream went at that time, although the
\* address and the units come to the replay on separate ways and what is no
\* longer in force is forgotten, if none of them came late.
FlowRight ==
  Replaying =>
    \A e \in ToSet(Of("av")) :
      LET anchors == SelectSeq(Of("anchor"), LAMBDA rec : rec.pid = e.output)
          past    == {k \in 1..Len(anchors) : anchors[k].ntp <= e.ntp}
          newest  == {k \in past : \A j \in past : anchors[j].ntp <= anchors[k].ntp}
      IN  OnTime(e) /\ past # {} /\ (\A k \in 1..Len(anchors) : OnTime(anchors[k]))
          => \A p \in ToSet(Written(e.id)) : p.addr = anchors[Max(newest)].addr

\* An ordinary stream has no MPT: those made for it announce every MPU, with
\* the time it starts, before its first packet, as long as the window of the
\* asset is longer than the MPUs that start between two MPTs, one MPU starts
\* behind the other, and no two at the same time (as after a PES whose first
\* packet comes twice).
Announced ==
  ended /\ ~ Replaying =>
    \A k \in {k \in 1..Len(Out) : Out[k].mfu} :
      LET p       == Out[k]
          starts  == {[seq |-> q.mpu, ntp |-> q.ntp] :
                        q \in {q \in ToSet(Out) : q.mfu /\ q.svc = p.svc /\ q.pid = p.pid}}
          inOrder == \A m, n \in starts : m.seq < n.seq => m.ntp <= n.ntp
          alone   == \A m \in starts : m.ntp = p.ntp => m.seq = p.mpu
          mpts    == {j \in 1..(k - 1) : Out[j].id = "MPT" /\ Out[j].svc = p.svc}
          since   == {m \in starts : m.ntp <= p.ntp /\ \A j \in mpts : Out[j].ntp < m.ntp}
          window  == IF p.pid = "video" THEN VideoWindow ELSE AudioWindow
      IN  inOrder /\ alone /\ Cardinality(since) < window =>
            \E j \in mpts : \E a \in ToSet(Out[j].data) :
              a.pid = p.pid /\ [seq |-> p.mpu, ntp |-> p.ntp] \in a.starts
-----------------------------------------------------------------------------
(* The output read back by the receiver of MMTP, asset by asset.            *)

AsReceived(p) ==
  [ seq |-> p.seq, scrambled |-> FALSE, malformed |-> FALSE, mfu |-> TRUE, timed |-> TRUE,
    frag |-> IF p.frag = "complete" THEN "whole" ELSE p.frag, mpu |-> p.mpu, rap |-> p.rap,
    pieces |-> <<p.data>> ]

ReadBack(packets) ==
  LET Step(acc, p) == LET r == Receiver!PushPacket(acc.st, AsReceived(p))
                      IN  [st |-> r.st, out |-> acc.out \o r.out]
  IN  FoldLeft(Step, [st |-> Receiver!NewAsset, out |-> <<>>], packets)

SentSamples ==
  UNION {UNION {ToSet(SamplesOf(streamType[pid], given[pid][k].body))
                \cup ToSet(AdtsFrames(given[pid][k].body)) : k \in 1..Len(given[pid])} : pid \in TsPIDs}
    \cup {reader.resolved[o] : o \in DOMAIN reader.resolved}

AssetPackets(svc, pid) ==
  SelectSeq(Out, LAMBDA p : p.mfu /\ p.svc = svc /\ p.pid = pid)

\* Cut into fragments and numbered, the samples come out of a receiver as they
\* went in: none torn, none missing, none joined with its neighbour.
ReadsBack ==
  \A key \in {<<p.svc, p.pid>> : p \in {p \in ToSet(Out) : p.mfu}} :
    LET packets == AssetPackets(key[1], key[2])
        got     == SelectSeq(ReadBack(packets).out, LAMBDA u : ~ u.loss)
        Bytes(u) == FlattenSeq(u.data)
    IN  /\ \A k \in 1..Len(got) : Bytes(got[k]) \in SentSamples
        /\ FlattenSeq([k \in 1..Len(got) |-> Bytes(got[k])])
             = FlattenSeq([k \in 1..Len(packets) |-> packets[k].data])

\* The packets that the transport stream lost are missing from the sequence
\* numbers of the asset they belong to: never more of them, and all of them
\* once every access unit that was left of it is written.
LossCarried ==
  ended /\ ~ Replaying =>
    LET services == Services(programs, ByPID(aus)) IN
    \A s \in ToSet(services) : \A kind \in {"video", "audio"} :
      LET mine == SelectSeq(s.assets, LAMBDA a : a.pid = kind)
          key  == <<s.svc, kind>>
          pids == {a.stream.pid : a \in ToSet(mine)}
          Sum(f(_)) == MapThenSumSet(f, pids)
          gaps == NextOf(general, key)
                    - Len(SelectSeq(Out, LAMBDA p : p.svc = s.svc /\ p.pid = kind))
          whole == \A a \in ToSet(mine) : \A p \in ToSet(given[a.stream.pid]) :
                     \E m \in ToSet(a.mpus) : \E u \in ToSet(m.units) :
                       u.pes.id = p.pes.id /\ u.pes.lost = p.pes.lost
      IN  /\ gaps <= Sum(LAMBDA pid : demux.lost[pid])
          /\ whole => gaps = Sum(LAMBDA pid : demux.lost[pid] - demux.pids[pid].lost)
=============================================================================
