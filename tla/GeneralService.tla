--------------------------- MODULE GeneralService ---------------------------
(***************************************************************************)
(* tsremux/general.go: what an ordinary transport stream, without a        *)
(* preservation carousel, becomes when it has been read to its end: the    *)
(* access units of every service in MPUs, and the signalling made for      *)
(* them, in the order of their time.                                       *)
(*                                                                         *)
(* PTS and NTP are counted in one unit here.  A PES is [pes, body]         *)
(* (TsDemux), a program [number, streams], a stream [type, pid, tag], a    *)
(* section of the SI [id, key, ok, body]: its table, what tells it from    *)
(* the others of the table, and whether it can be converted.               *)
(***************************************************************************)
EXTENDS MmtpWriter

LOCAL INSTANCE SequencesExt
LOCAL INSTANCE FiniteSetsExt
LOCAL INSTANCE TLC

CONSTANTS
  NTPBase,                   \* the time of the first TOT, or a fixed one
  SignalInterval, Second,    \* 100 ms and 1 s
  SlowSI,                    \* seconds between the tables that are sent less often
  MaxUnits, AudioUnits,      \* access units of an MPU, 60 and 4
  VideoWindow, AudioWindow,  \* MPUs that an MPT announces, 3 and 15
  ExtendedRoom, ExtendedHead,\* of an extended timestamp descriptor, of an MPU in it
  FrameTime                  \* how long an AAC frame plays

NoTime == -1
-----------------------------------------------------------------------------
\* generalAssets: all assets of a kind have the same packet id
Assets(program, byPID) ==
  LET used == SelectSeq(program.streams,
                LAMBDA s : s.type \in AVTypes /\ s.pid \in DOMAIN byPID /\ byPID[s.pid] # <<>>)
  IN  [k \in 1..Len(used) |-> [stream |-> used[k], pes |-> byPID[used[k].pid],
                               pid |-> IF used[k].type = "hevc" THEN "video" ELSE "audio"]]

Times(assets) ==
  UNION {{assets[k].pes[j].pes.pts : j \in 1..Len(assets[k].pes)} : k \in 1..Len(assets)} \ {NoTime}

\* splitADTSAccessUnits: only the first frame has the losses before the PES
SplitFrames(p) ==
  LET frames == AdtsFrames(p.body)
  IN  [k \in 1..Len(frames) |->
         [p EXCEPT !.body = frames[k], !.pes.pts = @ + (k - 1) * FrameTime,
                   !.pes.lost = IF k = 1 THEN @ ELSE 0]]

\* validGeneralPES
ValidUnits(type, p) ==
  CASE p.pes.pts = NoTime \/ p.body = <<>> -> <<>>
    [] p.pes.pts # NoTime /\ type = "adts" -> SplitFrames(p)
    [] OTHER -> IF SamplesOf(type, p.body) = <<>> THEN <<>> ELSE <<p>>

Valid(a) == FlattenSeq([k \in 1..Len(a.pes) |-> ValidUnits(a.stream.type, a.pes[k])])
-----------------------------------------------------------------------------
IsRAP(p) == p.pes.rap \/ HasIRAP(p.body)

\* groups of n, the last one smaller
InGroups(units, n) ==
  [k \in 1..((Len(units) + n - 1) \div n) |->
     SubSeq(units, (k - 1) * n + 1, IF k * n < Len(units) THEN k * n ELSE Len(units))]

\* an MPU begins at each point of access, or when the one before is full;
\* what comes before the first point of access is left out
VideoGroups(units) ==
  LET raps == {k \in 1..Len(units) : IsRAP(units[k])}
      Add(acc, p) ==
        LET cut  == IF IsRAP(p) /\ acc.current # <<>>
                    THEN [groups |-> Append(acc.groups, acc.current), current |-> <<p>>]
                    ELSE [acc EXCEPT !.current = Append(@, p)]
        IN  IF Len(cut.current) = MaxUnits
            THEN [groups |-> Append(cut.groups, cut.current), current |-> <<>>] ELSE cut
      all  == FoldLeft(Add, [groups |-> <<>>, current |-> <<>>],
                       SubSeq(units, Min(raps), Len(units)))
  IN  IF raps = {} THEN <<>>
      ELSE IF all.current = <<>> THEN all.groups ELSE Append(all.groups, all.current)

\* groupGeneralMPUs: an MPU starts with the earliest of its units
GroupMPUs(a, first) ==
  LET units  == Valid(a)
      groups == IF a.pid = "video" THEN VideoGroups(units) ELSE InGroups(units, AudioUnits)
      Start(g) == Min({g[k].pes.pts : k \in 1..Len(g)})
  IN  [k \in 1..Len(groups) |->
         [ seq |-> k - 1, units |-> groups[k], rap |-> a.pid = "audio" \/ IsRAP(groups[k][1]),
           ntp |-> NTPBase + Start(groups[k]) - first ]]

WithMPUs(assets) ==
  [k \in 1..Len(assets) |->
     [mpus |-> GroupMPUs(assets[k], Min(Times(assets)))] @@ assets[k]]

\* the services that become packages, in the order of their numbers; those
\* without a time are left out when all have their flow
Services(programs, byPID) ==
  LET sorted == SortSeq(programs, LAMBDA p, q : p.number < q.number)
      usable == SelectSeq(sorted, LAMBDA p : p.number # 0 /\ Assets(p, byPID) # <<>>)
      timed  == SelectSeq([k \in 1..Len(usable) |-> k], LAMBDA k : Times(Assets(usable[k], byPID)) # {})
  IN  [k \in 1..Len(timed) |->
         [number |-> usable[timed[k]].number, svc |-> timed[k],
          assets |-> WithMPUs(Assets(usable[timed[k]], byPID))]]
-----------------------------------------------------------------------------
\* sort.Search, by halves: how many MPUs have begun, if their starts are in order
Begun(mpus, at) ==
  LET Search[i, j \in 0..Len(mpus)] ==
        LET h == (i + j) \div 2
        IN  IF i >= j THEN i
            ELSE IF mpus[h + 1].ntp > at THEN Search[i, h] ELSE Search[h + 1, j]
  IN  Search[0, Len(mpus)]

\* mutant: the window begins behind the MPU that plays
MPUWindowAhead(mpus, at, count) ==
  LET past == Begun(mpus, at)
  IN  SubSeq(mpus, past + 1, IF past + count < Len(mpus) THEN past + count ELSE Len(mpus))

\* generalMPUWindow: from the last MPU that has begun
MPUWindow(mpus, at, count) ==
  LET past  == Begun(mpus, at)
      start == IF past = 0 THEN 1 ELSE past
  IN  SubSeq(mpus, start, IF start + count - 1 < Len(mpus) THEN start + count - 1 ELSE Len(mpus))

\* extendedMPUWindow: as many of them as fit one descriptor
ExtendedWindow(mpus) ==
  LET Room(n) == MapThenSumSet(LAMBDA k : ExtendedHead + Len(mpus[k].units), 1..n)
  IN  SubSeq(mpus, 1, Max({n \in 0..Len(mpus) : Room(n) <= ExtendedRoom}))

\* buildGeneralMPT: what it says of each asset
MPT(service, at) ==
  [k \in 1..Len(service.assets) |->
     LET a == service.assets[k]
         window == MPUWindow(a.mpus, at, IF a.pid = "audio" THEN AudioWindow ELSE VideoWindow)
     IN  [ pid |-> a.pid, starts |-> {[seq |-> m.seq, ntp |-> m.ntp] : m \in ToSet(window)},
           units |-> {m.seq : m \in ToSet(ExtendedWindow(window))} ]]

\* generalHEVCAdmissionNAL: one picture that is no point of access
AdmissionNAL(a) ==
  LET nals == FlattenSeq([k \in 1..Len(a.pes) |-> SamplesOf("hevc", a.pes[k].body)])
      some == SelectSeq(nals, LAMBDA nal : nal[1].nal = "trail")
  IN  SubSeq(some, 1, IF some = <<>> THEN 0 ELSE 1)
-----------------------------------------------------------------------------
(* The events of the conversion, and what each of them writes.               *)

Signals(services, at) ==
  FlattenSeq([k \in 1..Len(services) |->
    << [ntp |-> at, priority |-> 0, what |-> "PLT", svc |-> services[k].svc, data |-> <<>>],
       [ntp |-> at, priority |-> 1, what |-> "MPT", svc |-> services[k].svc, data |-> MPT(services[k], at)],
       [ntp |-> at, priority |-> 2, what |-> "EIT", svc |-> services[k].svc, data |-> <<>>] >>])

\* of the first video asset that has MPUs
Admission(service) ==
  LET videos == SelectSeq(service.assets, LAMBDA a : a.stream.type = "hevc" /\ a.mpus # <<>>)
  IN  IF videos = <<>> \/ AdmissionNAL([videos[1] EXCEPT !.pes = Valid(videos[1])]) = <<>> THEN <<>>
      ELSE << [ntp |-> videos[1].mpus[1].ntp, priority |-> 3, what |-> "admission", svc |-> service.svc,
               data |-> AdmissionNAL([videos[1] EXCEPT !.pes = Valid(videos[1])])[1]] >>

MediaOf(service) ==
  FlattenSeq([k \in 1..Len(service.assets) |->
    LET a == service.assets[k] IN
    [j \in 1..Len(a.mpus) |->
      [ntp |-> a.mpus[j].ntp, priority |-> 4, what |-> "media", svc |-> service.svc,
       data |-> [asset |-> a, mpu |-> a.mpus[j]]]]])

\* sort.SliceStable by time and priority
Events(services) ==
  LET ends  == UNION {UNION {{a.mpus[j].ntp : j \in 1..Len(a.mpus)} : a \in ToSet(s.assets)}
                      : s \in ToSet(services)}
      last  == Max(ends \cup {NTPBase})
      ticks == [k \in 1..((last - NTPBase) \div SignalInterval + 2) |-> NTPBase + (k - 1) * SignalInterval]
      all   == FlattenSeq([k \in 1..Len(ticks) |-> Signals(services, ticks[k])])
               \o FlattenSeq([k \in 1..Len(services) |-> Admission(services[k])])
               \o FlattenSeq([k \in 1..Len(services) |-> MediaOf(services[k])])
  IN  SortSeq([k \in 1..Len(all) |-> [order |-> k] @@ all[k]],
              LAMBDA x, y : \/ x.ntp < y.ntp
                            \/ x.ntp = y.ntp /\ x.priority < y.priority
                            \/ x.ntp = y.ntp /\ x.priority = y.priority /\ x.order < y.order)

PacketOf(svc, pid, ntp, data) == [Packet(pid, pid, ntp, svc) EXCEPT !.svc = svc, !.data = data]

LostBefore(m) == MapThenSumSet(LAMBDA k : m.units[k].pes.lost, 1..Len(m.units))

\* replayAV for the MPU, behind a gap as long as what was lost before it
WriteMedia(w, e) ==
  LET a     == e.data.asset
      m     == e.data.mpu
      key   == <<e.svc, a.pid>>
      all   == FlattenSeq([k \in 1..Len(m.units) |-> SamplesOf(a.stream.type, m.units[k].body)])
      p     == [PacketOf(e.svc, a.pid, e.ntp, <<>>) EXCEPT !.mpu = m.seq, !.mfu = TRUE, !.rap = m.rap]
      Write(acc, k) == WriteSample(acc, key, [p EXCEPT !.rap = @ /\ k = 1], all[k])
  IN  FoldLeft(Write, Skip(w, key, LostBefore(m)), [k \in 1..Len(all) |-> k])

WriteEvent(w, e) ==
  CASE e.what = "media" -> WriteMedia(w, e)
    [] e.what = "admission" ->
         WritePacket(w, <<e.svc, "video">>,
           [PacketOf(e.svc, "video", e.ntp, e.data) EXCEPT !.id = "admission", !.mfu = TRUE])
    [] OTHER -> WritePacket(w, <<e.svc, e.what>>, PacketOf(e.svc, e.what, e.ntp, e.data))
-----------------------------------------------------------------------------
\* buildGeneralMHSDT and its like: the first section of each key
FirstOfEach(sections, id) ==
  LET mine == SelectSeq(sections, LAMBDA s : s.id = id)
      firsts == SelectSeq([k \in 1..Len(mine) |-> k],
                  LAMBDA k : \A j \in 1..(k - 1) : mine[j].key # mine[k].key)
  IN  SelectSeq([k \in 1..Len(firsts) |-> mine[firsts[k]]], LAMBDA s : s.ok)

WriteSections(w, svc, ntp, sections) ==
  FoldLeft(LAMBDA acc, s : WritePacket(acc, <<svc, s.id>>, PacketOf(svc, s.id, ntp, s.body)), w, sections)

SlowTables == << "EIT schedule", "CDT", "BIT" >>

\* writeStreamSI
WriteStreamSI(w, services, sections, ntp, second) ==
  LET bare == WriteBare(WriteBare(w, PacketOf(0, "TLV-SI", ntp, <<>>)), PacketOf(0, "NTP", ntp, <<>>))
      slow == IF second % SlowSI = 0
              THEN FlattenSeq([k \in 1..Len(SlowTables) |-> FirstOfEach(sections, SlowTables[k])])
              ELSE <<>>
      Service(acc, s) ==
        WriteSections(WritePacket(acc, <<s.svc, "TOT">>, PacketOf(s.svc, "TOT", ntp, <<>>)),
                      s.svc, ntp, FirstOfEach(sections, "SDT") \o slow)
  IN  FoldLeft(Service, bare, services)

\* an event, behind the SI when a second has begun
Advance(acc, services, sections, e) ==
  LET second == (e.ntp - NTPBase) \div Second
  IN  [ w |-> WriteEvent(IF second > acc.second
                         THEN WriteStreamSI(acc.w, services, sections, e.ntp, second) ELSE acc.w, e),
        second |-> IF second > acc.second THEN second ELSE acc.second ]

\* before the events the SI and one PLT for each service (the ten first EITs
\* are written as one)
WriteServices(services, sections) ==
  LET Begin(acc, s) == WritePacket(acc, <<s.svc, "PLT">>, PacketOf(s.svc, "PLT", NTPBase, <<>>))
  IN  FoldLeft(LAMBDA acc, e : Advance(acc, services, sections, e),
               [w |-> FoldLeft(Begin, WriteStreamSI(NewWriter, services, sections, NTPBase, 0), services),
                second |-> 0],
               Events(services)).w

\* runGeneralTS
ConvertGeneral(programs, byPID, sections) ==
  LET services == Services(programs, byPID)
  IN  IF services = <<>> THEN NewWriter ELSE WriteServices(services, sections)
=============================================================================
