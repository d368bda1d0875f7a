------------------------------- MODULE Programs -------------------------------
(***************************************************************************)
(* The packages and streams of the converter (remux/remux.go, stream.go,   *)
(* pkg.go): what an MPT changes, which stream a packet belongs to, how     *)
(* PIDs and component tags are given out, and the PMT of a package.        *)
(*                                                                         *)
(* An MPT is [package, flow, assets, info]; an asset is a record           *)
(*   key     scheme, type and id of the asset                              *)
(*   kind    "video", "audio", "caption", "application", "unsupported"     *)
(*   packet  its packet id on the MPT's flow, 0 when it has none there     *)
(*   tag     its MMT component tag, -1 when it has none                    *)
(*   type    the stream type that kind and audio component lead to         *)
(*   group, level  the asset group and its selection level, group -1: none *)
(*   info    what its component descriptors say                            *)
(***************************************************************************)
EXTENDS Integers, Sequences, FiniteSets, SequencesExt


CONSTANTS
  PMTPID,              \* the option, PMT PID of the first package
  LastPMTPID, LastPID, \* PIDs are given out up to these
  FirstPID,            \* and when there is none left, down to this one
  NullPID,             \* mpegts.PIDNull
  ReservedPIDs, ReservedTags,   \* what the preservation carousel has taken
  PidBase(_, _),       \* pidBase: package index and kind
  TagBase(_), TagLast(_),       \* component tags that the PID follows
  TagRange,            \* component tags of a TS, 256
  PmtVersions          \* 32

Media == {"video", "audio", "caption"}

\* a map of the code
Put(f, k, v) == (k :> v) @@ f

Without(f, k) == [x \in DOMAIN f \ {k} |-> f[x]]

NoPrograms ==
  [ order |-> <<>>, pkgs |-> <<>>, streams |-> <<>>, routes |-> <<>>, unconverted |-> <<>>,
    used |-> {PMTPID} \cup ReservedPIDs, pmtDirty |-> FALSE ]

NewPkg(index, pmtPID) ==
  [ index |-> index, pmtPID |-> pmtPID, pcrPID |-> 0, locked |-> FALSE,
    version |-> PmtVersions - 1, dirty |-> TRUE, order |-> <<>>, info |-> 0,
    tags |-> IF index = 0 THEN ReservedTags ELSE {} ]

NewStream(a, package) ==
  [ package |-> package, kind |-> a.kind, flow |-> 0, packet |-> 0, pid |-> 0, tsTag |-> 0,
    tag |-> -1, type |-> 0, group |-> -1, level |-> 0, info |-> 0,
    present |-> FALSE, emitted |-> FALSE ]
-----------------------------------------------------------------------------
\* allocatePMTPID, allocatePID, allocateTag
PMTPIDFor(pr, index) ==
  LET free == {pid \in (PMTPID + 1)..LastPMTPID : pid \notin pr.used}
  IN  IF index = 0 THEN PMTPID ELSE IF free = {} THEN 0 ELSE Min(free)

Preferred(s, index) ==
  PidBase(index, s.kind) +
    (IF s.tag >= TagBase(s.kind) /\ s.tag <= TagLast(s.kind) THEN s.tag - TagBase(s.kind) ELSE 0)

PIDFor(pr, s, index) ==
  LET from  == Preferred(s, index)
      above == {pid \in from..LastPID : pid \notin pr.used}
      below == {pid \in (FirstPID + 1)..from : pid \notin pr.used}
  IN  IF above # {} THEN Min(above) ELSE IF below # {} THEN Max(below) ELSE 0

TagFor(tags, s, pid) ==
  LET want == (IF s.tag = -1 THEN pid ELSE s.tag) % TagRange
      away(n) == (n - want + TagRange) % TagRange
      free == (0..(TagRange - 1)) \ tags
  IN  IF free = {} THEN want ELSE CHOOSE n \in free : \A k \in free : away(n) <= away(k)
-----------------------------------------------------------------------------
\* packageFor
WithPackage(pr, mpt) ==
  LET index == Len(pr.order)
      pid   == PMTPIDFor(pr, index)
  IN  IF mpt.package \in DOMAIN pr.pkgs THEN pr
      ELSE [pr EXCEPT !.order = Append(@, mpt.package),
                      !.pkgs = Put(@, mpt.package, NewPkg(index, pid)),
                      !.used = @ \cup {pid}, !.pmtDirty = TRUE]

Unconverted(pr, mpt, a) ==
  IF a.packet = 0 THEN pr
  ELSE [pr EXCEPT !.unconverted = Put(@, <<mpt.flow, a.packet>>, a.key)]

Dirty(pr, package, changed) ==
  [pr EXCEPT !.pmtDirty = @ \/ changed, !.pkgs[package].dirty = @ \/ changed]

\* mutant: the stream keeps the route it was founded with
RoutedOnce(pr, mpt, a, old) ==
  IF old.packet # 0 THEN pr.routes ELSE Put(pr.routes, <<mpt.flow, a.packet>>, a.key)

\* a stream that moved gives up its route, even one another has by now
Routed(pr, mpt, a, old) ==
  Put(IF old.packet # a.packet /\ old.packet # 0
      THEN Without(pr.routes, <<old.flow, old.packet>>) ELSE pr.routes,
      <<mpt.flow, a.packet>>, a.key)

\* applyAsset: what an asset says replaces, what it leaves out stays
Applied(s, a, flow) ==
  [s EXCEPT !.packet = a.packet, !.flow = flow, !.type = a.type, !.present = TRUE,
            !.tag = IF a.tag = -1 THEN @ ELSE a.tag,
            !.group = IF a.group = -1 THEN @ ELSE a.group,
            !.level = IF a.group = -1 THEN @ ELSE a.level,
            !.info = a.info]

\* one asset of applyMPT
WithAsset(pr, mpt, a) ==
  LET known == a.key \in DOMAIN pr.streams
      old   == IF known THEN pr.streams[a.key] ELSE NewStream(a, mpt.package)
      new   == Applied(old, a, mpt.flow)
      next  == [pr EXCEPT !.streams = Put(@, a.key, new), !.routes = Routed(pr, mpt, a, old),
                          !.pkgs[mpt.package].order = IF known THEN @ ELSE Append(@, a.key)]
  IN  IF a.kind \notin Media \/ a.packet = 0 THEN Unconverted(pr, mpt, a)
      ELSE Dirty(next, mpt.package, ~ known \/ old.type # a.type \/ ~ old.present)

ConvertedKeys(mpt) ==
  {mpt.assets[k].key : k \in {n \in 1..Len(mpt.assets) :
                                mpt.assets[n].kind \in Media /\ mpt.assets[n].packet # 0}}

\* streams of the package that the MPT does not name any more
WithoutAbsent(pr, mpt) ==
  LET gone == {k \in DOMAIN pr.streams : /\ pr.streams[k].package = mpt.package
                                         /\ pr.streams[k].present
                                         /\ k \notin ConvertedKeys(mpt)}
  IN  Dirty([pr EXCEPT !.streams = [k \in DOMAIN @ |->
                          [@[k] EXCEPT !.present = @ /\ k \notin gone]]],
            mpt.package, gone # {})

ApplyMPT(pr, mpt) ==
  LET founded == WithPackage(pr, mpt)
      told    == [founded EXCEPT !.pkgs[mpt.package].info = mpt.info]
  IN  WithoutAbsent(FoldLeft(LAMBDA p, a : WithAsset(p, mpt, a), told, mpt.assets), mpt)

\* the stream handleMedia gives a packet to: none while the packet id is
\* that of an asset which is not converted
StreamOf(pr, flow, packet) ==
  LET r == <<flow, packet>>
  IN  IF r \in DOMAIN pr.unconverted \/ r \notin DOMAIN pr.routes THEN {} ELSE {pr.routes[r]}
-----------------------------------------------------------------------------
\* assignOutput: with its first unit a stream gets its PID and tag
AssignOutput(pr, key) ==
  LET s   == pr.streams[key]
      p   == pr.pkgs[s.package]
      pid == PIDFor(pr, s, p.index)
      tag == TagFor(p.tags, s, pid)
      new == IF s.pid # 0 THEN pr
             ELSE [pr EXCEPT !.streams[key].pid = pid, !.streams[key].tsTag = tag,
                             !.used = @ \cup {pid}, !.pkgs[s.package].tags = @ \cup {tag}]
  IN  IF s.emitted THEN pr
      ELSE Dirty([new EXCEPT !.streams[key].emitted = TRUE], s.package, TRUE)

Active(pr, package) ==
  SelectSeq(pr.pkgs[package].order,
            LAMBDA k : pr.streams[k].present /\ pr.streams[k].emitted)

\* choosePCRPID: the stream that leads its group, video before audio; a
\* backup and anything else stands in until such a video is there
Leads(pr, k, kind) ==
  /\ pr.streams[k].kind = kind
  /\ pr.streams[k].group = -1 \/ pr.streams[k].level = 0

ChoosePCR(pr, package) ==
  LET active == Active(pr, package)
      of(kind) == SelectSeq(active, LAMBDA k : pr.streams[k].kind = kind)
      lead(kind) == SelectSeq(active, LAMBDA k : Leads(pr, k, kind))
      least(ks) == ks[CHOOSE n \in 1..Len(ks) :
                        \A m \in 1..Len(ks) :
                          \/ pr.streams[ks[n]].level < pr.streams[ks[m]].level
                          \/ pr.streams[ks[n]].level = pr.streams[ks[m]].level /\ n <= m]
      pick(k, final) == [pid |-> pr.streams[k].pid, final |-> final]
  IN  CASE lead("video") # <<>>  -> pick(lead("video")[1], TRUE)
        [] lead("video") = <<>> /\ of("video") # <<>> -> pick(least(of("video")), FALSE)
        [] of("video") = <<>> /\ lead("audio") # <<>> -> pick(lead("audio")[1], FALSE)
        [] of("video") = <<>> /\ lead("audio") = <<>> /\ of("audio") # <<>> ->
             pick(least(of("audio")), FALSE)
        [] of("video") = <<>> /\ of("audio") = <<>> /\ active # <<>> -> pick(active[1], FALSE)
        [] OTHER -> [pid |-> NullPID, final |-> FALSE]

\* hierarchyPeers: two videos of a group with different levels
Peer(pr, package, key) ==
  LET same == {k \in {Active(pr, package)[n] : n \in 1..Len(Active(pr, package))} :
                 /\ pr.streams[k].kind = "video"
                 /\ pr.streams[k].group = pr.streams[key].group}
      other == same \ {key}
  IN  IF pr.streams[key].kind = "video" /\ pr.streams[key].group # -1 /\ Cardinality(same) = 2
      THEN {pr.streams[k].pid : k \in {x \in other : pr.streams[x].level # pr.streams[key].level}}
      ELSE {}

\* mutant: a change of the PCR PID alone is not counted
ChoosePCRPIDQuietly(pr, package) ==
  LET c == ChoosePCR(pr, package)
  IN  IF pr.pkgs[package].locked THEN pr
      ELSE [pr EXCEPT !.pkgs[package].pcrPID = c.pid, !.pkgs[package].locked = c.final]

\* writePSI for one package: the PCR PID while it is open, and writePMT
ChoosePCRPID(pr, package) ==
  LET p == pr.pkgs[package]
      c == ChoosePCR(pr, package)
  IN  IF p.locked THEN pr
      ELSE [pr EXCEPT !.pkgs[package].pcrPID = c.pid, !.pkgs[package].locked = c.final,
                      !.pkgs[package].dirty = @ \/ c.pid # p.pcrPID]

CountPMT(pr, package) ==
  IF pr.pkgs[package].dirty
  THEN [pr EXCEPT !.pkgs[package].version = (@ + 1) % PmtVersions, !.pkgs[package].dirty = FALSE]
  ELSE pr

\* what the section lists, and what its descriptors say
PMT(pr, package) ==
  LET active == Active(pr, package) IN
  [ version |-> pr.pkgs[package].version,
    pcr |-> pr.pkgs[package].pcrPID,
    streams |-> [n \in 1..Len(active) |->
                   [pid |-> pr.streams[active[n]].pid, tag |-> pr.streams[active[n]].tsTag,
                    type |-> pr.streams[active[n]].type]],
    says |-> <<pr.pkgs[package].info,
               [n \in 1..Len(active) |-> <<pr.streams[active[n]].info, Peer(pr, package, active[n])>>]>>]
=============================================================================
