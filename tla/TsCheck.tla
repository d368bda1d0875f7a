------------------------------- MODULE TsCheck -------------------------------
(***************************************************************************)
(* mpegts.Writer and pes.AppendHeader, and tscheck, which reads a stream.  *)
(*                                                                         *)
(* The writer cuts PES packets and sections into packets of a transport    *)
(* stream, with the continuity counter of each PID; pes.AppendHeader says  *)
(* how long a PES is.  A payload is a sequence of cells [of, n, most]:     *)
(* cell n of the most that carry the section or the PES "of".  The first   *)
(* stands for the header.                                                  *)
(*                                                                         *)
(* tscheck: its scanner (tscheck/tscheck.go) reads a transport stream      *)
(* packet by packet, learns from the PAT and the PMTs what a PID carries,  *)
(* and notes what is wrong with counters, sections, PES packets, clocks    *)
(* and carousels.  Of a carousel (tscheck/dsmcc.go) it collects modules    *)
(* as the last DII lists them, checks each, and holds the bootstrap and    *)
(* the object manifest against the DII and the modules collected.          *)
(*                                                                         *)
(* What is found is a set of <<kind, pid>>; how often is left out.         *)
(* Carousel sections are those of ReaderOps: they are well formed, as      *)
(* BuildDII and BuildDDB make them, so that the checks of single fields    *)
(* have nothing to find and are left out.  A module's bytes are one value, *)
(* of which its checksums and the hashes of the directory and manifest     *)
(* tell any other.                                                         *)
(***************************************************************************)
EXTENDS ReaderOps, Integers, Sequences

(* The writer.                                                             *)

CONSTANTS
  TsPIDs,      \* the PIDs written
  CcRange,     \* the continuity counter counts modulo this (16)
  PayloadSize, \* cells in a packet
  PCRSize,     \* cells that an adaptation field with a PCR takes
  MaxDeclared  \* a PES of more cells does not declare its length (0xffff)

ASSUME WriterAssumption ==
  /\ CcRange \in Nat \ {0} /\ MaxDeclared \in Nat
  /\ PCRSize \in Nat /\ PayloadSize \in Nat /\ PCRSize < PayloadSize

NoPCR == -1

NewWriter == [cc |-> [pid \in TsPIDs |-> 0], out |-> <<>>]

CellsOf(x, most) == [n \in 1 .. most |-> [of |-> x, n |-> n, most |-> most]]

Stuffing == [of |-> [table |-> "none"], n |-> 0, most |-> 0]

Least(a, b) == IF a <= b THEN a ELSE b

\* op over seq from its first element on
Fold(op(_, _), base, seq) ==
  LET f[k \in 0 .. Len(seq)] == IF k = 0 THEN base ELSE op(f[k - 1], seq[k]) IN f[Len(seq)]
-----------------------------------------------------------------------------
\* mutant: a packet without a payload takes the next number
WritePacketNumbered(w, pid, start, pcr, cells) ==
  [cc  |-> [w.cc EXCEPT ![pid] = IF cells = <<>> THEN @ ELSE (@ + 1) % CcRange],
   out |-> Append(w.out, [pid |-> pid, start |-> start, pcr |-> pcr, cells |-> cells,
                          cc |-> w.cc[pid]])]

\* a packet without a payload repeats the number of the one before it
WritePacket(w, pid, start, pcr, cells) ==
  [cc  |-> [w.cc EXCEPT ![pid] = IF cells = <<>> THEN @ ELSE (@ + 1) % CcRange],
   out |-> Append(w.out, [pid |-> pid, start |-> start, pcr |-> pcr, cells |-> cells,
                          cc |-> IF cells = <<>> THEN (w.cc[pid] - 1) % CcRange ELSE w.cc[pid]])]

\* the payloads of the packets of a unit, room cells of which fit the first
Cut(cells, room) ==
  [k \in 1 .. 1 + (Len(cells) - Least(room, Len(cells)) + PayloadSize - 1) \div PayloadSize |->
     SubSeq(cells, IF k = 1 THEN 1 ELSE room + (k - 2) * PayloadSize + 1,
                   Least(Len(cells), room + (k - 1) * PayloadSize))]

WriteUnit(w, pid, cells, pcr) ==
  LET parts == Cut(cells, IF pcr = NoPCR THEN PayloadSize ELSE PayloadSize - PCRSize)
      Add(acc, k) == WritePacket(acc, pid, k = 1, IF k = 1 THEN pcr ELSE NoPCR, parts[k])
  IN  Fold(Add, w, [k \in DOMAIN parts |-> k])

WriteAdaptationOnly(w, pid, pcr) == WritePacket(w, pid, FALSE, pcr, <<>>)

\* the cell of the pointer is the header's; the last packet is filled up
Padded(cells) ==
  cells \o [k \in 1 .. (-Len(cells)) % PayloadSize |-> Stuffing]

WriteSection(w, pid, cells) == WriteUnit(w, pid, Padded(cells), NoPCR)

\* the receiver is to see that n packets are missing
SkipContinuity(w, pid, n) == [w EXCEPT !.cc[pid] = (@ + n) % CcRange]
-----------------------------------------------------------------------------
\* a unit of size cells as a PES: a header and the size it declares, if any
PESOf(pid, size, dts, pts, framed) ==
  [table |-> "PES", pid |-> pid, dts |-> dts, pts |-> pts,
   declared |-> IF size + 1 > MaxDeclared THEN 0 ELSE size + 1,
   framed |-> framed]

WritePES(w, x, size, pcr) == WriteUnit(w, x.pid, CellsOf(x, size + 1), pcr)
-----------------------------------------------------------------------------
(* The scanner.                                                            *)

CONSTANTS
  SIPIDs,         \* PIDs that carry sections whatever the PMT says
  PATPID,
  MaxPCRInterval  \* PCRs further apart than this are noted (100 ms)
-----------------------------------------------------------------------------
(* One carousel.                                                           *)

Unverified == -1

NewCheck ==
  [ haveDII   |-> FALSE,
    modules   |-> Nothing,    \* id -> version, as the last DII lists them
    pending   |-> Nothing,    \* id -> the version and the blocks collected
    complete  |-> Nothing,    \* id -> the version and the bytes
    verifiedBootstrap |-> Unverified,
    verifiedManifest  |-> Unverified,
    directory |-> {},         \* the modules the last bootstrap was found right about
    resolved  |-> {},         \* the objects of the last manifest that was complete
    wrong     |-> {} ]        \* the DSM-CC errors

DsmccError(c, kind) == [c EXCEPT !.wrong = @ \cup {kind}]
-----------------------------------------------------------------------------
\* mutant: what another version left is kept
DiiKeeping(c, modules) ==
  [c EXCEPT !.haveDII = TRUE, !.modules = modules,
            !.pending = Restrict(@, DOMAIN @ \cap DOMAIN modules),
            !.complete = Restrict(@, DOMAIN @ \cap DOMAIN modules)]

OfVersions(f, modules) ==
  Restrict(f, {id \in DOMAIN f \cap DOMAIN modules : f[id].version = modules[id]})

\* scanner.dii
Dii(c, modules) ==
  [c EXCEPT !.haveDII  = TRUE,
            !.modules  = modules,
            !.pending  = OfVersions(@, modules),
            !.complete = OfVersions(@, modules)]
-----------------------------------------------------------------------------
(* A directory entry is compared with the DII and, if it has been          *)
(* collected, with the module.                                             *)

EntryErrors(c, entries) ==
  {"entry version" : id \in {i \in DOMAIN entries \cap DOMAIN c.modules :
                               c.modules[i] # entries[i].version}}
  \cup
  {"entry hash" : id \in {i \in DOMAIN entries \cap DOMAIN c.modules \cap DOMAIN c.complete :
                            /\ c.modules[i] = entries[i].version
                            /\ c.complete[i].stored # entries[i].stored}}

\* scanner.bootstrap: once for each version
Bootstrap(c, version) ==
  LET entries == c.complete[BootstrapID].stored.entries IN
  IF c.verifiedBootstrap = version THEN c
  ELSE [c EXCEPT
          !.verifiedBootstrap = version,
          !.wrong     = @ \cup EntryErrors(c, entries),
          !.directory = {id \in DOMAIN entries \cap DOMAIN c.modules \cap DOMAIN c.complete :
                           /\ c.modules[id] = entries[id].version
                           /\ c.complete[id].stored = entries[id].stored}]
-----------------------------------------------------------------------------
(* An object is cut out of the modules its parts name; the first of them   *)
(* that is missing or wrong ends it.                                       *)

PartFault(c, manifest, n) ==
  LET id == ObjectModuleID(n) IN
  IF id \notin DOMAIN c.complete THEN "missing"
  ELSE IF c.complete[id].version # manifest.versions[n] THEN "part version"
  ELSE "none"

ObjectFault(c, manifest, object) ==
  LET parts  == PartsOf(manifest, object)
      faulty == {n \in parts : PartFault(c, manifest, n) # "none"}
      hosts  == [objects |-> [id \in DOMAIN c.complete |-> c.complete[id].stored],
                 manifest |-> manifest]
  IN  IF faulty # {} THEN PartFault(c, manifest, Min(faulty))
      ELSE IF CutOut(hosts, object) # manifest.at[object].hashed THEN "object hash"
      ELSE "none"

\* scanner.manifest: until every object's modules have been there
Manifest(c, version) ==
  LET manifest == c.complete[ManifestID].stored
      faults   == [o \in DOMAIN manifest.at |-> ObjectFault(c, manifest, o)]
      judged   == [c EXCEPT !.wrong = @ \cup (Range(faults) \ {"none", "missing"})]
  IN  IF c.verifiedManifest = version THEN c
      ELSE IF "missing" \in Range(faults) THEN judged
      ELSE [judged EXCEPT !.verifiedManifest = version,
                          !.resolved = {o \in DOMAIN faults : faults[o] = "none"}]

\* scanner.module: a static object has the manifest looked at again
Module(c, id, version, blocks) ==
  LET stored == [c EXCEPT !.complete = Put(@, id, [version |-> version, stored |-> blocks[1]])] IN
  CASE Cardinality(Range(blocks)) > 1 -> DsmccError(c, "module CRC")
    [] Cardinality(Range(blocks)) = 1 /\ id = BootstrapID -> Bootstrap(stored, version)
    [] Cardinality(Range(blocks)) = 1 /\ id = ManifestID  -> Manifest(stored, version)
    [] Cardinality(Range(blocks)) = 1 /\ id[1] = "object" /\ ManifestID \in DOMAIN stored.complete ->
         Manifest([stored EXCEPT !.verifiedManifest = Unverified],
                  stored.complete[ManifestID].version)
    [] OTHER -> stored
-----------------------------------------------------------------------------
Gathered(c, id, version) ==
  IF id \in DOMAIN c.pending /\ c.pending[id].version = version
  THEN c.pending[id].blocks ELSE Nothing

\* scanner.ddb: a block before a DII, of no module or version that it lists, or
\* a second time is only counted
Ddb(c, x) ==
  LET blocks == Put(Gathered(c, x.id, x.version), x.block, x.stored) IN
  IF \/ ~ c.haveDII
     \/ x.id \notin DOMAIN c.modules \/ c.modules[x.id] # x.version
     \/ x.block \in DOMAIN Gathered(c, x.id, x.version)
  THEN c
  ELSE IF DOMAIN blocks # 1 .. Blocks
       THEN [c EXCEPT !.pending = Put(@, x.id, [version |-> x.version, blocks |-> blocks])]
       ELSE Module([c EXCEPT !.pending = Drop(@, x.id)], x.id, x.version, blocks)

\* scanner.dsmcc
Dsmcc(c, x) == IF x.table = "DII" THEN Dii(c, x.modules) ELSE Ddb(c, x)
-----------------------------------------------------------------------------
(* The scanner.                                                            *)

Unknown == -1

NewPIDState ==
  [ cc |-> Unknown, type |-> "none", section |-> <<>>, length |-> 0,
    open |-> FALSE, declared |-> 0, seen |-> 0, framed |-> 0, lastDTS |-> Unknown ]

NewScanner ==
  [ pids |-> [pid \in TsPIDs |-> NewPIDState], pmtPIDs |-> {}, lastPCR |-> Unknown,
    carousels |-> Nothing, found |-> {} ]

Note(s, kind, pid) == [s EXCEPT !.found = @ \cup {<<kind, pid>>}]
NoteIf(s, condition, kind, pid) == IF condition THEN Note(s, kind, pid) ELSE s
-----------------------------------------------------------------------------
\* scanner.packet: the counter
CheckCounter(s, p) ==
  LET st   == s.pids[p.pid]
      want == IF p.cells = <<>> THEN st.cc ELSE (st.cc + 1) % CcRange
  IN  [NoteIf(s, st.cc # Unknown /\ p.cc # want, "counter", p.pid) EXCEPT !.pids[p.pid].cc = p.cc]

\* scanner.pcr
CheckPCR(s, p) ==
  LET known == s.lastPCR # Unknown
      gap   == p.pcr - s.lastPCR
      back  == NoteIf(s, known /\ gap < 0, "PCR backwards", p.pid)
  IN  IF p.pcr = NoPCR THEN s
      ELSE [NoteIf(back, known /\ gap > MaxPCRInterval, "PCR interval", p.pid)
              EXCEPT !.lastPCR = p.pcr]
-----------------------------------------------------------------------------
(* Sections.                                                               *)

\* the cells of one section, all of them: what the CRC tells
Whole(cells) == \A k \in DOMAIN cells : cells[k].of = cells[1].of /\ cells[k].n = k

ReadPAT(s, x) == [s EXCEPT !.pmtPIDs = @ \cup x.pmts]

ReadPMT(s, x) ==
  [s EXCEPT !.pids = [pid \in TsPIDs |->
     IF pid \in DOMAIN x.types THEN [s.pids[pid] EXCEPT !.type = x.types[pid]] ELSE s.pids[pid]]]

ReadDsmcc(s, pid, x) ==
  LET c == Dsmcc(IF pid \in DOMAIN s.carousels THEN s.carousels[pid] ELSE NewCheck, x)
  IN  [s EXCEPT !.carousels = Put(@, pid, c),
                !.found = @ \cup {<<kind, pid>> : kind \in c.wrong}]

\* scanner.table
Table(s, pid, cells) ==
  LET x == cells[1].of IN
  CASE ~ Whole(cells) -> Note(s, "CRC", pid)
    [] Whole(cells) /\ x.table = "PAT" -> ReadPAT(s, x)
    [] Whole(cells) /\ x.table = "PMT" -> ReadPMT(s, x)
    [] Whole(cells) /\ x.table \in {"DII", "DDB"} -> ReadDsmcc(s, pid, x)

\* scanner.section
Section(s, p) ==
  LET st     == s.pids[p.pid]
      length == IF p.start THEN p.cells[1].most ELSE st.length
      had    == IF p.start THEN <<>> ELSE st.section
      cells  == had \o SubSeq(p.cells, 1, Least(Len(p.cells), length - Len(had)))
      Held(held, most) == [s EXCEPT !.pids[p.pid].section = held, !.pids[p.pid].length = most]
  IN  IF length = 0 THEN s
      ELSE IF Len(cells) < length THEN Held(cells, length)
      ELSE Table(Held(<<>>, 0), p.pid, cells)
-----------------------------------------------------------------------------
(* PES packets.                                                            *)

\* scanner.closePES
ClosePES(s, pid) ==
  LET st     == s.pids[pid]
      length == NoteIf(s, st.open /\ st.declared > 0 /\ st.seen # st.declared, "length", pid)
  IN  NoteIf(length, st.open /\ st.framed > 0 /\ st.seen - 1 # st.framed, "frame", pid)

\* scanner.observePTS
ObservePTS(s, pid, x) ==
  LET last == s.pids[pid].lastDTS IN
  IF x.pts = Unknown THEN s
  ELSE [NoteIf(NoteIf(s, last # Unknown /\ x.dts < last, "DTS backwards", pid),
               x.dts > x.pts, "PTS before DTS", pid)
          EXCEPT !.pids[pid].lastDTS = x.dts]

\* scanner.checkPayloadStart: audio says how long its frame is
FrameOf(type, x) == IF type = "audio" THEN x.framed ELSE 0

\* a PES begins: the first cell is its header, or what is no PES at all
OpenPES(s, p) ==
  LET x  == p.cells[1].of
      on == [s EXCEPT !.pids[p.pid].open = TRUE,
                      !.pids[p.pid].declared = x.declared,
                      !.pids[p.pid].seen = Len(p.cells),
                      !.pids[p.pid].framed = FrameOf(s.pids[p.pid].type, x)]
  IN  IF x.table # "PES" THEN Note([s EXCEPT !.pids[p.pid].open = FALSE], "start code", p.pid)
      ELSE ObservePTS(on, p.pid, x)

\* scanner.pes
Pes(s, p) ==
  IF p.start THEN OpenPES(ClosePES(s, p.pid), p)
  ELSE IF s.pids[p.pid].open THEN [s EXCEPT !.pids[p.pid].seen = @ + Len(p.cells)]
  ELSE s
-----------------------------------------------------------------------------
CarriesSections(s, pid) ==
  pid = PATPID \/ pid \in s.pmtPIDs \/ pid \in SIPIDs \/ s.pids[pid].type = "dsmcc"

\* scanner.packet
Scan(s, p) ==
  LET counted == CheckPCR(CheckCounter(s, p), p) IN
  IF p.cells = <<>> THEN counted
  ELSE IF CarriesSections(counted, p.pid) THEN Section(counted, p)
  ELSE Pes(counted, p)

ScanAll(s, packets) == Fold(Scan, s, packets)

\* scanner.finish
ScanFinished(s) == FoldSet(LAMBDA pid, acc : ClosePES(acc, pid), s, TsPIDs)
=============================================================================
