------------------------------ MODULE Checked ------------------------------
(***************************************************************************)
(* What the converter writes, as tscheck reads it: PSI, the recorder's two *)
(* carousels, PES packets and clock references go through the writer into  *)
(* packets, of which a run of consecutive ones may be lost, and the        *)
(* scanner takes what is left.  The muxer is the outline of remux/mux.go   *)
(* that module Multiplexer models in full: time goes on by one PCR         *)
(* interval, and units come in the order of their times.                   *)
(***************************************************************************)
EXTENDS Recorder, TsCheck

CONSTANTS
  PMTPID, RealtimePID, ObjectPID, \* the PIDs of the PMT and of the carousels
  Streams,     \* the other PIDs and their stream types
  PCRPID,      \* one of them: the PID of the clock
  UnitInputs,  \* the units of the input: <<PID, cells, packets lost before it>>
  PSICells,    \* cells in a PAT or a PMT
  DsmccCells,  \* cells in a DII or a DDB
  PSIInterval, \* how often PSI is written
  MaxUnits,    \* bound: units of the input
  MaxLost      \* bound: how many packets the loss takes

VARIABLES
  cc,       \* the writer's continuity counters
  lastPSI,  \* when PSI was written last
  units,    \* how many units were written
  scanner,  \* the scanner
  loss,     \* "before", "in" or "after" the run of lost packets
  lost,     \* how many packets it has taken
  truth     \* what was lost, for the properties

cvars == <<vars, cc, lastPSI, units, scanner, loss, lost, truth>>

CInit ==
  /\ Init
  /\ cc = [pid \in TsPIDs |-> 0]
  /\ lastPSI = LongAgo
  /\ units = 0
  /\ scanner = NewScanner
  /\ loss = "before" /\ lost = 0
  /\ truth = [missed |-> [pid \in TsPIDs |-> 0], heard |-> {}, gaps |-> {},
              open |-> {}, torn |-> {}, closed |-> {}]
-----------------------------------------------------------------------------
(* Writing.                                                                *)

PidOf(role) == IF role = "realtime" THEN RealtimePID ELSE ObjectPID

PAT == [table |-> "PAT", pmts |-> {PMTPID}]

PMT == [table |-> "PMT",
        types |-> [pid \in DOMAIN Streams \cup {RealtimePID, ObjectPID} |->
                     IF pid \in DOMAIN Streams THEN Streams[pid] ELSE "dsmcc"]]

\* muxer.writePSI, when it is time
WritePSI(w, t) ==
  IF t - lastPSI < PSIInterval THEN w
  ELSE WriteSection(WriteSection(w, PATPID, CellsOf(PAT, PSICells)), PMTPID, CellsOf(PMT, PSICells))

\* muxer.writeCarousel: what goes on the air when r is installed
WriteCarousel(w, r, t) ==
  IF r.err # "none" THEN w
  ELSE Fold(LAMBDA acc, x : WriteSection(acc, PidOf(x.role), CellsOf(x, DsmccCells)), w,
         Sections("realtime", Rebuilt(r.realtime, t), t)
         \o Sections("object", Rebuilt(r.object, t), t))

Written == [cc |-> cc, out |-> <<>>]
-----------------------------------------------------------------------------
(* The packets on their way, and what is known of the lost ones: how many  *)
(* a PID misses, where packets came after a gap, and the PIDs whose last   *)
(* PES began and lost cells since, until the next one begins.              *)

Starts(p) == p.start /\ p.cells[1].of.table = "PES"

Missing(tr, pid, n) == [tr EXCEPT !.missed[pid] = (@ + n) % CcRange]

Lose(tr, p) ==
  LET fewer == Missing(tr, p.pid, IF p.cells = <<>> THEN 0 ELSE 1) IN
  CASE Starts(p) -> [fewer EXCEPT !.open = @ \ {p.pid}, !.torn = @ \ {p.pid}]
    [] ~ Starts(p) /\ p.cells # <<>> /\ p.pid \in tr.open -> [fewer EXCEPT !.torn = @ \cup {p.pid}]
    [] OTHER -> fewer

Hear(tr, p) ==
  LET next == [tr EXCEPT !.missed[p.pid] = 0,
                         !.heard = @ \cup {p.pid},
                         !.gaps = @ \cup {q \in {p.pid} \cap tr.heard : tr.missed[q] # 0}]
  IN  IF ~ Starts(p) THEN next
      ELSE [next EXCEPT !.closed = @ \cup (tr.torn \cap {p.pid}),
                        !.torn = @ \ {p.pid},
                        !.open = IF p.cells[1].of.declared > 0 THEN @ \cup {p.pid} ELSE @ \ {p.pid}]

\* the packets from i to j are lost
Arrive(packets, tr, i, j) ==
  /\ truth' = Fold(Hear, Fold(Lose, Fold(Hear, tr, SubSeq(packets, 1, i - 1)),
                             SubSeq(packets, i, j)), SubSeq(packets, j + 1, Len(packets)))
  /\ scanner' = ScanAll(scanner, SubSeq(packets, 1, i - 1) \o SubSeq(packets, j + 1, Len(packets)))
  /\ lost' = lost + (j - i + 1)
  /\ lost' <= MaxLost

\* one run of packets is lost, which may go on with those written next
Travel(packets, tr) ==
  \/ /\ loss # "in"
     /\ Arrive(packets, tr, 1, 0)
     /\ loss' = loss
  \/ /\ loss = "before"
     /\ \E i \in DOMAIN packets : \E j \in i .. Least(Len(packets), i + MaxLost - 1) :
          /\ Arrive(packets, tr, i, j)
          /\ loss' \in IF j = Len(packets) THEN {"in", "after"} ELSE {"after"}
  \/ /\ loss = "in"
     /\ \E j \in 1 .. Least(Len(packets), MaxLost) :
          /\ Arrive(packets, tr, 1, j)
          /\ loss' \in IF j = Len(packets) THEN {"in", "after"} ELSE {"after"}

Send(w, tr) ==
  /\ cc' = w.cc
  /\ Travel(w.out, tr)
-----------------------------------------------------------------------------
\* muxer.advance to the next clock reference, which there are after the first unit
Tick ==
  LET t == now + 1
      w == WriteCarousel(WritePSI(Written, t), InstallAll(rec, t), t)
  IN  /\ units > 0 /\ t <= MaxNow
      /\ Emit(t)
      /\ lastPSI' = IF t - lastPSI < PSIInterval THEN lastPSI ELSE t
      /\ Send(WriteAdaptationOnly(w, PCRPID, t), truth)
      /\ UNCHANGED units

UnitOf(pid, size) ==
  PESOf(pid, size, now, now + 1, IF Streams[pid] = "audio" THEN size ELSE 0)

\* muxer.emit: a unit, before which lost packets may have to be shown
Unit(pid, size, skip) ==
  LET w == WriteCarousel(WritePSI(Written, now), InstallAll(rec, now), now)
  IN  /\ units < MaxUnits
      /\ Emit(now)
      /\ units' = units + 1
      /\ lastPSI' = IF now - lastPSI < PSIInterval THEN lastPSI ELSE now
      /\ Send(WritePES(SkipContinuity(w, pid, skip), UnitOf(pid, size), size,
                       IF pid = PCRPID THEN now ELSE NoPCR),
              Missing(truth, pid, skip))

Ended(tr) == [tr EXCEPT !.closed = @ \cup tr.torn]

\* the end: what the recorder still has is written, and the scanner ends
End ==
  /\ units > 0
  /\ Finish(now)
  /\ \E w \in {WriteCarousel(Written, InstallAll(InstallAll(Flushed(rec), now), now), now)} :
       /\ cc' = w.cc
       /\ scanner' = ScanFinished(ScanAll(scanner, w.out))
       /\ truth' = Ended(Fold(Hear, truth, w.out))
  /\ loss' = IF loss = "in" THEN "after" ELSE loss
  /\ UNCHANGED <<lastPSI, units, lost>>

Unsent == UNCHANGED <<cc, lastPSI, units, scanner, loss, lost, truth>>

CNext ==
  \/ \E step \in Steps : ObserveNTP(Around(step)) /\ Unsent
  \/ \E skew \in Skews, x \in RecordInputs : TakeRecord(Around(skew), x[1], x[2]) /\ Unsent
  \/ \E o \in ObjectInputs : TakeCaption(o[1], o[2]) /\ Unsent
  \/ \E o \in ObjectInputs : TakeItem(o[1], o[2]) /\ Unsent
  \/ Tick
  \/ \E u \in UnitInputs : Unit(u[1], u[2], u[3])
  \/ End

CSpec == CInit /\ [][CNext]_cvars
-----------------------------------------------------------------------------
SideOf(role) == scanner.carousels[PidOf(role)]

\* a carousel and what the scanner has of it, when nothing was lost
Verified(role, c) ==
  LET check == SideOf(role) IN
  /\ check.complete = [id \in DOMAIN c.modules |->
       [version |-> c.modules[id].version, stored |-> c.modules[id].stored]]
  /\ check.directory = DOMAIN c.modules \ {BootstrapID}
  /\ ManifestID \in DOMAIN c.modules =>
       check.resolved = DOMAIN c.modules[ManifestID].stored.at

(* Scan over what the converter writes: as long as no packet is lost,      *)
(* tscheck finds nothing wrong but the losses the counters are to show,    *)
(* and it has every module of the carousels as the recorder put it there,  *)
(* with the directory right about all of them and every object resolved.   *)
EverythingIsVerified ==
  lost = 0 =>
    /\ scanner.found \subseteq {"counter"} \X TsPIDs
    /\ \A role \in {"realtime", "object"} :
         LET c == IF role = "realtime" THEN rec.realtime ELSE rec.object IN
         DOMAIN c.modules # {} => Verified(role, c)

(* scanner.packet and closePES: a counter is found wrong exactly where     *)
(* packets came after a gap, lost or shown, that is no multiple of the     *)
(* counter's range, and a PES that declares its length and lost cells      *)
(* after its start is found short, however many those were.                *)
LossIsSeen ==
  /\ {pid \in TsPIDs : <<"counter", pid>> \in scanner.found} = truth.gaps
  /\ \A pid \in truth.closed : <<"length", pid>> \in scanner.found

DsmccErrors == {"entry version", "entry hash", "module CRC", "part version", "object hash"}

(* dii, ddb, bootstrap and manifest: whatever is lost, of old and new      *)
(* directories, blocks and manifests the scanner never takes what does not *)
(* belong together for an error of the carousel; nor does it find clocks   *)
(* and times running back.                                                 *)
NoFalseAlarm ==
  \A e \in scanner.found :
    e[1] \notin DsmccErrors \cup {"PCR backwards", "DTS backwards", "PTS before DTS"}
=============================================================================
