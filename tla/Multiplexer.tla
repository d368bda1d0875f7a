----------------------------- MODULE Multiplexer -----------------------------
(***************************************************************************)
(* The converter from assembled units to the transport stream: MPTs that   *)
(* are replaced, repeated and lost, units of several assets and packages   *)
(* that arrive in any interleaving, the muxer, and a receiver of the       *)
(* stream, which reads a PMT only when its version is new to it.           *)
(*                                                                         *)
(* The muxer (remux/mux.go): units wait in a queue until one that is the   *)
(* reorder window ahead was seen, and are written in the order of their    *)
(* decoding times, with PSI and PCR in between as the clock passes.        *)
(*                                                                         *)
(* The muxer's state is a record m of which m.pr are the packages and      *)
(* streams, m.wrote what it wrote in the step at hand: records [what, ...] *)
(*   "pmt"  [package, pmt, time], for every package behind a PAT           *)
(*   "pcr"  [package, pid, time], alone or with a unit                    *)
(*   "unit" [key, pid, dts, time], a PES packet                            *)
(*   "slot" [time], where SI and the preservation carousel may follow      *)
(* A unit in the queue is [key, dts, seq, bad]; the framing of a bad one   *)
(* fails, which is noticed when it is its turn.                            *)
(***************************************************************************)
EXTENDS Programs


CONSTANTS
  ReorderWindow, PCRInterval, PSIInterval   \* Options, in ticks

ASSUME IntervalAssumption ==
  /\ ReorderWindow \in Nat
  /\ PCRInterval \in Nat \ {0}
  /\ PSIInterval \in Nat \ {0}

NewMuxer ==
  [ pr |-> NoPrograms, queue |-> {}, seq |-> 0, maxDTS |-> 0, origin |-> 0, haveOrigin |-> FALSE,
    started |-> FALSE, lastPSI |-> 0, lastPCR |-> 0, pcrAt |-> <<>>, wrote |-> <<>> ]

Wrote(m, e) == [m EXCEPT !.wrote = Append(@, e)]

\* pkg.lastPCR
PCRAt(m, package) == IF package \in DOMAIN m.pcrAt THEN m.pcrAt[package] ELSE 0
-----------------------------------------------------------------------------
WritePMT(m, package, time) ==
  LET pr == CountPMT(m.pr, package)
  IN  Wrote([m EXCEPT !.pr = pr],
            [what |-> "pmt", package |-> package, pmt |-> PMT(pr, package), time |-> time])

\* writePSI: the PCR PIDs of all packages, the PAT, then each PMT
WritePSI(m, time) ==
  LET chosen == FoldLeft(ChoosePCRPID, m.pr, m.pr.order)
  IN  FoldLeft(LAMBDA n, package : WritePMT(n, package, time),
           [m EXCEPT !.pr = [chosen EXCEPT !.pmtDirty = FALSE], !.lastPSI = time], m.pr.order)

\* writePCRs: packages whose last PCR is an interval ago
WritePCRs(m, time) ==
  FoldLeft(LAMBDA n, package :
         LET pid == n.pr.pkgs[package].pcrPID
         IN  IF pid \in {0, NullPID} \/ time - PCRAt(n, package) < PCRInterval THEN n
             ELSE Wrote([n EXCEPT !.pcrAt = Put(@, package, time)],
                        [what |-> "pcr", package |-> package, pid |-> pid, time |-> time]),
       m, m.pr.order)

Slot(m, time) == Wrote(m, [what |-> "slot", time |-> time])

\* one PCR interval of advance
Pass(m) ==
  LET time == m.lastPCR + PCRInterval
      at   == [m EXCEPT !.lastPCR = time]
      psi  == IF time - m.lastPSI >= PSIInterval
              THEN WritePSI(at, time) ELSE at
  IN  WritePCRs(Slot(psi, time), time)

PsiDue(m, time) == ~ m.started \/ m.pr.pmtDirty \/ time - m.lastPSI >= PSIInterval

\* the end of advance, and of idle
Settle(m, time) ==
  Slot(IF PsiDue(m, time)
       THEN [WritePSI(m, time) EXCEPT !.started = TRUE] ELSE m, time)

\* mutant: a gap is crossed with a single PCR
AdvanceOnce(m, time) ==
  Settle(IF time - m.lastPCR >= PCRInterval THEN Pass(m) ELSE m, time)

Advance(m, time) ==
  LET passes == IF time - m.lastPCR >= PCRInterval THEN (time - m.lastPCR) \div PCRInterval ELSE 0
  IN  Settle(FoldLeft(LAMBDA n, k : Pass(n), m, [k \in 1..passes |-> k]), time)

\* idle: only until the first unit sets the clock
Idle(m, time) == IF m.haveOrigin THEN m ELSE Settle(m, time)
-----------------------------------------------------------------------------
\* the first unit sets the clock
Started(m, u) ==
  IF m.haveOrigin THEN m
  ELSE [m EXCEPT !.origin = u.dts, !.haveOrigin = TRUE, !.lastPCR = 0,
                 !.lastPSI = 0 - PSIInterval]

\* a unit of the PCR PID carries a PCR, also when its framing fails
WriteUnit(m, u, time) ==
  LET s     == m.pr.streams[u.key]
      clock == s.pid = m.pr.pkgs[s.package].pcrPID
      set   == IF clock THEN [m EXCEPT !.lastPCR = time, !.pcrAt = Put(@, s.package, time)] ELSE m
      pcr   == IF clock THEN << [what |-> "pcr", package |-> s.package, pid |-> s.pid, time |-> time] >> ELSE <<>>
  IN  IF u.bad THEN set
      ELSE [set EXCEPT !.wrote = @ \o pcr \o
              << [what |-> "unit", key |-> u.key, pid |-> s.pid, dts |-> u.dts, seq |-> u.seq,
                  time |-> time] >>]

EmitAt(m, u, time) == WriteUnit(Advance(m, time), u, time)

\* emit: a unit from before the origin is written where the clock stands
Emit(m, u) ==
  LET start == Started(m, u)
  IN  EmitAt(start, u, IF u.dts < start.origin THEN start.lastPCR ELSE u.dts - start.origin)

Earlier(a, b) == a.dts < b.dts \/ (a.dts = b.dts /\ a.seq < b.seq)

\* mutant: the newest unit is compared, not the furthest one
RipeByLast(m, final) ==
  LET last == {u \in m.queue : u.seq = m.seq - 1}
  IN  IF final THEN m.queue
      ELSE {u \in m.queue : \E v \in last : v.dts - u.dts > ReorderWindow \/ v.dts < u.dts}

\* heap.Pop, one after another
InTurn(units) ==
  [n \in 1..Cardinality(units) |->
     CHOOSE u \in units : Cardinality({v \in units : Earlier(v, u)}) = n - 1]

Ripe(m, final) ==
  IF final THEN m.queue ELSE {u \in m.queue : m.maxDTS - u.dts > ReorderWindow}

\* drain: what is ripe, first things first
Drain(m, final) ==
  LET ripe == Ripe(m, final)
  IN  FoldLeft(Emit, [m EXCEPT !.queue = @ \ ripe], InTurn(ripe))

Pushed(m, key, dts, bad) ==
  [m EXCEPT !.queue = @ \cup {[key |-> key, dts |-> dts, seq |-> m.seq, bad |-> bad]},
            !.seq = @ + 1, !.maxDTS = IF dts > @ THEN dts ELSE @]

PushUnit(m, key, dts, bad) == Drain(Pushed(m, key, dts, bad), FALSE)
-----------------------------------------------------------------------------
(* The converter, its input and its receiver.                              *)

CONSTANTS
  Plans   \* what is sent: the MPTs of each package one after another, the
          \* units [dts, bad] of each asset, the clock readings before them

\* units are numbered from the first, and an MPT lists its assets in an order
ASSUME PlansAssumption ==
  \A p \in Plans :
    /\ \A k \in DOMAIN p.units :
         LET n == Len(p.units[k]) IN
         /\ n \in Nat /\ DOMAIN p.units[k] = 1..n
         /\ \A i \in 1..n : p.units[k][i].dts \in Int /\ p.units[k][i].bad \in BOOLEAN
    /\ \A q \in DOMAIN p.mpts :
         LET n == Len(p.mpts[q]) IN
         /\ n \in Nat \ {0}
         /\ \A i \in 1..n : LET z == p.mpts[q][i].assets IN Len(z) \in Nat /\ DOMAIN z = 1..Len(z)

VARIABLES
  plan,     \* the member of Plans that is sent
  issued,   \* which MPT of a package is on the air
  applied,  \* which one was applied last, 0 for none
  sent,     \* how many units of an asset were sent
  ntp,      \* clock readings heard
  m,        \* the muxer with its packages and streams
  late,     \* units pushed when the queue had passed them: their numbers
  pushed,   \* units that were pushed and can be framed
  air,      \* what was written, and what a receiver makes of it
  ended     \* the input ended

vars == <<plan, issued, applied, sent, ntp, m, late, pushed, air, ended>>

Init ==
  /\ plan \in Plans
  /\ issued = [p \in DOMAIN plan.mpts |-> 1]
  /\ applied = [p \in DOMAIN plan.mpts |-> 0]
  /\ sent = [k \in DOMAIN plan.units |-> 0]
  /\ ntp = 0
  /\ m = NewMuxer
  /\ late = {} /\ pushed = {}
  /\ air = [pmt |-> <<>>, clock |-> <<>>, out |-> <<>>, psi |-> [at |-> 0, gap |-> 0]]
  /\ ended = FALSE
-----------------------------------------------------------------------------
MaxOf(a, b) == IF a >= b THEN a ELSE b

PIDsOf(pmt) == {pmt.streams[n].pid : n \in 1..Len(pmt.streams)}

\* external: a receiver drops a PMT with the version that it has
HearPMT(a, e) ==
  LET new == e.package \notin DOMAIN a.pmt \/ a.pmt[e.package].shown.version # e.pmt.version
  IN  [a EXCEPT !.pmt = Put(@, e.package,
                            [shown |-> e.pmt, held |-> IF new THEN e.pmt ELSE @[e.package].held]),
                !.psi = [at |-> e.time,
                          gap |-> IF a.out = <<>> THEN 0 ELSE MaxOf(@.gap, e.time - @.at)]]

HearPCR(a, e) ==
  LET known == e.package \in DOMAIN a.clock
      old   == a.clock[e.package]
  IN  [a EXCEPT !.clock = Put(@, e.package,
         IF known THEN [at |-> e.time, gap |-> MaxOf(old.gap, e.time - old.at),
                        back |-> old.back \/ e.time < old.at]
         ELSE [at |-> e.time, gap |-> 0, back |-> FALSE])]

HearUnit(a, e, package) ==
  [a EXCEPT !.out = Append(@, [key |-> e.key, dts |-> e.dts, seq |-> e.seq, time |-> e.time,
     listed |-> package \in DOMAIN a.pmt /\ e.pid \in PIDsOf(a.pmt[package].held)])]

HearEvent(a, e, streams) ==
  CASE e.what = "pmt"  -> HearPMT(a, e)
    [] e.what = "pcr"  -> HearPCR(a, e)
    [] e.what = "unit" -> HearUnit(a, e, streams[e.key].package)
    [] OTHER -> a

\* a step of the muxer to n, and what it wrote
Steps(n) ==
  /\ m' = [n EXCEPT !.wrote = <<>>]
  /\ air' = FoldLeft(LAMBDA a, e : HearEvent(a, e, n.pr.streams), air, n.wrote)
-----------------------------------------------------------------------------
MPTOf(p) == plan.mpts[p][issued[p]]

\* applyMPT, the first time or again
MPTArrives(p) ==
  /\ ~ ended
  /\ applied' = [applied EXCEPT ![p] = issued[p]]
  /\ Steps([m EXCEPT !.pr = ApplyMPT(@, MPTOf(p))])
  /\ UNCHANGED <<plan, issued, sent, ntp, late, pushed, ended>>

\* the broadcaster goes on to its next MPT
Reissue(p) ==
  /\ ~ ended
  /\ issued[p] < Len(plan.mpts[p])
  /\ issued' = [issued EXCEPT ![p] = @ + 1]
  /\ UNCHANGED <<plan, applied, sent, ntp, m, late, pushed, air, ended>>

AssetsOf(mpt) == {mpt.assets[n] : n \in 1..Len(mpt.assets)}

\* the next unit of an asset: handleMedia, handleAU and mux.push, unless its
\* packets are those of no stream; on another's packet id it finds no time
UnitArrives(k) ==
  LET u == plan.units[k][sent[k] + 1] IN
  /\ ~ ended
  /\ sent[k] < Len(plan.units[k])
  /\ sent' = [sent EXCEPT ![k] = @ + 1]
  /\ \E p \in DOMAIN plan.mpts : \E a \in AssetsOf(MPTOf(p)) :
       /\ a.key = k
       /\ IF StreamOf(m.pr, MPTOf(p).flow, a.packet) = {k}
          THEN LET n == [m EXCEPT !.pr = AssignOutput(@, k)]
               IN  /\ Steps(PushUnit(n, k, u.dts, u.bad))
                   /\ late' = IF m.maxDTS - u.dts > ReorderWindow THEN late \cup {m.seq} ELSE late
                   /\ pushed' = IF u.bad THEN pushed ELSE pushed \cup {m.seq}
          ELSE UNCHANGED <<m, air, late, pushed>>
  /\ UNCHANGED <<plan, issued, applied, ntp, ended>>

\* a clock reading, which drives the muxer while there are no units
ClockArrives ==
  /\ ~ ended
  /\ ntp < Len(plan.clock)
  /\ ntp' = ntp + 1
  /\ IF m.pr.order # <<>> THEN Steps(Idle(m, plan.clock[ntp + 1])) ELSE UNCHANGED <<m, air>>
  /\ UNCHANGED <<plan, issued, applied, sent, late, pushed, ended>>

IdleAgain(n) == IF n.pr.order # <<>> THEN Idle(n, n.lastPSI) ELSE n

\* the end of the input: drain, and idle where there was no unit
End ==
  /\ ~ ended
  /\ ended' = TRUE
  /\ Steps(IdleAgain(Drain(m, TRUE)))
  /\ UNCHANGED <<plan, issued, applied, sent, ntp, late, pushed>>

Next ==
  \/ \E p \in DOMAIN plan.mpts : MPTArrives(p) \/ Reissue(p)
  \/ \E k \in DOMAIN plan.units : UnitArrives(k)
  \/ ClockArrives
  \/ End

Spec == Init /\ [][Next]_vars
-----------------------------------------------------------------------------
Streams == m.pr.streams
OnAir == {k \in DOMAIN Streams : Streams[k].emitted}

(* No two streams of the output have the same PID, none has that of a PMT or *)
(* of the carousel, and no two of a package the same component tag, whatever *)
(* tags the MPTs gave and in whatever order the first units came.            *)
IdentifiersUnique ==
  /\ \A j, k \in OnAir : j # k =>
       /\ Streams[j].pid # Streams[k].pid
       /\ Streams[j].package = Streams[k].package => Streams[j].tsTag # Streams[k].tsTag
  /\ \A k \in OnAir : /\ Streams[k].pid \notin ReservedPIDs \cup {0}
                      /\ \A p \in DOMAIN m.pr.pkgs : Streams[k].pid # m.pr.pkgs[p].pmtPID

(* A receiver that reads a PMT only when its version is new knows the        *)
(* streams and the PCR PID that the last PMT lists, and those are, unless a  *)
(* change waits for the next PSI, the streams of the last MPT with a unit.   *)
PMTReaches ==
  \A p \in DOMAIN air.pmt :
    LET q == air.pmt[p] IN
    /\ q.held.streams = q.shown.streams /\ q.held.pcr = q.shown.pcr
    /\ m.pr.pkgs[p].dirty \/
         PIDsOf(q.held) = {Streams[k].pid : k \in OnAir \cap ConvertedKeys(plan.mpts[p][applied[p]])}

(* A unit is written behind a PMT that lists its PID, unless its asset has   *)
(* left the MPT meanwhile; and PCRs go out where the PMT says.               *)
UnitsAnnounced ==
  /\ \A n \in 1..Len(air.out) :
       air.out[n].listed \/ \E p \in DOMAIN plan.mpts : \E i \in 1..applied[p] :
                              air.out[n].key \notin {a.key : a \in AssetsOf(plan.mpts[p][i])}
  /\ \A p \in DOMAIN air.pmt :
       m.pr.pkgs[p].pcrPID = air.pmt[p].held.pcr

(* emitDuePSI, PIDFor and writePSI: a receiver is told of a stream, and in   *)
(* time, before its units and its PCRs reach it.                            *)
Announced == PMTReaches /\ UnitsAnnounced

(* Every unit that can be framed is written once, none is left behind when  *)
(* the input ends, and all in the order of their decoding times, units of    *)
(* one time in the order they came, unless one came when the window had      *)
(* passed it.                                                                *)
InOrder ==
  LET seqs == {air.out[n].seq : n \in 1..Len(air.out)} IN
  /\ Cardinality(seqs) = Len(air.out)
  /\ seqs \cup {u.seq : u \in {v \in m.queue : ~ v.bad}} = pushed
  /\ ended => m.queue = {}
  /\ \A i, j \in 1..Len(air.out) :
       i < j => \/ air.out[i].dts < air.out[j].dts
                \/ air.out[i].dts = air.out[j].dts /\ air.out[i].seq < air.out[j].seq
                \/ air.out[j].seq \in late

Bads == \E k \in DOMAIN plan.units : \E n \in 1..Len(plan.units[k]) : plan.units[k][n].bad

(* The PCRs of a package go forward unless a unit was late, also when they   *)
(* move to another PID; of a single package with units that can be framed    *)
(* two are never further apart than the interval, however long the gap       *)
(* between the units; and the PSI is never further than both intervals.      *)
ClockRuns ==
  /\ \A p \in DOMAIN air.clock : air.clock[p].back => late # {}
  /\ (Cardinality(DOMAIN plan.mpts) = 1 /\ ~ Bads) =>
       \A p \in DOMAIN air.clock : air.clock[p].gap <= PCRInterval
  /\ m.haveOrigin => air.psi.gap <= PSIInterval + PCRInterval

Reused(a, p) ==
  \E q \in DOMAIN plan.mpts : \E i \in 1..applied[q] : \E b \in AssetsOf(plan.mpts[q][i]) :
    b.key # a.key /\ b.packet = a.packet /\ plan.mpts[q][i].flow = plan.mpts[p][applied[p]].flow

(* The packets of an asset in the last MPT of its package reach its stream,  *)
(* through moves to other packet ids and flows, unless the packet id was     *)
(* another asset's before.                                                   *)
RoutesRight ==
  \A p \in DOMAIN plan.mpts : applied[p] > 0 =>
    LET mpt == plan.mpts[p][applied[p]] IN
    \A a \in AssetsOf(mpt) :
      (a.kind \in Media /\ a.packet # 0 /\ ~ Reused(a, p)) =>
        StreamOf(m.pr, mpt.flow, a.packet) = {a.key}

(* PIDFor, TagFor and applyMPT: nothing on the way from the packet id of an  *)
(* asset to the PID of its stream is shared or mixed up.                    *)
Addressed == IdentifiersUnique /\ RoutesRight
=============================================================================
