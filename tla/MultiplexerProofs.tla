-------------------------- MODULE MultiplexerProofs --------------------------
(***************************************************************************)
(* Proofs about the reorder queue of the muxer, for any MPTs, any units in *)
(* any interleaving, any window and intervals.                             *)
(***************************************************************************)
EXTENDS Multiplexer, FiniteSetTheorems, TLAPS

IsSeq(z) == \E S : z \in Seq(S)

MuxFields ==
  {"pr", "queue", "seq", "maxDTS", "origin", "haveOrigin", "started", "lastPSI", "lastPCR",
   "pcrAt", "wrote"}

PrFields == {"order", "pkgs", "streams", "routes", "unconverted", "used", "pmtDirty"}

IsPr(pr) == DOMAIN pr = PrFields /\ IsSeq(pr.order)

IsMux(n) ==
  /\ DOMAIN n = MuxFields /\ IsPr(n.pr) /\ IsSeq(n.wrote)
  /\ n.lastPCR \in Int /\ n.origin \in Int

\* the events a and b have the same units
Extends(a, b) ==
  /\ Len(a) \in Nat /\ Len(b) \in Nat /\ Len(a) <= Len(b)
  /\ \A i \in 1 .. Len(a) : b[i] = a[i]
  /\ \A i \in 1 .. Len(b) : i > Len(a) => b[i].what # "unit"

\* from n to q nothing happened to the units
Quiet(n, q) ==
  /\ IsMux(q) /\ q.queue = n.queue /\ q.seq = n.seq /\ q.maxDTS = n.maxDTS
  /\ Extends(n.wrote, q.wrote)
-----------------------------------------------------------------------------
(* Sequences.                                                              *)
LEMMA SeqIs ==
  ASSUME NEW z, IsSeq(z)
  PROVE  Len(z) \in Nat /\ DOMAIN z = 1 .. Len(z)
BY DEF IsSeq

\* z is y with o behind it, or with s
IsWith(y, o, z) ==
  /\ IsSeq(z) /\ Len(y) \in Nat /\ Len(z) = Len(y) + 1 /\ z[Len(y) + 1] = o
  /\ \A j \in 1 .. Len(y) : z[j] = y[j]

IsJoined(y, s, z) ==
  /\ IsSeq(z) /\ Len(y) \in Nat /\ Len(s) \in Nat /\ Len(z) = Len(y) + Len(s)
  /\ \A j \in 1 .. Len(y) : z[j] = y[j]
  /\ \A j \in 1 .. Len(s) : z[Len(y) + j] = s[j]

LEMMA Appended ==
  ASSUME NEW y, IsSeq(y), NEW o
  PROVE  IsWith(y, o, Append(y, o))
<1>0. PICK z : z = Append(y, o)
  OBVIOUS
<1>1. PICK S : y \in Seq(S)
  BY DEF IsSeq
<1>2. PICK R : R = S \cup {o}
  OBVIOUS
<1>3. y \in Seq(R) /\ o \in R
  BY <1>1, <1>2
<1>4. z \in Seq(R) /\ Len(z) = Len(y) + 1 /\ Len(y) \in Nat
  BY <1>0, <1>3
<1>5. z[Len(y) + 1] = o /\ \A j \in 1 .. Len(y) : z[j] = y[j]
  BY <1>0, <1>3
<1>6. QED
  BY <1>0, <1>4, <1>5 DEF IsSeq, IsWith

LEMMA NothingIs == IsSeq(<<>>) /\ Len(<<>>) = 0
<1>1. <<>> \in Seq({}) /\ Len(<<>>) = 0
  OBVIOUS
<1>2. QED
  BY <1>1 DEF IsSeq

LEMMA ExtendsSelf ==
  ASSUME NEW a, IsSeq(a)
  PROVE  Extends(a, a)
BY SeqIs DEF Extends

LEMMA ExtendsMore ==
  ASSUME NEW a, NEW b, NEW c, Extends(a, b), Extends(b, c)
  PROVE  Extends(a, c)
<1>1. PICK k \in Nat, l \in Nat, m0 \in Nat : k = Len(a) /\ l = Len(b) /\ m0 = Len(c)
  BY DEF Extends
<1>2. k <= l /\ l <= m0
  BY <1>1 DEF Extends
<1>3. \A i \in 1 .. k : i \in 1 .. l /\ c[i] = a[i]
  BY <1>1, <1>2 DEF Extends
<1>4. \A i \in 1 .. m0 : i > k => c[i].what # "unit"
  <2>1. SUFFICES ASSUME NEW i \in 1 .. m0, i > k
                 PROVE  c[i].what # "unit"
    OBVIOUS
  <2>2. CASE i > l
    BY <1>1, <2>2 DEF Extends
  <2>3. CASE i <= l
    <3>1. i \in 1 .. l
      BY <2>3
    <3>2. c[i] = b[i] /\ b[i].what # "unit"
      BY <1>1, <2>1, <3>1 DEF Extends
    <3>3. QED
      BY <3>2
  <2>4. QED
    BY <2>2, <2>3
<1>5. QED
  BY <1>1, <1>2, <1>3, <1>4 DEF Extends

LEMMA QuietSelf ==
  ASSUME NEW n, IsMux(n)
  PROVE  Quiet(n, n)
BY ExtendsSelf DEF Quiet, IsMux

LEMMA QuietMore ==
  ASSUME NEW n, NEW p, NEW q, Quiet(n, p), Quiet(p, q)
  PROVE  Quiet(n, q)
<1>1. Extends(n.wrote, q.wrote)
  BY ExtendsMore DEF Quiet
<1>2. QED
  BY <1>1 DEF Quiet

\* an event that is no unit is written
LEMMA QuietWrote ==
  ASSUME NEW n, IsMux(n), NEW e, e.what # "unit"
  PROVE  Quiet(n, Wrote(n, e))
<1>1. PICK q : q = Wrote(n, e)
  OBVIOUS
<1>2. /\ DOMAIN q = MuxFields /\ q.pr = n.pr /\ q.queue = n.queue /\ q.seq = n.seq
      /\ q.maxDTS = n.maxDTS /\ q.wrote = Append(n.wrote, e)
      /\ q.lastPCR = n.lastPCR /\ q.origin = n.origin
  BY <1>1 DEF Wrote, IsMux, MuxFields
<1>3. PICK w, z : w = n.wrote /\ z = q.wrote
  OBVIOUS
<1>8. IsSeq(w) /\ z = Append(w, e)
  BY <1>2, <1>3 DEF IsMux
<1>9. /\ IsSeq(z) /\ Len(w) \in Nat /\ Len(z) = Len(w) + 1 /\ z[Len(w) + 1] = e
      /\ \A j \in 1 .. Len(w) : z[j] = w[j]
  BY <1>8, Appended DEF IsWith
<1>4. PICK k : k = Len(w)
  OBVIOUS
<1>5. /\ IsSeq(z) /\ k \in Nat /\ Len(z) = k + 1 /\ z[k + 1] = e
      /\ \A j \in 1 .. k : z[j] = w[j]
  BY <1>4, <1>9
<1>6. Extends(w, z)
  BY <1>4, <1>5 DEF Extends
<1>7. QED
  BY <1>1, <1>2, <1>3, <1>5, <1>6 DEF Quiet, IsMux

\* other fields change
LEMMA QuietSet ==
  ASSUME NEW n, IsMux(n), NEW q, DOMAIN q = MuxFields, IsPr(q.pr),
         q.queue = n.queue, q.seq = n.seq, q.maxDTS = n.maxDTS, q.wrote = n.wrote,
         q.lastPCR \in Int, q.origin \in Int
  PROVE  Quiet(n, q)
BY ExtendsSelf DEF Quiet, IsMux
-----------------------------------------------------------------------------
(* PSI and PCRs.                                                           *)
LEMMA CountIsPr ==
  ASSUME NEW pr, IsPr(pr), NEW p
  PROVE  IsPr(CountPMT(pr, p))
BY DEF IsPr, PrFields, CountPMT

LEMMA ChooseIsPr ==
  ASSUME NEW pr, IsPr(pr), NEW p
  PROVE  IsPr(ChoosePCRPID(pr, p))
<1>1. PICK c : c = ChoosePCR(pr, p)
  OBVIOUS
<1>2. QED
  BY <1>1 DEF IsPr, PrFields, ChoosePCRPID

LEMMA WritePMTQuiet ==
  ASSUME NEW n, IsMux(n), NEW p, NEW time
  PROVE  Quiet(n, WritePMT(n, p, time))
<1>1. PICK pr : pr = CountPMT(n.pr, p)
  OBVIOUS
<1>2. PICK q : q = [n EXCEPT !.pr = pr]
  OBVIOUS
<1>3. IsPr(pr)
  BY <1>1, CountIsPr DEF IsMux
<1>4. /\ DOMAIN q = MuxFields /\ q.pr = pr /\ q.queue = n.queue /\ q.seq = n.seq
      /\ q.maxDTS = n.maxDTS /\ q.wrote = n.wrote /\ q.lastPCR \in Int /\ q.origin \in Int
  BY <1>2 DEF IsMux, MuxFields
<1>5. Quiet(n, q) /\ IsMux(q)
  BY <1>3, <1>4, QuietSet DEF Quiet
<1>6. PICK e : e = [what |-> "pmt", package |-> p, pmt |-> PMT(pr, p), time |-> time]
  OBVIOUS
<1>7. e.what # "unit"
  BY <1>6
<1>8. Quiet(q, Wrote(q, e))
  BY <1>5, <1>7, QuietWrote
<1>9. WritePMT(n, p, time) = Wrote(q, e)
  BY <1>1, <1>2, <1>6 DEF WritePMT
<1>10. QED
  BY <1>5, <1>8, <1>9, QuietMore

\* the loops; in.m is the muxer before one
ChooseStep(in, pr, p) == ChoosePCRPID(pr, p)
ChooseKept(in, done, pr) == IsPr(pr)
Chosen == INSTANCE FoldFacts WITH Step <- ChooseStep, Keeps <- ChooseKept

PMTStep(in, n, p) == WritePMT(n, p, in.time)
PMTKept(in, done, n) == Quiet(in.m, n)
PMTs == INSTANCE FoldFacts WITH Step <- PMTStep, Keeps <- PMTKept

PMTsOf(n, z, time) == FoldLeft(LAMBDA acc, package : WritePMT(acc, package, time), n, z)

LEMMA ChosenIsPr ==
  ASSUME NEW pr, IsPr(pr), NEW z, IsSeq(z)
  PROVE  IsPr(FoldLeft(ChoosePCRPID, pr, z))
<1>1. FoldLeft(ChoosePCRPID, pr, z) = Chosen!Fold(0, pr, z)
  BY DEF Chosen!Fold, Chosen!FoldLeft, FoldLeft, MapThenFoldSet, Chosen!MapThenFoldSet, Chosen!Max,
         Max, ChooseStep
<1>2. PICK n \in Nat : DOMAIN z = 1 .. n
  BY SeqIs
<1>3. \A i \in 1 .. n : \A acc :
        ChooseKept(0, 1 .. (i - 1), acc) => ChooseKept(0, 1 .. i, ChooseStep(0, acc, z[i]))
  BY ChooseIsPr DEF ChooseKept, ChooseStep
<1>4. ChooseKept(0, 1 .. 0, pr)
  BY DEF ChooseKept
<1>5. ChooseKept(0, 1 .. n, Chosen!Fold(0, pr, z))
  BY <1>2, <1>3, <1>4, Chosen!FoldKeeps
<1>6. QED
  BY <1>1, <1>5 DEF ChooseKept

LEMMA PMTsQuiet ==
  ASSUME NEW n, IsMux(n), NEW z, IsSeq(z), NEW time
  PROVE  Quiet(n, PMTsOf(n, z, time))
<1>1. PICK in : in = [m |-> n, time |-> time]
  OBVIOUS
<1>2. PICK f : f = PMTs!Fold(in, n, z)
  OBVIOUS
<1>3. in.m = n /\ in.time = time
  BY <1>1
<1>4. PMTsOf(n, z, time) = f
  BY <1>2, <1>3 DEF PMTsOf, PMTs!Fold, PMTs!FoldLeft, FoldLeft, MapThenFoldSet, PMTs!MapThenFoldSet,
         PMTs!Max, Max, PMTStep
<1>5. PICK l \in Nat : DOMAIN z = 1 .. l
  BY SeqIs
<1>6. \A i \in 1 .. l : \A acc :
        PMTKept(in, 1 .. (i - 1), acc) => PMTKept(in, 1 .. i, PMTStep(in, acc, z[i]))
  <2>1. SUFFICES ASSUME NEW i \in 1 .. l, NEW acc, Quiet(n, acc)
                 PROVE  Quiet(n, WritePMT(acc, z[i], time))
    BY <1>3 DEF PMTKept, PMTStep
  <2>2. Quiet(acc, WritePMT(acc, z[i], time))
    BY <2>1, WritePMTQuiet DEF Quiet
  <2>3. QED
    BY <2>1, <2>2, QuietMore
<1>7. PMTKept(in, 1 .. 0, n)
  BY <1>3, QuietSelf DEF PMTKept
<1>8. PMTKept(in, 1 .. l, f)
  BY <1>2, <1>5, <1>6, <1>7, PMTs!FoldKeeps
<1>9. Quiet(n, f)
  BY <1>3, <1>8 DEF PMTKept
<1>10. QED
  BY <1>4, <1>9

LEMMA PSIQuiet ==
  ASSUME NEW n, IsMux(n), NEW time
  PROVE  Quiet(n, WritePSI(n, time))
<1>1. PICK chosen : chosen = FoldLeft(ChoosePCRPID, n.pr, n.pr.order)
  OBVIOUS
<1>2. IsPr(n.pr) /\ IsSeq(n.pr.order)
  BY DEF IsMux, IsPr
<1>3. IsPr(chosen)
  BY <1>1, <1>2, ChosenIsPr
<1>4. PICK pr : pr = [chosen EXCEPT !.pmtDirty = FALSE]
  OBVIOUS
<1>5. IsPr(pr)
  BY <1>3, <1>4 DEF IsPr, PrFields
<1>6. PICK q : q = [n EXCEPT !.pr = pr, !.lastPSI = time]
  OBVIOUS
<1>7. /\ DOMAIN q = MuxFields /\ q.pr = pr /\ q.queue = n.queue /\ q.seq = n.seq
      /\ q.maxDTS = n.maxDTS /\ q.wrote = n.wrote /\ q.lastPCR \in Int /\ q.origin \in Int
  BY <1>6 DEF IsMux, MuxFields
<1>8. Quiet(n, q) /\ IsMux(q)
  BY <1>5, <1>7, QuietSet DEF Quiet
<1>10. Quiet(q, PMTsOf(q, n.pr.order, time))
  BY <1>2, <1>8, PMTsQuiet
<1>11. WritePSI(n, time) = PMTsOf(q, n.pr.order, time)
  BY <1>1, <1>4, <1>6 DEF WritePSI, PMTsOf
<1>12. QED
  BY <1>8, <1>10, <1>11, QuietMore

PCRStep(in, n, package) ==
  LET pid == n.pr.pkgs[package].pcrPID
  IN  IF pid \in {0, NullPID} \/ in.time - PCRAt(n, package) < PCRInterval THEN n
      ELSE Wrote([n EXCEPT !.pcrAt = Put(@, package, in.time)],
                 [what |-> "pcr", package |-> package, pid |-> pid, time |-> in.time])
PCRs == INSTANCE FoldFacts WITH Step <- PCRStep, Keeps <- PMTKept

LEMMA PCRQuiet ==
  ASSUME NEW in, NEW n, IsMux(n), NEW package
  PROVE  Quiet(n, PCRStep(in, n, package))
<1>1. PICK pid : pid = n.pr.pkgs[package].pcrPID
  OBVIOUS
<1>2. PICK q : q = [n EXCEPT !.pcrAt = Put(@, package, in.time)]
  OBVIOUS
<1>3. PICK e : e = [what |-> "pcr", package |-> package, pid |-> pid, time |-> in.time]
  OBVIOUS
<1>4. /\ DOMAIN q = MuxFields /\ q.pr = n.pr /\ q.queue = n.queue /\ q.seq = n.seq
      /\ q.maxDTS = n.maxDTS /\ q.wrote = n.wrote /\ q.lastPCR \in Int /\ q.origin \in Int
  BY <1>2 DEF IsMux, MuxFields
<1>5. Quiet(n, q) /\ IsMux(q)
  BY <1>4, QuietSet DEF Quiet, IsMux
<1>6. e.what # "unit"
  BY <1>3
<1>7. Quiet(q, Wrote(q, e))
  BY <1>5, <1>6, QuietWrote
<1>8. Quiet(n, Wrote(q, e))
  BY <1>5, <1>7, QuietMore
<1>9. PCRStep(in, n, package) = n \/ PCRStep(in, n, package) = Wrote(q, e)
  BY <1>1, <1>2, <1>3 DEF PCRStep
<1>10. QED
  BY <1>8, <1>9, QuietSelf

LEMMA PCRsQuiet ==
  ASSUME NEW n, IsMux(n), NEW time
  PROVE  Quiet(n, WritePCRs(n, time))
<1>1. PICK in : in = [m |-> n, time |-> time]
  OBVIOUS
<1>2. PICK z : z = n.pr.order
  OBVIOUS
<1>3. in.m = n /\ in.time = time /\ IsSeq(z)
  BY <1>1, <1>2 DEF IsMux, IsPr
<1>4. WritePCRs(n, time) = PCRs!Fold(in, n, z)
  BY <1>2, <1>3 DEF WritePCRs, PCRs!Fold, PCRs!FoldLeft, FoldLeft, MapThenFoldSet,
         PCRs!MapThenFoldSet, PCRs!Max, Max, PCRStep
<1>5. PICK l \in Nat : DOMAIN z = 1 .. l
  BY <1>3, SeqIs
<1>6. \A i \in 1 .. l : \A acc :
        PMTKept(in, 1 .. (i - 1), acc) => PMTKept(in, 1 .. i, PCRStep(in, acc, z[i]))
  <2>1. SUFFICES ASSUME NEW i \in 1 .. l, NEW acc, Quiet(n, acc)
                 PROVE  Quiet(n, PCRStep(in, acc, z[i]))
    BY <1>3 DEF PMTKept
  <2>2. Quiet(acc, PCRStep(in, acc, z[i]))
    BY <2>1, PCRQuiet DEF Quiet
  <2>3. QED
    BY <2>1, <2>2, QuietMore
<1>7. PMTKept(in, 1 .. 0, n)
  BY <1>3, QuietSelf DEF PMTKept
<1>8. PMTKept(in, 1 .. l, PCRs!Fold(in, n, z))
  BY <1>5, <1>6, <1>7, PCRs!FoldKeeps
<1>9. QED
  BY <1>3, <1>4, <1>8 DEF PMTKept

LEMMA SlotQuiet ==
  ASSUME NEW n, IsMux(n), NEW time
  PROVE  Quiet(n, Slot(n, time))
<1>1. PICK e : e = [what |-> "slot", time |-> time]
  OBVIOUS
<1>2. e.what # "unit"
  BY <1>1
<1>3. QED
  BY <1>1, <1>2, QuietWrote DEF Slot

LEMMA PassQuiet ==
  ASSUME NEW n, IsMux(n)
  PROVE  Quiet(n, Pass(n))
<1>1. PICK time : time = n.lastPCR + PCRInterval
  OBVIOUS
<1>2. time \in Int
  BY <1>1, IntervalAssumption DEF IsMux
<1>3. PICK at : at = [n EXCEPT !.lastPCR = time]
  OBVIOUS
<1>4. /\ DOMAIN at = MuxFields /\ at.pr = n.pr /\ at.queue = n.queue /\ at.seq = n.seq
      /\ at.maxDTS = n.maxDTS /\ at.wrote = n.wrote /\ at.lastPCR \in Int /\ at.origin \in Int
  BY <1>2, <1>3 DEF IsMux, MuxFields
<1>5. Quiet(n, at) /\ IsMux(at)
  BY <1>4, QuietSet DEF Quiet, IsMux
<1>6. PICK psi : psi = IF time - n.lastPSI >= PSIInterval THEN WritePSI(at, time) ELSE at
  OBVIOUS
<1>7. psi = WritePSI(at, time) \/ psi = at
  BY <1>6
<1>8. Quiet(n, psi) /\ IsMux(psi)
  <2>1. Quiet(at, WritePSI(at, time))
    BY <1>5, PSIQuiet
  <2>2. Quiet(n, WritePSI(at, time))
    BY <1>5, <2>1, QuietMore
  <2>3. Quiet(n, psi)
    BY <1>5, <1>7, <2>2
  <2>4. QED
    BY <2>3 DEF Quiet
<1>9. PICK s : s = Slot(psi, time)
  OBVIOUS
<1>10. Quiet(psi, s) /\ IsMux(s)
  BY <1>8, <1>9, SlotQuiet DEF Quiet
<1>11. Quiet(s, WritePCRs(s, time))
  BY <1>10, PCRsQuiet
<1>12. Pass(n) = WritePCRs(s, time)
  BY <1>1, <1>3, <1>6, <1>9, <1>4 DEF Pass
<1>13. Quiet(n, s)
  BY <1>8, <1>10, QuietMore
<1>14. QED
  BY <1>11, <1>12, <1>13, QuietMore

LEMMA SettleQuiet ==
  ASSUME NEW n, IsMux(n), NEW time
  PROVE  Quiet(n, Settle(n, time))
<1>1. PICK psi : psi = WritePSI(n, time)
  OBVIOUS
<1>2. Quiet(n, psi) /\ IsMux(psi)
  BY <1>1, PSIQuiet DEF Quiet
<1>3. PICK q : q = [psi EXCEPT !.started = TRUE]
  OBVIOUS
<1>4. /\ DOMAIN q = MuxFields /\ q.pr = psi.pr /\ q.queue = psi.queue /\ q.seq = psi.seq
      /\ q.maxDTS = psi.maxDTS /\ q.wrote = psi.wrote /\ q.lastPCR \in Int /\ q.origin \in Int
  BY <1>2, <1>3 DEF IsMux, MuxFields
<1>5. Quiet(psi, q)
  BY <1>2, <1>4, QuietSet DEF IsMux
<1>6. Quiet(n, q) /\ IsMux(q)
  BY <1>2, <1>5, QuietMore DEF Quiet
<1>7. Quiet(q, Slot(q, time)) /\ Quiet(n, Slot(n, time))
  BY <1>6, SlotQuiet
<1>8. Quiet(n, Slot(q, time))
  BY <1>6, <1>7, QuietMore
<1>9. Settle(n, time) = Slot(q, time) \/ Settle(n, time) = Slot(n, time)
  BY <1>1, <1>3 DEF Settle
<1>10. QED
  BY <1>7, <1>8, <1>9

AdvanceStep(in, n, k) == Pass(n)
Passes == INSTANCE FoldFacts WITH Step <- AdvanceStep, Keeps <- PMTKept

LEMMA AdvanceQuiet ==
  ASSUME NEW n, IsMux(n), NEW time \in Int
  PROVE  Quiet(n, Advance(n, time))
<1>1. PICK l : l = IF time - n.lastPCR >= PCRInterval THEN (time - n.lastPCR) \div PCRInterval ELSE 0
  OBVIOUS
<1>2. l \in Nat
  <2>1. PICK d \in Int : d = time - n.lastPCR
    BY DEF IsMux
  <2>2. l = IF d >= PCRInterval THEN d \div PCRInterval ELSE 0
    BY <1>1, <2>1
  <2>3. QED
    BY <2>2, IntervalAssumption
<1>3. PICK z : z = [k \in 1 .. l |-> k]
  OBVIOUS
<1>4. PICK in : in = [m |-> n]
  OBVIOUS
<1>5. in.m = n /\ DOMAIN z = 1 .. l
  BY <1>3, <1>4
<1>6. PICK f : f = Passes!Fold(in, n, z)
  OBVIOUS
<1>7. FoldLeft(LAMBDA q, k : Pass(q), n, z) = f
  BY <1>6 DEF Passes!Fold, Passes!FoldLeft, FoldLeft, MapThenFoldSet,
         Passes!MapThenFoldSet, Passes!Max, Max, AdvanceStep
<1>8. \A i \in 1 .. l : \A acc :
        PMTKept(in, 1 .. (i - 1), acc) => PMTKept(in, 1 .. i, AdvanceStep(in, acc, z[i]))
  <2>1. SUFFICES ASSUME NEW i \in 1 .. l, NEW acc, Quiet(n, acc)
                 PROVE  Quiet(n, Pass(acc))
    BY <1>5 DEF PMTKept, AdvanceStep
  <2>2. Quiet(acc, Pass(acc))
    BY <2>1, PassQuiet DEF Quiet
  <2>3. QED
    BY <2>1, <2>2, QuietMore
<1>9. PMTKept(in, 1 .. 0, n)
  BY <1>5, QuietSelf DEF PMTKept
<1>10. PMTKept(in, 1 .. l, f)
  BY <1>2, <1>5, <1>6, <1>8, <1>9, Passes!FoldKeeps
<1>11. Quiet(n, f) /\ IsMux(f)
  BY <1>5, <1>10 DEF PMTKept, Quiet
<1>12. Quiet(f, Settle(f, time))
  BY <1>11, SettleQuiet
<1>13. Advance(n, time) = Settle(f, time)
  BY <1>1, <1>3, <1>7 DEF Advance
<1>14. QED
  BY <1>11, <1>12, <1>13, QuietMore

LEMMA IdleQuiet ==
  ASSUME NEW n, IsMux(n), NEW time
  PROVE  Quiet(n, Idle(n, time))
BY SettleQuiet, QuietSelf DEF Idle

LEMMA IdleAgainQuiet ==
  ASSUME NEW n, IsMux(n)
  PROVE  Quiet(n, IdleAgain(n))
BY IdleQuiet, QuietSelf DEF IdleAgain
-----------------------------------------------------------------------------
(* Units, in their turn.                                                   *)
Carries(e, u) == e.what = "unit" /\ e.dts = u.dts /\ e.seq = u.seq

\* from n to q the unit u is written, last, unless it is bad
Emits(n, q, u) ==
  /\ IsMux(q) /\ q.queue = n.queue /\ q.seq = n.seq /\ q.maxDTS = n.maxDTS
  /\ Len(n.wrote) \in Nat /\ Len(q.wrote) \in Nat /\ Len(n.wrote) <= Len(q.wrote)
  /\ \A i \in 1 .. Len(n.wrote) : q.wrote[i] = n.wrote[i]
  /\ \A i \in 1 .. Len(q.wrote) :
       i > Len(n.wrote) /\ q.wrote[i].what = "unit" =>
         ~ u.bad /\ i = Len(q.wrote) /\ Carries(q.wrote[i], u)
  /\ ~ u.bad => Len(q.wrote) > Len(n.wrote) /\ Carries(q.wrote[Len(q.wrote)], u)

LEMMA EmitsMore ==
  ASSUME NEW n, NEW p, NEW q, NEW u, Quiet(n, p), Emits(p, q, u)
  PROVE  Emits(n, q, u)
<1>1. PICK a, b, c : a = n.wrote /\ b = p.wrote /\ c = q.wrote
  OBVIOUS
<1>2. PICK k \in Nat, l \in Nat, r \in Nat : k = Len(a) /\ l = Len(b) /\ r = Len(c) /\ k <= l /\ l <= r
  BY <1>1 DEF Quiet, Extends, Emits
<1>3. \A i \in 1 .. k : i \in 1 .. l /\ b[i] = a[i]
  BY <1>1, <1>2 DEF Quiet, Extends
<1>4. \A i \in 1 .. l : c[i] = b[i] /\ (i > k => b[i].what # "unit")
  BY <1>1, <1>2 DEF Quiet, Extends, Emits
<1>5. \A i \in 1 .. k : c[i] = a[i]
  BY <1>3, <1>4
<1>6. ASSUME NEW i \in 1 .. r, i > k, c[i].what = "unit"
      PROVE  ~ u.bad /\ i = r /\ Carries(c[i], u)
  <2>1. ~ (i \in 1 .. l)
    BY <1>4, <1>6
  <2>2. i > l
    BY <1>2, <2>1
  <2>3. QED
    BY <1>1, <1>2, <1>6, <2>2 DEF Emits
<1>7. ~ u.bad => r > l /\ Carries(c[r], u)
  BY <1>1, <1>2 DEF Emits
<1>8. r > l => r > k
  BY <1>2
<1>9. IsMux(q) /\ q.queue = n.queue /\ q.seq = n.seq /\ q.maxDTS = n.maxDTS
  BY DEF Emits, Quiet
<1>10. QED
  BY <1>1, <1>2, <1>5, <1>6, <1>7, <1>8, <1>9 DEF Emits

LEMMA Joined ==
  ASSUME NEW y, IsSeq(y), NEW s, IsSeq(s)
  PROVE  IsJoined(y, s, y \o s)
<1>0. PICK z : z = y \o s
  OBVIOUS
<1>1. PICK S : y \in Seq(S)
  BY DEF IsSeq
<1>2. PICK T : s \in Seq(T)
  BY DEF IsSeq
<1>3. PICK R : R = S \cup T
  OBVIOUS
<1>4. y \in Seq(R) /\ s \in Seq(R)
  BY <1>1, <1>2, <1>3
<1>5. z \in Seq(R) /\ Len(y) \in Nat /\ Len(s) \in Nat /\ Len(z) = Len(y) + Len(s)
  BY <1>0, <1>4
<1>6. \A j \in 1 .. Len(y) : z[j] = y[j]
  BY <1>0, <1>4
<1>7. \A j \in 1 .. Len(s) : z[Len(y) + j] = s[j]
  BY <1>0, <1>4
<1>8. QED
  BY <1>0, <1>5, <1>6, <1>7 DEF IsSeq, IsJoined

LEMMA SingleIs ==
  ASSUME NEW e
  PROVE  IsSeq(<<e>>) /\ Len(<<e>>) = 1 /\ <<e>>[1] = e
<1>1. <<e>> \in Seq({e}) /\ Len(<<e>>) = 1 /\ <<e>>[1] = e
  OBVIOUS
<1>2. QED
  BY <1>1 DEF IsSeq

LEMMA WriteEmits ==
  ASSUME NEW n, IsMux(n), NEW u, u.bad \in BOOLEAN, NEW time \in Int
  PROVE  Emits(n, WriteUnit(n, u, time), u)
<1>1. PICK s : s = n.pr.streams[u.key]
  OBVIOUS
<1>2. PICK c : c = (s.pid = n.pr.pkgs[s.package].pcrPID)
  OBVIOUS
<1>3. PICK set : set = IF c THEN [n EXCEPT !.lastPCR = time, !.pcrAt = Put(@, s.package, time)] ELSE n
  OBVIOUS
<1>4. PICK e : e = [what |-> "pcr", package |-> s.package, pid |-> s.pid, time |-> time]
  OBVIOUS
<1>5. PICK x : x = [what |-> "unit", key |-> u.key, pid |-> s.pid, dts |-> u.dts, seq |-> u.seq,
                    time |-> time]
  OBVIOUS
<1>6. PICK pcr : pcr = IF c THEN <<e>> ELSE <<>>
  OBVIOUS
<1>7. /\ DOMAIN set = MuxFields /\ set.pr = n.pr /\ set.queue = n.queue /\ set.seq = n.seq
      /\ set.maxDTS = n.maxDTS /\ set.wrote = n.wrote /\ set.lastPCR \in Int /\ set.origin \in Int
  BY <1>3 DEF IsMux, MuxFields
<1>8. PICK y, v, z : y = n.wrote /\ v = y \o pcr /\ z = v \o <<x>>
  OBVIOUS
<1>9. PICK q : q = [set EXCEPT !.wrote = z]
  OBVIOUS
<1>10. WriteUnit(n, u, time) = IF u.bad THEN set ELSE q
  BY <1>1, <1>2, <1>3, <1>4, <1>5, <1>6, <1>7, <1>8, <1>9 DEF WriteUnit
<1>11. CASE u.bad
  <2>1. IsMux(set)
    BY <1>7 DEF IsMux
  <2>2. Len(n.wrote) \in Nat
    BY SeqIs DEF IsMux
  <2>3. Emits(n, set, u)
    BY <1>7, <1>11, <2>1, <2>2 DEF Emits
  <2>4. QED
    BY <1>10, <1>11, <2>3
<1>12. CASE ~ u.bad
  <2>1. IsSeq(y)
    BY <1>8 DEF IsMux
  <2>2. /\ IsSeq(pcr) /\ Len(pcr) \in Nat
        /\ \A j \in 1 .. Len(pcr) : pcr[j].what # "unit"
    <3>1. e.what # "unit"
      BY <1>4
    <3>2. CASE c
      <4>1. pcr = <<e>>
        BY <1>6, <3>2
      <4>2. IsSeq(pcr) /\ Len(pcr) = 1 /\ pcr[1] = e
        BY <4>1, SingleIs
      <4>3. QED
        BY <3>1, <4>2
    <3>3. CASE ~ c
      <4>1. pcr = <<>>
        BY <1>6, <3>3
      <4>2. QED
        BY <4>1, NothingIs
    <3>4. QED
      BY <3>2, <3>3
  <2>18. IsJoined(y, pcr, v) /\ IsSeq(<<x>>)
    BY <1>8, <2>1, <2>2, Joined, SingleIs
  <2>3. /\ IsSeq(v) /\ Len(y) \in Nat /\ Len(v) = Len(y) + Len(pcr)
        /\ \A j \in 1 .. Len(y) : v[j] = y[j]
        /\ \A j \in 1 .. Len(pcr) : v[Len(y) + j] = pcr[j]
    BY <2>18 DEF IsJoined
  <2>4. IsSeq(<<x>>) /\ Len(<<x>>) = 1 /\ <<x>>[1] = x
    BY SingleIs
  <2>19. IsJoined(v, <<x>>, z)
    BY <1>8, <2>3, <2>18, Joined
  <2>5. /\ IsSeq(z) /\ Len(v) \in Nat /\ Len(z) = Len(v) + Len(<<x>>)
        /\ \A j \in 1 .. Len(v) : z[j] = v[j]
        /\ \A j \in 1 .. Len(<<x>>) : z[Len(v) + j] = <<x>>[j]
    BY <2>19 DEF IsJoined
  <2>6. PICK a \in Nat, b \in Nat, r \in Nat : a = Len(y) /\ b = Len(v) /\ r = Len(z)
    BY <2>3, <2>5, SeqIs
  <2>7. a <= b /\ r = b + 1
    BY <2>2, <2>3, <2>4, <2>5, <2>6
  <2>8. z[r] = x /\ \A j \in 1 .. b : z[j] = v[j]
    BY <2>4, <2>5, <2>6, <2>7
  <2>9. \A j \in 1 .. b : j > a => v[j].what # "unit"
    <3>1. SUFFICES ASSUME NEW j \in 1 .. b, j > a
                   PROVE  v[j].what # "unit"
      OBVIOUS
    <3>2. PICK i \in 1 .. Len(pcr) : j = a + i
      <4>1. j - a \in 1 .. Len(pcr)
        BY <2>2, <2>3, <2>6, <3>1
      <4>2. QED
        BY <4>1
    <3>3. v[j] = pcr[i]
      BY <2>3, <2>6, <3>2
    <3>4. QED
      BY <2>2, <3>2, <3>3
  <2>10. \A j \in 1 .. a : z[j] = y[j]
    <3>1. \A j \in 1 .. a : j \in 1 .. b
      BY <2>7
    <3>2. QED
      BY <2>3, <2>6, <2>8, <3>1
  <2>11. x.what = "unit" /\ x.dts = u.dts /\ x.seq = u.seq
    BY <1>5
  <2>12. ASSUME NEW i \in 1 .. r, i > a, z[i].what = "unit"
         PROVE  i = r /\ Carries(z[i], u)
    <3>1. CASE i = r
      BY <2>8, <2>11, <3>1 DEF Carries
    <3>2. CASE i # r
      <4>1. i \in 1 .. b
        BY <2>7, <3>2
      <4>2. QED
        BY <2>8, <2>9, <2>12, <4>1
    <3>3. QED
      BY <3>1, <3>2
  <2>13. r > a /\ Carries(z[r], u)
    BY <2>7, <2>8, <2>11 DEF Carries
  <2>14. /\ DOMAIN q = MuxFields /\ q.pr = n.pr /\ q.queue = n.queue /\ q.seq = n.seq
         /\ q.maxDTS = n.maxDTS /\ q.wrote = z /\ q.lastPCR \in Int /\ q.origin \in Int
    BY <1>7, <1>9 DEF MuxFields
  <2>15. IsMux(q)
    BY <2>5, <2>14 DEF IsMux
  <2>16. Emits(n, q, u)
    BY <1>8, <1>12, <2>6, <2>7, <2>10, <2>12, <2>13, <2>14, <2>15, SMTT(30) DEF Emits
  <2>17. QED
    BY <1>10, <1>12, <2>16
<1>13. QED
  BY <1>11, <1>12

LEMMA EmitEmits ==
  ASSUME NEW n, IsMux(n), NEW u, u.bad \in BOOLEAN, u.dts \in Int
  PROVE  Emits(n, Emit(n, u), u)
<1>1. PICK start : start = Started(n, u)
  OBVIOUS
<1>2. Quiet(n, start) /\ IsMux(start)
  <2>1. CASE n.haveOrigin
    <3>1. start = n
      BY <1>1, <2>1 DEF Started
    <3>2. QED
      BY <3>1, QuietSelf
  <2>2. CASE ~ n.haveOrigin
    <3>1. start = [n EXCEPT !.origin = u.dts, !.haveOrigin = TRUE, !.lastPCR = 0,
                            !.lastPSI = 0 - PSIInterval]
      BY <1>1, <2>2 DEF Started
    <3>2. /\ DOMAIN start = MuxFields /\ start.pr = n.pr /\ start.queue = n.queue
          /\ start.seq = n.seq /\ start.maxDTS = n.maxDTS /\ start.wrote = n.wrote
          /\ start.lastPCR \in Int /\ start.origin \in Int
      BY <3>1 DEF IsMux, MuxFields
    <3>3. QED
      BY <3>2, QuietSet DEF Quiet, IsMux
  <2>3. QED
    BY <2>1, <2>2
<1>3. PICK time : time = IF u.dts < start.origin THEN start.lastPCR ELSE u.dts - start.origin
  OBVIOUS
<1>4. time \in Int
  BY <1>2, <1>3 DEF IsMux
<1>5. PICK p : p = Advance(start, time)
  OBVIOUS
<1>6. Quiet(start, p) /\ IsMux(p)
  BY <1>2, <1>4, <1>5, AdvanceQuiet DEF Quiet
<1>7. Emits(p, WriteUnit(p, u, time), u)
  BY <1>4, <1>6, WriteEmits
<1>8. Emit(n, u) = WriteUnit(p, u, time)
  BY <1>1, <1>3, <1>5 DEF Emit, EmitAt
<1>9. Quiet(n, p)
  BY <1>2, <1>6, QuietMore
<1>10. QED
  BY <1>7, <1>8, <1>9, EmitsMore
-----------------------------------------------------------------------------
(* The order of a set of units.                                            *)
AreUnits(U) ==
  /\ IsFiniteSet(U)
  /\ \A u \in U : u.dts \in Int /\ u.seq \in Nat /\ u.bad \in BOOLEAN
  /\ \A u, v \in U : u.seq = v.seq => u = v

Before(U, u) == {v \in U : Earlier(v, u)}

Rank(U, u) == Cardinality(Before(U, u))

LEMMA EarlierOrder ==
  ASSUME NEW U, AreUnits(U), NEW u \in U, NEW v \in U, NEW w \in U
  PROVE  /\ ~ Earlier(u, u)
         /\ u # v => Earlier(u, v) \/ Earlier(v, u)
         /\ Earlier(u, v) /\ Earlier(v, w) => Earlier(u, w)
<1>1. PICK a \in Int, b \in Int, c \in Int : a = u.dts /\ b = v.dts /\ c = w.dts
  BY DEF AreUnits
<1>2. PICK i \in Int, j \in Int, k \in Int : i = u.seq /\ j = v.seq /\ k = w.seq
  BY DEF AreUnits
<1>3. u # v => i # j
  BY <1>2 DEF AreUnits
<1>4. QED
  BY <1>1, <1>2, <1>3 DEF Earlier

LEMMA RankType ==
  ASSUME NEW U, AreUnits(U), NEW u \in U
  PROVE  Cardinality(U) \in Nat /\ Rank(U, u) \in 0 .. Cardinality(U) - 1
<1>1. PICK R : R = U \ {u}
  OBVIOUS
<1>2. IsFiniteSet(U) /\ Cardinality(U) \in Nat
  BY FS_CardinalityType DEF AreUnits
<1>3. IsFiniteSet(R) /\ Cardinality(R) = Cardinality(U) - 1
  BY <1>1, <1>2, FS_RemoveElement
<1>4. Before(U, u) \in SUBSET R
  BY <1>1, EarlierOrder DEF Before
<1>5. IsFiniteSet(Before(U, u)) /\ Rank(U, u) <= Cardinality(R)
  BY <1>3, <1>4, FS_Subset DEF Rank
<1>6. Rank(U, u) \in Nat
  BY <1>5, FS_CardinalityType DEF Rank
<1>7. QED
  BY <1>2, <1>3, <1>5, <1>6

LEMMA RankGrows ==
  ASSUME NEW U, AreUnits(U), NEW u \in U, NEW v \in U, Earlier(u, v)
  PROVE  Rank(U, u) < Rank(U, v)
<1>1. PICK B : B = Before(U, v)
  OBVIOUS
<1>2. B \in SUBSET U /\ u \in B
  BY <1>1 DEF Before
<1>3. IsFiniteSet(B)
  BY <1>2, FS_Subset DEF AreUnits
<1>4. PICK R : R = B \ {u}
  OBVIOUS
<1>5. IsFiniteSet(R) /\ Cardinality(R) = Cardinality(B) - 1
  BY <1>2, <1>3, <1>4, FS_RemoveElement
<1>6. Before(U, u) \in SUBSET R
  BY <1>1, <1>4, EarlierOrder DEF Before
<1>7. Rank(U, u) <= Cardinality(R)
  BY <1>5, <1>6, FS_Subset DEF Rank
<1>8. Cardinality(R) \in Nat /\ Cardinality(B) \in Nat
  BY <1>3, <1>5, FS_CardinalityType
<1>9. Rank(U, v) = Cardinality(B) /\ Rank(U, u) \in Int
  BY <1>1, RankType DEF Rank
<1>10. QED
  BY <1>5, <1>7, <1>8, <1>9

LEMMA RankTaken ==
  ASSUME NEW U, AreUnits(U), NEW n \in 1 .. Cardinality(U)
  PROVE  \E u \in U : Rank(U, u) = n - 1
<1>1. PICK k : k = Cardinality(U)
  OBVIOUS
<1>2. IsFiniteSet(U) /\ k \in Nat
  BY <1>1, FS_CardinalityType DEF AreUnits
<1>3. PICK T : T = 0 .. k - 1
  OBVIOUS
<1>4. PICK f : f = [u \in U |-> Rank(U, u)]
  OBVIOUS
<1>5. \A u \in U : f[u] = Rank(U, u) /\ f[u] \in T
  BY <1>1, <1>3, <1>4, RankType
<1>6. f \in [U -> T]
  BY <1>4, <1>5
<1>7. \A u, v \in U : f[u] = f[v] => u = v
  <2>1. SUFFICES ASSUME NEW u \in U, NEW v \in U, f[u] = f[v], u # v
                 PROVE  FALSE
    OBVIOUS
  <2>2. Rank(U, u) = Rank(U, v) /\ Rank(U, u) \in Int
    BY <1>5, <2>1, RankType
  <2>3. Earlier(u, v) \/ Earlier(v, u)
    BY <2>1, EarlierOrder
  <2>4. Rank(U, u) < Rank(U, v) \/ Rank(U, v) < Rank(U, u)
    BY <2>3, RankGrows
  <2>5. QED
    BY <2>2, <2>4
<1>8. f \in Injection(U, T)
  BY <1>6, <1>7 DEF Injection, IsInjective
<1>9. IsFiniteSet(T) /\ Cardinality(T) = k
  <2>1. IsFiniteSet(0 .. k - 1) /\ Cardinality(0 .. k - 1) = IF 0 > k - 1 THEN 0 ELSE (k - 1) - 0 + 1
    BY <1>2, FS_Interval
  <2>2. QED
    BY <1>2, <1>3, <2>1
<1>10. f \in Surjection(U, T)
  BY <1>1, <1>8, <1>9, FS_Injection
<1>11. n - 1 \in T
  BY <1>1, <1>2, <1>3
<1>12. \E u \in U : f[u] = n - 1
  BY <1>10, <1>11 DEF Surjection
<1>13. QED
  BY <1>5, <1>12

\* the units of U are z, one after another
Turns(U, z, k) ==
  /\ k \in Nat /\ DOMAIN z = 1 .. k
  /\ \A i \in 1 .. k : z[i] \in U
  /\ \A i, j \in 1 .. k : i < j => Earlier(z[i], z[j])
  /\ \A u \in U : \E i \in 1 .. k : z[i] = u

LEMMA InTurnTurns ==
  ASSUME NEW U, AreUnits(U)
  PROVE  Turns(U, InTurn(U), Cardinality(U))
<1>1. PICK k \in Nat : k = Cardinality(U)
  BY FS_CardinalityType DEF AreUnits
<1>2. PICK z : z = InTurn(U)
  OBVIOUS
<1>3. z = [n \in 1 .. k |-> CHOOSE u \in U : Rank(U, u) = n - 1]
  BY <1>1, <1>2 DEF InTurn, Rank, Before
<1>4. DOMAIN z = 1 .. k
  BY <1>3
<1>5. ASSUME NEW n \in 1 .. k
      PROVE  z[n] \in U /\ Rank(U, z[n]) = n - 1
  <2>1. \E u \in U : Rank(U, u) = n - 1
    BY <1>1, RankTaken
  <2>2. z[n] = CHOOSE u \in U : Rank(U, u) = n - 1
    BY <1>3
  <2>3. QED
    BY <2>1, <2>2
<1>6. ASSUME NEW i \in 1 .. k, NEW j \in 1 .. k, i < j
      PROVE  Earlier(z[i], z[j])
  <2>1. PICK u \in U, v \in U : u = z[i] /\ v = z[j] /\ Rank(U, u) = i - 1 /\ Rank(U, v) = j - 1
    BY <1>5
  <2>2. u # v
    BY <1>6, <2>1
  <2>3. CASE Earlier(v, u)
    <3>1. Rank(U, v) < Rank(U, u)
      BY <2>3, RankGrows
    <3>2. QED
      BY <1>6, <2>1, <3>1
  <2>4. CASE ~ Earlier(v, u)
    BY <2>1, <2>2, <2>4, EarlierOrder
  <2>5. QED
    BY <2>3, <2>4
<1>7. ASSUME NEW u \in U
      PROVE  \E i \in 1 .. k : z[i] = u
  <2>1. PICK r \in 0 .. k - 1 : r = Rank(U, u)
    BY <1>1, RankType
  <2>2. PICK i \in 1 .. k : i = r + 1
    BY <2>1
  <2>3. PICK v \in U : v = z[i] /\ Rank(U, v) = r
    BY <1>5, <2>2
  <2>4. CASE u # v
    <3>1. Rank(U, u) < Rank(U, v) \/ Rank(U, v) < Rank(U, u)
      BY <2>4, EarlierOrder, RankGrows
    <3>2. QED
      BY <2>1, <2>3, <3>1
  <2>5. QED
    BY <2>3, <2>4
<1>8. QED
  BY <1>1, <1>2, <1>4, <1>5, <1>6, <1>7 DEF Turns
-----------------------------------------------------------------------------
(* Drain.                                                                  *)
Emptied(n, q, z, done) ==
  /\ IsMux(q) /\ q.queue = n.queue /\ q.seq = n.seq /\ q.maxDTS = n.maxDTS
  /\ \A i \in 1 .. Len(q.wrote) :
       q.wrote[i].what = "unit" => \E j \in done : ~ z[j].bad /\ Carries(q.wrote[i], z[j])
  /\ \A j \in done : ~ z[j].bad => \E i \in 1 .. Len(q.wrote) : Carries(q.wrote[i], z[j])
  /\ \A i, l \in 1 .. Len(q.wrote) :
       i < l /\ q.wrote[i].what = "unit" /\ q.wrote[l].what = "unit" =>
         Earlier(q.wrote[i], q.wrote[l])

LEMMA EmptiedMore ==
  ASSUME NEW U, NEW z, NEW k, Turns(U, z, k), NEW h \in 1 .. k,
         NEW n, NEW q, NEW r, Emptied(n, q, z, 1 .. (h - 1)), Emits(q, r, z[h])
  PROVE  Emptied(n, r, z, 1 .. h)
<1>1. PICK y, w : y = q.wrote /\ w = r.wrote
  OBVIOUS
<1>2. PICK a \in Nat, b \in Nat : a = Len(y) /\ b = Len(w) /\ a <= b
  BY <1>1 DEF Emits
<1>3. h \in Nat /\ \A j \in 1 .. h : j \in 1 .. (h - 1) \/ j = h
  BY DEF Turns
<1>4. \A i \in 1 .. a : i \in 1 .. b /\ w[i] = y[i]
  BY <1>1, <1>2 DEF Emits
<1>5. PICK u : u = z[h]
  OBVIOUS
<1>6. \A i \in 1 .. b : i > a /\ w[i].what = "unit" => ~ u.bad /\ i = b /\ Carries(w[i], u)
  BY <1>1, <1>2, <1>5 DEF Emits
<1>7. ~ u.bad => b > a /\ Carries(w[b], u)
  BY <1>1, <1>2, <1>5 DEF Emits
<1>8. \A i \in 1 .. a :
        w[i].what = "unit" => \E j \in 1 .. (h - 1) : ~ z[j].bad /\ Carries(w[i], z[j])
  BY <1>1, <1>2, <1>4 DEF Emptied
<1>9. ASSUME NEW i \in 1 .. b, w[i].what = "unit"
      PROVE  \E j \in 1 .. h : ~ z[j].bad /\ Carries(w[i], z[j])
  <2>1. CASE i > a
    BY <1>3, <1>5, <1>6, <1>9, <2>1
  <2>2. CASE ~ (i > a)
    <3>1. i \in 1 .. a
      BY <1>2, <2>2
    <3>2. PICK j \in 1 .. (h - 1) : ~ z[j].bad /\ Carries(w[i], z[j])
      BY <1>8, <1>9, <3>1
    <3>3. j \in 1 .. h
      BY <1>3
    <3>4. QED
      BY <3>2, <3>3
  <2>3. QED
    BY <2>1, <2>2
<1>10. ASSUME NEW j \in 1 .. h, ~ z[j].bad
       PROVE  \E i \in 1 .. b : Carries(w[i], z[j])
  <2>1. CASE j = h
    <3>1. b \in 1 .. b
      BY <1>2, <1>5, <1>7, <1>10, <2>1
    <3>2. QED
      BY <1>5, <1>7, <1>10, <2>1, <3>1
  <2>2. CASE j \in 1 .. (h - 1)
    <3>1. PICK i \in 1 .. a : Carries(y[i], z[j])
      BY <1>1, <1>2, <1>10, <2>2 DEF Emptied
    <3>2. QED
      BY <1>4, <3>1
  <2>3. QED
    BY <1>3, <2>1, <2>2
<1>11. ASSUME NEW i \in 1 .. b, NEW l \in 1 .. b, i < l, w[i].what = "unit", w[l].what = "unit"
       PROVE  Earlier(w[i], w[l])
  <2>1. CASE l > a
    <3>1. l = b /\ Carries(w[l], u)
      BY <1>6, <1>11, <2>1
    <3>2. ~ (i > a)
      BY <1>6, <1>11, <3>1
    <3>3. i \in 1 .. a
      BY <1>2, <3>2
    <3>4. PICK j \in 1 .. (h - 1) : Carries(w[i], z[j])
      BY <1>8, <1>11, <3>3
    <3>5. j \in 1 .. k /\ j < h
      BY <1>3 DEF Turns
    <3>6. Earlier(z[j], u)
      BY <1>5, <3>5 DEF Turns
    <3>7. QED
      BY <3>1, <3>4, <3>6 DEF Carries, Earlier
  <2>2. CASE ~ (l > a)
    <3>1. i \in 1 .. a /\ l \in 1 .. a
      BY <1>2, <1>11, <2>2
    <3>2. Earlier(y[i], y[l])
      BY <1>1, <1>2, <1>4, <1>11, <3>1 DEF Emptied
    <3>3. QED
      BY <1>4, <3>1, <3>2
  <2>3. QED
    BY <2>1, <2>2
<1>12. IsMux(r) /\ r.queue = n.queue /\ r.seq = n.seq /\ r.maxDTS = n.maxDTS
  BY DEF Emits, Emptied
<1>13. QED
  BY <1>1, <1>2, <1>9, <1>10, <1>11, <1>12 DEF Emptied

EmitStep(in, n, u) == Emit(n, u)
EmitKept(in, done, q) == Emptied(in.n, q, in.z, done)
Emitted == INSTANCE FoldFacts WITH Step <- EmitStep, Keeps <- EmitKept

\* the events w bring the units of R, in their order
Brings(w, R) ==
  /\ \A i \in 1 .. Len(w) : w[i].what = "unit" => \E u \in R : ~ u.bad /\ Carries(w[i], u)
  /\ \A u \in R : ~ u.bad => \E i \in 1 .. Len(w) : Carries(w[i], u)
  /\ \A i, l \in 1 .. Len(w) :
       i < l /\ w[i].what = "unit" /\ w[l].what = "unit" => Earlier(w[i], w[l])

LEMMA EmitsAll ==
  ASSUME NEW U, AreUnits(U), NEW n, IsMux(n), n.wrote = <<>>,
         NEW q, q = FoldLeft(Emit, n, InTurn(U))
  PROVE  /\ IsMux(q) /\ q.queue = n.queue /\ q.seq = n.seq /\ q.maxDTS = n.maxDTS
         /\ Brings(q.wrote, U)
<1>1. PICK z, k : z = InTurn(U) /\ k = Cardinality(U)
  OBVIOUS
<1>2. Turns(U, z, k)
  BY <1>1, InTurnTurns
<1>3. PICK in : in = [n |-> n, z |-> z]
  OBVIOUS
<1>4. in.n = n /\ in.z = z
  BY <1>3
<1>5. q = Emitted!Fold(in, n, z)
  BY <1>1 DEF Emitted!Fold, Emitted!FoldLeft, FoldLeft, MapThenFoldSet,
         Emitted!MapThenFoldSet, Emitted!Max, Max, EmitStep
<1>6. k \in Nat /\ DOMAIN z = 1 .. k
  BY <1>2 DEF Turns
<1>7. ASSUME NEW i \in 1 .. k, NEW acc, EmitKept(in, 1 .. (i - 1), acc)
      PROVE  EmitKept(in, 1 .. i, EmitStep(in, acc, z[i]))
  <2>1. Emptied(n, acc, z, 1 .. (i - 1)) /\ IsMux(acc)
    BY <1>4, <1>7 DEF EmitKept, Emptied
  <2>2. PICK u \in U : u = z[i]
    BY <1>2 DEF Turns
  <2>3. u.bad \in BOOLEAN /\ u.dts \in Int
    BY DEF AreUnits
  <2>4. Emits(acc, Emit(acc, u), u)
    BY <2>1, <2>3, EmitEmits
  <2>5. Emptied(n, Emit(acc, u), z, 1 .. i)
    BY <1>2, <2>1, <2>2, <2>4, EmptiedMore
  <2>6. QED
    BY <1>4, <2>2, <2>5 DEF EmitKept, EmitStep
<1>8. EmitKept(in, 1 .. 0, n)
  <2>1. Len(n.wrote) = 0
    BY NothingIs
  <2>2. Emptied(n, n, z, 1 .. 0)
    BY <2>1 DEF Emptied
  <2>3. QED
    BY <1>4, <2>2 DEF EmitKept
<1>9. EmitKept(in, 1 .. k, q)
  BY <1>5, <1>6, <1>7, <1>8, Emitted!FoldKeeps
<1>10. Emptied(n, q, z, 1 .. k)
  BY <1>4, <1>9 DEF EmitKept
<1>11. PICK w : w = q.wrote
  OBVIOUS
<1>12. ASSUME NEW i \in 1 .. Len(w), w[i].what = "unit"
       PROVE  \E u \in U : ~ u.bad /\ Carries(w[i], u)
  <2>1. PICK j \in 1 .. k : ~ z[j].bad /\ Carries(w[i], z[j])
    BY <1>10, <1>11, <1>12 DEF Emptied
  <2>2. z[j] \in U
    BY <1>2 DEF Turns
  <2>3. QED
    BY <2>1, <2>2
<1>13. ASSUME NEW u \in U, ~ u.bad
       PROVE  \E i \in 1 .. Len(w) : Carries(w[i], u)
  <2>1. PICK j \in 1 .. k : z[j] = u
    BY <1>2 DEF Turns
  <2>2. QED
    BY <1>10, <1>11, <1>13, <2>1 DEF Emptied
<1>14. Brings(w, U)
  BY <1>10, <1>11, <1>12, <1>13 DEF Brings, Emptied
<1>15. QED
  BY <1>10, <1>11, <1>14 DEF Emptied

LEMMA PartUnits ==
  ASSUME NEW U, AreUnits(U), NEW R, R \subseteq U
  PROVE  AreUnits(R)
<1>1. IsFiniteSet(R)
  BY FS_Subset DEF AreUnits
<1>2. QED
  BY <1>1 DEF AreUnits

LEMMA RipePart ==
  ASSUME NEW n, NEW final
  PROVE  Ripe(n, final) \subseteq n.queue
BY DEF Ripe

LEMMA DrainBrings ==
  ASSUME NEW n, IsMux(n), n.wrote = <<>>, AreUnits(n.queue), NEW final,
         NEW q, q = Drain(n, final)
  PROVE  /\ IsMux(q) /\ q.queue = n.queue \ Ripe(n, final) /\ q.seq = n.seq /\ q.maxDTS = n.maxDTS
         /\ Brings(q.wrote, Ripe(n, final))
<1>1. PICK R : R = Ripe(n, final)
  OBVIOUS
<1>2. AreUnits(R)
  BY <1>1, RipePart, PartUnits
<1>3. PICK p : p = [n EXCEPT !.queue = @ \ R]
  OBVIOUS
<1>4. /\ DOMAIN p = MuxFields /\ p.pr = n.pr /\ p.queue = n.queue \ R /\ p.seq = n.seq
      /\ p.maxDTS = n.maxDTS /\ p.wrote = <<>> /\ p.lastPCR \in Int /\ p.origin \in Int
  BY <1>3 DEF IsMux, MuxFields
<1>5. IsMux(p)
  BY <1>4, NothingIs DEF IsMux
<1>6. q = FoldLeft(Emit, p, InTurn(R))
  BY <1>1, <1>3 DEF Drain
<1>7. /\ IsMux(q) /\ q.queue = p.queue /\ q.seq = p.seq /\ q.maxDTS = p.maxDTS
      /\ Brings(q.wrote, R)
  BY <1>2, <1>4, <1>5, <1>6, EmitsAll
<1>8. QED
  BY <1>1, <1>4, <1>7

\* what is written behind them is no unit
LEMMA BringsMore ==
  ASSUME NEW a, NEW b, NEW R, Brings(a, R), Extends(a, b)
  PROVE  Brings(b, R)
<1>1. PICK k \in Nat, l \in Nat : k = Len(a) /\ l = Len(b) /\ k <= l
  BY DEF Extends
<1>2. \A i \in 1 .. k : i \in 1 .. l /\ b[i] = a[i]
  BY <1>1 DEF Extends
<1>3. \A i \in 1 .. l : b[i].what = "unit" => i \in 1 .. k
  BY <1>1 DEF Extends
<1>4. \A i \in 1 .. l : b[i].what = "unit" => \E u \in R : ~ u.bad /\ Carries(b[i], u)
  BY <1>1, <1>2, <1>3 DEF Brings
<1>5. \A u \in R : ~ u.bad => \E i \in 1 .. l : Carries(b[i], u)
  BY <1>1, <1>2 DEF Brings
<1>6. \A i, j \in 1 .. l :
        i < j /\ b[i].what = "unit" /\ b[j].what = "unit" => Earlier(b[i], b[j])
  BY <1>1, <1>2, <1>3 DEF Brings
<1>7. QED
  BY <1>1, <1>4, <1>5, <1>6 DEF Brings

LEMMA QuietBrings ==
  ASSUME NEW n, NEW q, Quiet(n, q), n.wrote = <<>>
  PROVE  Brings(q.wrote, {})
<1>1. Brings(n.wrote, {})
  BY NothingIs DEF Brings
<1>2. QED
  BY <1>1, BringsMore DEF Quiet
-----------------------------------------------------------------------------
(* The receiver.                                                           *)
AirFields == {"pmt", "clock", "out", "psi"}

IsAir(a) == DOMAIN a = AirFields /\ IsSeq(a.out)

Same(o, e) == o.dts = e.dts /\ o.seq = e.seq

LEMMA HearsOne ==
  ASSUME NEW a, IsAir(a), NEW e, NEW streams, NEW b, b = HearEvent(a, e, streams)
  PROVE  /\ DOMAIN b = AirFields
         /\ e.what # "unit" => b.out = a.out
         /\ e.what = "unit" => \E o : Same(o, e) /\ b.out = Append(a.out, o)
<1>1. CASE e.what = "pmt"
  <2>1. b = HearPMT(a, e)
    BY <1>1 DEF HearEvent
  <2>2. DOMAIN b = AirFields /\ b.out = a.out
    BY <2>1 DEF HearPMT, IsAir, AirFields
  <2>3. QED
    BY <1>1, <2>2
<1>2. CASE e.what = "pcr"
  <2>1. b = HearPCR(a, e)
    BY <1>2 DEF HearEvent
  <2>2. DOMAIN b = AirFields /\ b.out = a.out
    BY <2>1 DEF HearPCR, IsAir, AirFields
  <2>3. QED
    BY <1>2, <2>2
<1>3. CASE e.what = "unit"
  <2>1. PICK package : package = streams[e.key].package
    OBVIOUS
  <2>2. b = HearUnit(a, e, package)
    BY <1>3, <2>1 DEF HearEvent
  <2>3. PICK o : o = [key |-> e.key, dts |-> e.dts, seq |-> e.seq, time |-> e.time,
                      listed |-> package \in DOMAIN a.pmt /\ e.pid \in PIDsOf(a.pmt[package].held)]
    OBVIOUS
  <2>4. b = [a EXCEPT !.out = Append(@, o)]
    BY <2>2, <2>3 DEF HearUnit
  <2>5. DOMAIN b = AirFields /\ b.out = Append(a.out, o)
    BY <2>4 DEF IsAir, AirFields
  <2>6. Same(o, e)
    BY <2>3 DEF Same
  <2>7. QED
    BY <1>3, <2>5, <2>6
<1>4. CASE e.what \notin {"pmt", "pcr", "unit"}
  <2>1. b = a
    BY <1>4 DEF HearEvent
  <2>2. QED
    BY <1>4, <2>1 DEF IsAir
<1>5. QED
  BY <1>1, <1>2, <1>3, <1>4

\* behind the output of old, a has the units among the events done of w
Heard(old, a, w, done) ==
  /\ IsAir(a) /\ Len(old.out) \in Nat /\ Len(old.out) <= Len(a.out)
  /\ \A x \in 1 .. Len(old.out) : a.out[x] = old.out[x]
  /\ \A x \in 1 .. Len(a.out) :
       x > Len(old.out) => \E i \in done : w[i].what = "unit" /\ Same(a.out[x], w[i])
  /\ \A i \in done : w[i].what = "unit" =>
       \E x \in 1 .. Len(a.out) : x > Len(old.out) /\ Same(a.out[x], w[i])
  /\ \A x, y \in 1 .. Len(a.out) : Len(old.out) < x /\ x < y =>
       \E i, j \in done : /\ i < j /\ w[i].what = "unit" /\ w[j].what = "unit"
                          /\ Same(a.out[x], w[i]) /\ Same(a.out[y], w[j])

LEMMA HeardMore ==
  ASSUME NEW w, NEW n \in Nat, NEW h \in 1 .. n, NEW old, NEW a, Heard(old, a, w, 1 .. (h - 1)),
         NEW streams
  PROVE  Heard(old, HearEvent(a, w[h], streams), w, 1 .. h)
<1>1. PICK b, e : b = HearEvent(a, w[h], streams) /\ e = w[h]
  OBVIOUS
<1>2. IsAir(a)
  BY DEF Heard
<1>3. /\ DOMAIN b = AirFields
      /\ e.what # "unit" => b.out = a.out
      /\ e.what = "unit" => \E o : Same(o, e) /\ b.out = Append(a.out, o)
  BY <1>1, <1>2, HearsOne
<1>4. PICK s, y, z : s = old.out /\ y = a.out /\ z = b.out
  OBVIOUS
<1>5. PICK l \in Nat, k \in Nat : l = Len(s) /\ k = Len(y) /\ l <= k
  BY <1>4, SeqIs DEF Heard, IsAir
<1>6. \A i \in 1 .. h : i \in 1 .. (h - 1) \/ i = h
  OBVIOUS
<1>7. \A i \in 1 .. (h - 1) : i \in 1 .. h /\ i < h
  OBVIOUS
<1>8. /\ \A x \in 1 .. l : y[x] = s[x]
      /\ \A x \in 1 .. k :
           x > l => \E i \in 1 .. (h - 1) : w[i].what = "unit" /\ Same(y[x], w[i])
      /\ \A i \in 1 .. (h - 1) : w[i].what = "unit" =>
           \E x \in 1 .. k : x > l /\ Same(y[x], w[i])
      /\ \A x, x2 \in 1 .. k : l < x /\ x < x2 =>
           \E i, j \in 1 .. (h - 1) : /\ i < j /\ w[i].what = "unit" /\ w[j].what = "unit"
                                      /\ Same(y[x], w[i]) /\ Same(y[x2], w[j])
  BY <1>4, <1>5 DEF Heard
<1>9. CASE e.what # "unit"
  <2>1. z = y /\ IsAir(b)
    BY <1>2, <1>3, <1>4, <1>9 DEF IsAir
  <2>2. \A x \in 1 .. k :
          x > l => \E i \in 1 .. h : w[i].what = "unit" /\ Same(y[x], w[i])
    BY <1>7, <1>8
  <2>3. \A i \in 1 .. h : w[i].what = "unit" => \E x \in 1 .. k : x > l /\ Same(y[x], w[i])
    BY <1>1, <1>6, <1>8, <1>9
  <2>4. \A x, x2 \in 1 .. k : l < x /\ x < x2 =>
          \E i, j \in 1 .. h : /\ i < j /\ w[i].what = "unit" /\ w[j].what = "unit"
                               /\ Same(y[x], w[i]) /\ Same(y[x2], w[j])
    <3>1. SUFFICES ASSUME NEW x \in 1 .. k, NEW x2 \in 1 .. k, l < x, x < x2
                   PROVE  \E i, j \in 1 .. h :
                            /\ i < j /\ w[i].what = "unit" /\ w[j].what = "unit"
                            /\ Same(y[x], w[i]) /\ Same(y[x2], w[j])
      OBVIOUS
    <3>2. PICK i \in 1 .. (h - 1), j \in 1 .. (h - 1) :
                 /\ i < j /\ w[i].what = "unit" /\ w[j].what = "unit"
                 /\ Same(y[x], w[i]) /\ Same(y[x2], w[j])
      BY <1>8, <3>1
    <3>3. QED
      BY <1>7, <3>2
  <2>5. Heard(old, b, w, 1 .. h)
    BY <1>4, <1>5, <1>8, <2>1, <2>2, <2>3, <2>4 DEF Heard
  <2>6. QED
    BY <1>1, <2>5
<1>10. CASE e.what = "unit"
  <2>1. PICK o : Same(o, e) /\ z = Append(y, o)
    BY <1>3, <1>4, <1>10
  <2>2. IsSeq(y)
    BY <1>2, <1>4 DEF IsAir
  <2>3. /\ IsSeq(z) /\ Len(z) = Len(y) + 1 /\ z[Len(y) + 1] = o
        /\ \A j \in 1 .. Len(y) : z[j] = y[j]
    BY <2>1, <2>2, Appended DEF IsWith
  <2>4. PICK r \in Nat : r = k + 1
    OBVIOUS
  <2>5. Len(z) = r /\ z[r] = o /\ \A j \in 1 .. k : z[j] = y[j]
    BY <1>5, <2>3, <2>4
  <2>6. IsAir(b)
    BY <1>3, <1>4, <2>3 DEF IsAir
  <2>7. h \in 1 .. h /\ Same(z[r], w[h]) /\ w[h].what = "unit"
    BY <1>1, <1>10, <2>1, <2>5
  <2>8. \A x \in 1 .. r : x = r \/ x \in 1 .. k
    BY <2>4
  <2>9. ASSUME NEW x \in 1 .. r, x > l
        PROVE  \E i \in 1 .. h : w[i].what = "unit" /\ Same(z[x], w[i])
    <3>1. CASE x = r
      BY <2>7, <3>1
    <3>2. CASE x \in 1 .. k
      <4>1. PICK i \in 1 .. (h - 1) : w[i].what = "unit" /\ Same(y[x], w[i])
        BY <1>8, <2>9, <3>2
      <4>2. QED
        BY <1>7, <2>5, <3>2, <4>1
    <3>3. QED
      BY <2>8, <3>1, <3>2
  <2>10. ASSUME NEW i \in 1 .. h, w[i].what = "unit"
         PROVE  \E x \in 1 .. r : x > l /\ Same(z[x], w[i])
    <3>1. CASE i = h
      <4>1. r \in 1 .. r /\ r > l
        BY <1>5, <2>4
      <4>2. QED
        BY <2>7, <3>1, <4>1
    <3>2. CASE i \in 1 .. (h - 1)
      <4>1. PICK x \in 1 .. k : x > l /\ Same(y[x], w[i])
        BY <1>8, <2>10, <3>2
      <4>2. x \in 1 .. r
        BY <2>4
      <4>3. QED
        BY <2>5, <4>1, <4>2
    <3>3. QED
      BY <1>6, <3>1, <3>2
  <2>11. ASSUME NEW x \in 1 .. r, NEW x2 \in 1 .. r, l < x, x < x2
         PROVE  \E i, j \in 1 .. h :
                  /\ i < j /\ w[i].what = "unit" /\ w[j].what = "unit"
                  /\ Same(z[x], w[i]) /\ Same(z[x2], w[j])
    <3>1. x \in 1 .. k
      BY <2>4, <2>11
    <3>2. CASE x2 = r
      <4>1. PICK i \in 1 .. (h - 1) : w[i].what = "unit" /\ Same(y[x], w[i])
        BY <1>8, <2>11, <3>1
      <4>2. i \in 1 .. h /\ i < h
        BY <1>7
      <4>3. QED
        BY <2>5, <2>7, <3>1, <3>2, <4>1, <4>2
    <3>3. CASE x2 \in 1 .. k
      <4>1. PICK i \in 1 .. (h - 1), j \in 1 .. (h - 1) :
                   /\ i < j /\ w[i].what = "unit" /\ w[j].what = "unit"
                   /\ Same(y[x], w[i]) /\ Same(y[x2], w[j])
        BY <1>8, <2>11, <3>1, <3>3
      <4>2. z[x] = y[x] /\ z[x2] = y[x2]
        BY <2>5, <3>1, <3>3
      <4>3. QED
        BY <1>7, <4>1, <4>2
    <3>4. QED
      BY <2>8, <3>2, <3>3
  <2>12. \A x \in 1 .. l : x \in 1 .. k /\ z[x] = s[x]
    BY <1>5, <1>8, <2>5
  <2>13. l <= r
    BY <1>5, <2>4
  <2>16. /\ Len(s) \in Nat /\ Len(s) <= Len(z)
         /\ \A x \in 1 .. Len(s) : z[x] = s[x]
    BY <1>5, <2>5, <2>12, <2>13
  <2>17. \A x \in 1 .. Len(z) :
           x > Len(s) => \E i \in 1 .. h : w[i].what = "unit" /\ Same(z[x], w[i])
    BY <1>5, <2>5, <2>9
  <2>18. \A i \in 1 .. h : w[i].what = "unit" =>
           \E x \in 1 .. Len(z) : x > Len(s) /\ Same(z[x], w[i])
    BY <1>5, <2>5, <2>10
  <2>19. \A x, x2 \in 1 .. Len(z) : Len(s) < x /\ x < x2 =>
           \E i, j \in 1 .. h : /\ i < j /\ w[i].what = "unit" /\ w[j].what = "unit"
                                /\ Same(z[x], w[i]) /\ Same(z[x2], w[j])
    BY <1>5, <2>5, <2>11
  <2>14. Heard(old, b, w, 1 .. h)
    BY <1>4, <2>6, <2>16, <2>17, <2>18, <2>19 DEF Heard
  <2>15. QED
    BY <1>1, <2>14
<1>11. QED
  BY <1>9, <1>10

HearStep(in, a, e) == HearEvent(a, e, in.streams)
HearKept(in, done, a) == Heard(in.old, a, in.w, done)
Hearing == INSTANCE FoldFacts WITH Step <- HearStep, Keeps <- HearKept

HeardAll(old, w, streams) == FoldLeft(LAMBDA a, e : HearEvent(a, e, streams), old, w)

LEMMA HearsAll ==
  ASSUME NEW old, IsAir(old), NEW w, IsSeq(w), NEW streams
  PROVE  Heard(old, HeardAll(old, w, streams), w, 1 .. Len(w))
<1>1. PICK in : in = [old |-> old, w |-> w, streams |-> streams]
  OBVIOUS
<1>2. in.old = old /\ in.w = w /\ in.streams = streams
  BY <1>1
<1>3. PICK f : f = Hearing!Fold(in, old, w)
  OBVIOUS
<1>4. HeardAll(old, w, streams) = f
  BY <1>2, <1>3 DEF HeardAll, Hearing!Fold, Hearing!FoldLeft, FoldLeft, MapThenFoldSet,
         Hearing!MapThenFoldSet, Hearing!Max, Max, HearStep
<1>5. PICK n \in Nat : n = Len(w) /\ DOMAIN w = 1 .. n
  BY SeqIs
<1>6. ASSUME NEW i \in 1 .. n, NEW acc, HearKept(in, 1 .. (i - 1), acc)
      PROVE  HearKept(in, 1 .. i, HearStep(in, acc, w[i]))
  <2>1. Heard(old, acc, w, 1 .. (i - 1))
    BY <1>2, <1>6 DEF HearKept
  <2>2. Heard(old, HearEvent(acc, w[i], streams), w, 1 .. i)
    BY <2>1, HeardMore
  <2>3. QED
    BY <1>2, <2>2 DEF HearKept, HearStep
<1>7. HearKept(in, 1 .. 0, old)
  <2>1. Len(old.out) \in Nat
    BY SeqIs DEF IsAir
  <2>2. Heard(old, old, w, 1 .. 0)
    BY <2>1 DEF Heard
  <2>3. QED
    BY <1>2, <2>2 DEF HearKept
<1>8. HearKept(in, 1 .. n, f)
  BY <1>3, <1>5, <1>6, <1>7, Hearing!FoldKeeps
<1>9. QED
  BY <1>2, <1>4, <1>5, <1>8 DEF HearKept

\* behind the output of old, a has the units of R in their order
Adds(old, a, R) ==
  /\ IsAir(a) /\ Len(old.out) \in Nat /\ Len(a.out) \in Nat /\ Len(old.out) <= Len(a.out)
  /\ \A x \in 1 .. Len(old.out) : a.out[x] = old.out[x]
  /\ \A x \in 1 .. Len(a.out) : x > Len(old.out) => \E u \in R : ~ u.bad /\ Same(a.out[x], u)
  /\ \A u \in R : ~ u.bad =>
       \E x \in 1 .. Len(a.out) : x > Len(old.out) /\ Same(a.out[x], u)
  /\ \A x, y \in 1 .. Len(a.out) : Len(old.out) < x /\ x < y => Earlier(a.out[x], a.out[y])

LEMMA HeardAdds ==
  ASSUME NEW old, NEW a, NEW w, NEW R, Heard(old, a, w, 1 .. Len(w)), Brings(w, R)
  PROVE  Adds(old, a, R)
<1>1. PICK s, z, n : s = old.out /\ z = a.out /\ n = Len(w)
  OBVIOUS
<1>2. PICK l \in Nat, k \in Nat : l = Len(s) /\ k = Len(z) /\ l <= k
  BY <1>1, SeqIs DEF Heard, IsAir
<1>3. ASSUME NEW x \in 1 .. k, x > l
      PROVE  \E u \in R : ~ u.bad /\ Same(z[x], u)
  <2>1. PICK i \in 1 .. n : w[i].what = "unit" /\ Same(z[x], w[i])
    BY <1>1, <1>2, <1>3 DEF Heard
  <2>2. PICK u \in R : ~ u.bad /\ Carries(w[i], u)
    BY <1>1, <2>1 DEF Brings
  <2>3. QED
    BY <2>1, <2>2 DEF Same, Carries
<1>4. ASSUME NEW u \in R, ~ u.bad
      PROVE  \E x \in 1 .. k : x > l /\ Same(z[x], u)
  <2>1. PICK i \in 1 .. n : Carries(w[i], u)
    BY <1>1, <1>4 DEF Brings
  <2>2. PICK x \in 1 .. k : x > l /\ Same(z[x], w[i])
    BY <1>1, <1>2, <2>1 DEF Heard, Carries
  <2>3. QED
    BY <2>1, <2>2 DEF Same, Carries
<1>5. ASSUME NEW x \in 1 .. k, NEW y \in 1 .. k, l < x, x < y
      PROVE  Earlier(z[x], z[y])
  <2>1. PICK i \in 1 .. n, j \in 1 .. n :
               /\ i < j /\ w[i].what = "unit" /\ w[j].what = "unit"
               /\ Same(z[x], w[i]) /\ Same(z[y], w[j])
    BY <1>1, <1>2, <1>5 DEF Heard
  <2>2. Earlier(w[i], w[j])
    BY <1>1, <2>1 DEF Brings
  <2>3. QED
    BY <2>1, <2>2 DEF Same, Earlier
<1>6. IsAir(a) /\ \A x \in 1 .. l : z[x] = s[x]
  BY <1>1, <1>2 DEF Heard
<1>7. QED
  BY <1>1, <1>2, <1>3, <1>4, <1>5, <1>6 DEF Adds
-----------------------------------------------------------------------------
(* The invariant.                                                          *)
\* the units of out and those of the queue Q are different, and older than s
Fits(out, Q, s) ==
  /\ \A x \in 1 .. Len(out) : out[x].dts \in Int /\ out[x].seq \in Nat /\ out[x].seq < s
  /\ \A x \in 1 .. Len(out) : \A u \in Q : out[x].seq # u.seq
  /\ \A x, y \in 1 .. Len(out) : out[x].seq = out[y].seq => x = y

Seqs(out) == {out[n].seq : n \in 1 .. Len(out)}

Waiting(Q) == {u.seq : u \in {v \in Q : ~ v.bad}}

InTime(out, L) ==
  \A x, y \in 1 .. Len(out) : x < y => Earlier(out[x], out[y]) \/ out[y].seq \in L

Passed(out, d) == \A x \in 1 .. Len(out) : d - out[x].dts > ReorderWindow

\* what holds of the muxer n and the output of a: the units P were pushed, those of L late
Right(n, a, L, P) ==
  /\ IsMux(n) /\ n.wrote = <<>> /\ n.seq \in Nat /\ n.maxDTS \in Int
  /\ AreUnits(n.queue)
  /\ \A u \in n.queue : u.seq < n.seq /\ n.maxDTS - u.dts <= ReorderWindow
  /\ IsAir(a) /\ Fits(a.out, n.queue, n.seq)
  /\ Seqs(a.out) \cup Waiting(n.queue) = P
  /\ InTime(a.out, L)

PlanRight ==
  /\ plan \in Plans
  /\ DOMAIN issued = DOMAIN plan.mpts /\ DOMAIN sent = DOMAIN plan.units
  /\ \A p \in DOMAIN plan.mpts : issued[p] \in Nat /\ 1 <= issued[p] /\ issued[p] <= Len(plan.mpts[p])
  /\ \A k \in DOMAIN plan.units : sent[k] \in Nat

OrderInv ==
  /\ PlanRight
  /\ Right(m, air, late, pushed)
  /\ ~ ended => Passed(air.out, m.maxDTS)
  /\ ended => m.queue = {}

LEMMA AddsFits ==
  ASSUME NEW old, NEW a, NEW R, Adds(old, a, R), NEW Q, AreUnits(Q), R \subseteq Q,
         NEW s, \A u \in Q : u.seq < s, Fits(old.out, Q, s)
  PROVE  Fits(a.out, Q \ R, s)
<1>1. PICK y, z : y = old.out /\ z = a.out
  OBVIOUS
<1>2. PICK l \in Nat, k \in Nat : l = Len(y) /\ k = Len(z) /\ l <= k
  BY <1>1 DEF Adds
<1>3. \A x \in 1 .. k : x \in 1 .. l \/ x > l
  OBVIOUS
<1>4. \A x \in 1 .. l : /\ z[x].dts \in Int /\ z[x].seq \in Nat /\ z[x].seq < s
                        /\ \A u \in Q : z[x].seq # u.seq
  BY <1>1, <1>2 DEF Adds, Fits
<1>5. \A x \in 1 .. k : x > l => \E u \in R : ~ u.bad /\ Same(z[x], u)
  BY <1>1, <1>2 DEF Adds
<1>6. \A x \in 1 .. k : z[x].dts \in Int /\ z[x].seq \in Nat /\ z[x].seq < s
  <2>1. SUFFICES ASSUME NEW x \in 1 .. k, x > l
                 PROVE  z[x].dts \in Int /\ z[x].seq \in Nat /\ z[x].seq < s
    BY <1>3, <1>4
  <2>2. PICK u \in R : Same(z[x], u)
    BY <1>5, <2>1
  <2>3. u \in Q /\ u.dts \in Int /\ u.seq \in Nat /\ u.seq < s
    BY DEF AreUnits
  <2>4. QED
    BY <2>2, <2>3 DEF Same
<1>7. \A x \in 1 .. k : \A u \in Q \ R : z[x].seq # u.seq
  <2>1. SUFFICES ASSUME NEW x \in 1 .. k, x > l, NEW u \in Q \ R
                 PROVE  z[x].seq # u.seq
    BY <1>3, <1>4
  <2>2. PICK v \in R : Same(z[x], v)
    BY <1>5, <2>1
  <2>3. v.seq # u.seq
    BY DEF AreUnits
  <2>4. QED
    BY <2>2, <2>3 DEF Same
<1>8. \A x, x2 \in 1 .. k : x < x2 => z[x].seq # z[x2].seq
  <2>1. SUFFICES ASSUME NEW x \in 1 .. k, NEW x2 \in 1 .. k, x < x2
                 PROVE  z[x].seq # z[x2].seq
    OBVIOUS
  <2>2. CASE x2 \in 1 .. l
    <3>1. x \in 1 .. l /\ x # x2
      BY <2>1, <2>2
    <3>2. z[x] = y[x] /\ z[x2] = y[x2]
      BY <1>1, <1>2, <2>2, <3>1 DEF Adds
    <3>3. y[x].seq # y[x2].seq
      BY <1>1, <1>2, <2>2, <3>1 DEF Fits
    <3>4. QED
      BY <3>2, <3>3
  <2>3. CASE x2 > l /\ x \in 1 .. l
    <3>1. PICK v \in R : Same(z[x2], v)
      BY <1>5, <2>3
    <3>2. QED
      BY <1>4, <2>3, <3>1 DEF Same
  <2>4. CASE x2 > l /\ x > l
    <3>1. PICK u \in R : Same(z[x], u)
      BY <1>5, <2>4
    <3>2. PICK v \in R : Same(z[x2], v)
      BY <1>5, <2>4
    <3>3. Earlier(z[x], z[x2])
      BY <1>1, <1>2, <2>1, <2>4 DEF Adds
    <3>4. Earlier(u, v)
      BY <3>1, <3>2, <3>3 DEF Same, Earlier
    <3>5. u # v
      BY <3>4, EarlierOrder
    <3>6. u.seq # v.seq
      BY <3>5 DEF AreUnits
    <3>7. QED
      BY <3>1, <3>2, <3>6 DEF Same
  <2>5. QED
    BY <1>3, <2>2, <2>3, <2>4
<1>9. \A x, x2 \in 1 .. k : z[x].seq = z[x2].seq => x = x2
  <2>1. SUFFICES ASSUME NEW x \in 1 .. k, NEW x2 \in 1 .. k, z[x].seq = z[x2].seq, x # x2
                 PROVE  FALSE
    OBVIOUS
  <2>2. x < x2 \/ x2 < x
    BY <2>1
  <2>3. QED
    BY <1>8, <2>1, <2>2
<1>10. QED
  BY <1>1, <1>2, <1>6, <1>7, <1>9 DEF Fits

LEMMA AddsWhole ==
  ASSUME NEW old, NEW a, NEW R, Adds(old, a, R), NEW Q, R \subseteq Q
  PROVE  Seqs(a.out) \cup Waiting(Q \ R) = Seqs(old.out) \cup Waiting(Q)
<1>1. PICK y, z : y = old.out /\ z = a.out
  OBVIOUS
<1>2. PICK l \in Nat, k \in Nat : l = Len(y) /\ k = Len(z) /\ l <= k
  BY <1>1 DEF Adds
<1>3. \A x \in 1 .. k : x \in 1 .. l \/ x > l
  OBVIOUS
<1>4. \A x \in 1 .. l : x \in 1 .. k /\ z[x] = y[x]
  BY <1>1, <1>2 DEF Adds
<1>5. Waiting(Q) = Waiting(R) \cup Waiting(Q \ R)
  BY DEF Waiting
<1>6. Waiting(R) \subseteq Seqs(z)
  <2>1. SUFFICES ASSUME NEW u \in R, ~ u.bad
                 PROVE  u.seq \in Seqs(z)
    BY DEF Waiting
  <2>2. PICK x \in 1 .. k : Same(z[x], u)
    BY <1>1, <1>2, <2>1 DEF Adds
  <2>3. QED
    BY <1>2, <2>2 DEF Same, Seqs
<1>7. Seqs(y) \subseteq Seqs(z)
  BY <1>2, <1>4 DEF Seqs
<1>8. Seqs(z) \subseteq Seqs(y) \cup Waiting(R)
  <2>1. SUFFICES ASSUME NEW x \in 1 .. k
                 PROVE  z[x].seq \in Seqs(y) \cup Waiting(R)
    BY <1>2 DEF Seqs
  <2>2. CASE x \in 1 .. l
    BY <1>2, <1>4, <2>2 DEF Seqs
  <2>3. CASE x > l
    <3>1. PICK u \in R : ~ u.bad /\ Same(z[x], u)
      BY <1>1, <1>2, <2>3 DEF Adds
    <3>2. u.seq \in Waiting(R)
      BY <3>1 DEF Waiting
    <3>3. QED
      BY <3>1, <3>2 DEF Same
  <2>4. QED
    BY <1>3, <2>2, <2>3
<1>9. QED
  BY <1>1, <1>5, <1>6, <1>7, <1>8

LEMMA AddsInTime ==
  ASSUME NEW old, NEW a, NEW R, Adds(old, a, R), NEW L, NEW N, InTime(old.out, L), L \subseteq N,
         \A x \in 1 .. Len(old.out) : \A u \in R : Earlier(old.out[x], u) \/ u.seq \in N
  PROVE  InTime(a.out, N)
<1>1. PICK y, z : y = old.out /\ z = a.out
  OBVIOUS
<1>2. PICK l \in Nat, k \in Nat : l = Len(y) /\ k = Len(z) /\ l <= k
  BY <1>1 DEF Adds
<1>3. \A x \in 1 .. l : z[x] = y[x]
  BY <1>1, <1>2 DEF Adds
<1>4. SUFFICES ASSUME NEW x \in 1 .. k, NEW x2 \in 1 .. k, x < x2
               PROVE  Earlier(z[x], z[x2]) \/ z[x2].seq \in N
  BY <1>1, <1>2 DEF InTime
<1>5. CASE x2 \in 1 .. l
  <2>1. x \in 1 .. l
    BY <1>4, <1>5
  <2>2. Earlier(y[x], y[x2]) \/ y[x2].seq \in L
    BY <1>1, <1>2, <1>4, <1>5, <2>1 DEF InTime
  <2>3. QED
    BY <1>3, <1>5, <2>1, <2>2
<1>6. CASE x2 > l /\ x \in 1 .. l
  <2>1. PICK u \in R : Same(z[x2], u)
    BY <1>1, <1>2, <1>6 DEF Adds
  <2>2. Earlier(y[x], u) \/ u.seq \in N
    BY <1>1, <1>2, <1>6
  <2>3. QED
    BY <1>3, <1>6, <2>1, <2>2 DEF Same, Earlier
<1>7. CASE x2 > l /\ x > l
  BY <1>1, <1>2, <1>4, <1>7 DEF Adds
<1>8. QED
  BY <1>5, <1>6, <1>7

LEMMA AddsPassed ==
  ASSUME NEW old, NEW a, NEW R, Adds(old, a, R), NEW d, Passed(old.out, d),
         \A u \in R : d - u.dts > ReorderWindow
  PROVE  Passed(a.out, d)
<1>1. PICK y, z : y = old.out /\ z = a.out
  OBVIOUS
<1>2. PICK l \in Nat, k \in Nat : l = Len(y) /\ k = Len(z) /\ l <= k
  BY <1>1 DEF Adds
<1>3. SUFFICES ASSUME NEW x \in 1 .. k
               PROVE  d - z[x].dts > ReorderWindow
  BY <1>1, <1>2 DEF Passed
<1>4. CASE x \in 1 .. l
  <2>1. z[x] = y[x] /\ d - y[x].dts > ReorderWindow
    BY <1>1, <1>2, <1>4 DEF Adds, Passed
  <2>2. QED
    BY <2>1
<1>5. CASE x > l
  <2>1. PICK u \in R : Same(z[x], u)
    BY <1>1, <1>2, <1>5 DEF Adds
  <2>2. d - u.dts > ReorderWindow
    OBVIOUS
  <2>3. QED
    BY <2>1, <2>2 DEF Same
<1>6. QED
  BY <1>4, <1>5
-----------------------------------------------------------------------------
(* Steps.                                                                  *)
\* of the queue Q, numbered below s and with d the furthest time, R is written
Ready(Q, s, d, R, L, N, P) ==
  /\ AreUnits(Q) /\ s \in Nat /\ d \in Int /\ R \subseteq Q
  /\ \A u \in Q : u.seq < s
  /\ \A u \in Q \ R : d - u.dts <= ReorderWindow
  /\ Fits(air.out, Q, s)
  /\ Seqs(air.out) \cup Waiting(Q) = P
  /\ InTime(air.out, L) /\ L \subseteq N
  /\ \A x \in 1 .. Len(air.out) : \A u \in R : Earlier(air.out[x], u) \/ u.seq \in N

LEMMA StepRight ==
  ASSUME NEW Q, NEW s, NEW d, NEW R, NEW L, NEW N, NEW P, Ready(Q, s, d, R, L, N, P),
         NEW q, IsMux(q), q.queue = Q \ R, q.seq = s, q.maxDTS = d, Brings(q.wrote, R),
         IsAir(air), Steps(q)
  PROVE  /\ Right(m', air', N, P) /\ Adds(air, air', R)
         /\ m'.queue = Q \ R /\ m'.maxDTS = d
<1>1. PICK w, streams : w = q.wrote /\ streams = q.pr.streams
  OBVIOUS
<1>16. air' = HeardAll(air, q.wrote, q.pr.streams)
  BY DEF Steps, HeardAll
<1>2. air' = HeardAll(air, w, streams)
  BY <1>1, <1>16
<1>3. IsSeq(w)
  BY <1>1 DEF IsMux
<1>4. Heard(air, air', w, 1 .. Len(w))
  BY <1>2, <1>3, HearsAll
<1>5. Adds(air, air', R)
  BY <1>1, <1>4, HeardAdds
<1>6. /\ DOMAIN m' = MuxFields /\ m'.pr = q.pr /\ m'.queue = Q \ R /\ m'.seq = s /\ m'.maxDTS = d
      /\ m'.wrote = <<>> /\ m'.lastPCR = q.lastPCR /\ m'.origin = q.origin
  BY DEF Steps, IsMux, MuxFields
<1>7. IsMux(m')
  BY <1>6, NothingIs DEF IsMux
<1>8. AreUnits(Q \ R)
  BY PartUnits DEF Ready
<1>9. Fits(air'.out, Q \ R, s)
  BY <1>5, AddsFits DEF Ready
<1>17. R \subseteq Q /\ Seqs(air.out) \cup Waiting(Q) = P
  BY DEF Ready
<1>18. Seqs(air'.out) \cup Waiting(Q \ R) = Seqs(air.out) \cup Waiting(Q)
  BY <1>5, <1>17, AddsWhole
<1>10. Seqs(air'.out) \cup Waiting(Q \ R) = P
  BY <1>17, <1>18
<1>11. InTime(air'.out, N)
  BY <1>5, AddsInTime DEF Ready
<1>12. IsAir(air')
  BY <1>5 DEF Adds
<1>13. /\ s \in Nat /\ d \in Int
       /\ \A u \in Q \ R : u.seq < s /\ d - u.dts <= ReorderWindow
  BY DEF Ready
<1>14. Right(m', air', N, P)
  BY <1>6, <1>7, <1>8, <1>9, <1>10, <1>11, <1>12, <1>13 DEF Right
<1>15. QED
  BY <1>5, <1>6, <1>14

\* nothing happens to the units
LEMMA StepQuiet ==
  ASSUME Right(m, air, late, pushed), NEW q, Quiet(m, q), Steps(q)
  PROVE  /\ Right(m', air', late, pushed) /\ m'.queue = m.queue
         /\ \A d : Passed(air.out, d) => Passed(air'.out, d)
         /\ m'.maxDTS = m.maxDTS
<1>1. PICK Q, s, d : Q = m.queue /\ s = m.seq /\ d = m.maxDTS
  OBVIOUS
<1>2. Ready(Q, s, d, {}, late, late, pushed)
  BY <1>1 DEF Right, Ready
<1>3. Brings(q.wrote, {})
  BY QuietBrings DEF Right
<1>4. IsMux(q) /\ q.queue = Q \ {} /\ q.seq = s /\ q.maxDTS = d /\ IsAir(air)
  BY <1>1 DEF Quiet, Right
<1>5. /\ Right(m', air', late, pushed) /\ Adds(air, air', {})
      /\ m'.queue = Q \ {} /\ m'.maxDTS = d
  BY <1>2, <1>3, <1>4, StepRight
<1>6. \A e : Passed(air.out, e) => Passed(air'.out, e)
  BY <1>5, AddsPassed
<1>7. QED
  BY <1>1, <1>5, <1>6

LEMMA QuietKeeps ==
  ASSUME OrderInv, PlanRight', UNCHANGED <<late, pushed, ended>>, NEW q, Quiet(m, q), Steps(q)
  PROVE  OrderInv'
<1>1. /\ Right(m', air', late, pushed) /\ m'.queue = m.queue
      /\ \A d : Passed(air.out, d) => Passed(air'.out, d)
      /\ m'.maxDTS = m.maxDTS
  BY StepQuiet DEF OrderInv
<1>2. ~ ended => Passed(air'.out, m'.maxDTS)
  BY <1>1 DEF OrderInv
<1>3. Right(m', air', late', pushed')
  BY <1>1
<1>4. QED
  BY <1>1, <1>2, <1>3 DEF OrderInv, Right, Passed, PlanRight, InTime
-----------------------------------------------------------------------------
(* What applyMPT and assignOutput leave of the packages is one.            *)
LEMMA DirtyIsPr ==
  ASSUME NEW pr, IsPr(pr), NEW p, NEW c
  PROVE  IsPr(Dirty(pr, p, c))
BY DEF IsPr, PrFields, Dirty

LEMMA WithPackageIsPr ==
  ASSUME NEW pr, IsPr(pr), NEW mpt
  PROVE  IsPr(WithPackage(pr, mpt))
<1>1. PICK pid, pkg : pid = PMTPIDFor(pr, Len(pr.order)) /\ pkg = NewPkg(Len(pr.order), pid)
  OBVIOUS
<1>2. PICK q : q = [pr EXCEPT !.order = Append(@, mpt.package),
                              !.pkgs = Put(@, mpt.package, pkg),
                              !.used = @ \cup {pid}, !.pmtDirty = TRUE]
  OBVIOUS
<1>3. DOMAIN q = PrFields /\ q.order = Append(pr.order, mpt.package)
  BY <1>2 DEF IsPr, PrFields
<1>4. IsSeq(q.order)
  BY <1>3, Appended DEF IsPr, IsWith
<1>5. WithPackage(pr, mpt) = pr \/ WithPackage(pr, mpt) = q
  BY <1>1, <1>2 DEF WithPackage
<1>6. QED
  BY <1>3, <1>4, <1>5 DEF IsPr

LEMMA WithAssetIsPr ==
  ASSUME NEW pr, IsPr(pr), NEW mpt, NEW a
  PROVE  IsPr(WithAsset(pr, mpt, a))
<1>1. PICK known : known = (a.key \in DOMAIN pr.streams)
  OBVIOUS
<1>2. PICK old : old = IF known THEN pr.streams[a.key] ELSE NewStream(a, mpt.package)
  OBVIOUS
<1>3. PICK new : new = Applied(old, a, mpt.flow)
  OBVIOUS
<1>4. PICK next : next = [pr EXCEPT !.streams = Put(@, a.key, new), !.routes = Routed(pr, mpt, a, old),
                          !.pkgs[mpt.package].order = IF known THEN @ ELSE Append(@, a.key)]
  OBVIOUS
<1>5. IsPr(next)
  BY <1>4 DEF IsPr, PrFields
<1>6. PICK un : un = Unconverted(pr, mpt, a)
  OBVIOUS
<1>7. IsPr(un)
  BY <1>6 DEF IsPr, PrFields, Unconverted
<1>8. PICK c : c = (~ known \/ old.type # a.type \/ ~ old.present)
  OBVIOUS
<1>9. IsPr(Dirty(next, mpt.package, c))
  BY <1>5, DirtyIsPr
<1>10. WithAsset(pr, mpt, a) = un \/ WithAsset(pr, mpt, a) = Dirty(next, mpt.package, c)
  BY <1>1, <1>2, <1>3, <1>4, <1>6, <1>8 DEF WithAsset
<1>11. QED
  BY <1>7, <1>9, <1>10

LEMMA WithoutAbsentIsPr ==
  ASSUME NEW pr, IsPr(pr), NEW mpt
  PROVE  IsPr(WithoutAbsent(pr, mpt))
<1>1. PICK gone : gone = {k \in DOMAIN pr.streams : /\ pr.streams[k].package = mpt.package
                                                   /\ pr.streams[k].present
                                                   /\ k \notin ConvertedKeys(mpt)}
  OBVIOUS
<1>2. PICK q : q = [pr EXCEPT !.streams = [k \in DOMAIN @ |->
                                [@[k] EXCEPT !.present = @ /\ k \notin gone]]]
  OBVIOUS
<1>3. IsPr(q)
  BY <1>2 DEF IsPr, PrFields
<1>4. WithoutAbsent(pr, mpt) = Dirty(q, mpt.package, gone # {})
  BY <1>1, <1>2 DEF WithoutAbsent
<1>5. QED
  BY <1>3, <1>4, DirtyIsPr

AssetStep(in, pr, a) == WithAsset(pr, in.mpt, a)
Assets == INSTANCE FoldFacts WITH Step <- AssetStep, Keeps <- ChooseKept

LEMMA ApplyIsPr ==
  ASSUME NEW pr, IsPr(pr), NEW mpt, NEW n \in Nat, DOMAIN mpt.assets = 1 .. n
  PROVE  IsPr(ApplyMPT(pr, mpt))
<1>1. PICK founded : founded = WithPackage(pr, mpt)
  OBVIOUS
<1>2. PICK told : told = [founded EXCEPT !.pkgs[mpt.package].info = mpt.info]
  OBVIOUS
<1>3. IsPr(told)
  <2>1. IsPr(founded)
    BY <1>1, WithPackageIsPr
  <2>2. QED
    BY <1>2, <2>1 DEF IsPr, PrFields
<1>4. PICK in : in = [mpt |-> mpt]
  OBVIOUS
<1>5. in.mpt = mpt
  BY <1>4
<1>6. PICK f : f = Assets!Fold(in, told, mpt.assets)
  OBVIOUS
<1>7. FoldLeft(LAMBDA p, a : WithAsset(p, mpt, a), told, mpt.assets) = f
  BY <1>5, <1>6 DEF Assets!Fold, Assets!FoldLeft, FoldLeft, MapThenFoldSet,
         Assets!MapThenFoldSet, Assets!Max, Max, AssetStep
<1>8. \A i \in 1 .. n : \A acc :
        ChooseKept(in, 1 .. (i - 1), acc) => ChooseKept(in, 1 .. i, AssetStep(in, acc, mpt.assets[i]))
  BY WithAssetIsPr DEF ChooseKept, AssetStep
<1>9. ChooseKept(in, 1 .. 0, told)
  BY <1>3 DEF ChooseKept
<1>10. ChooseKept(in, 1 .. n, f)
  BY <1>6, <1>8, <1>9, Assets!FoldKeeps
<1>11. IsPr(f)
  BY <1>10 DEF ChooseKept
<1>12. ApplyMPT(pr, mpt) = WithoutAbsent(f, mpt)
  BY <1>1, <1>2, <1>7 DEF ApplyMPT
<1>13. QED
  BY <1>11, <1>12, WithoutAbsentIsPr

LEMMA AssignIsPr ==
  ASSUME NEW pr, IsPr(pr), NEW key
  PROVE  IsPr(AssignOutput(pr, key))
<1> DEFINE s   == pr.streams[key]
           p   == pr.pkgs[s.package]
           pid == PIDFor(pr, s, p.index)
           tag == TagFor(p.tags, s, pid)
           new == IF s.pid # 0 THEN pr
                  ELSE [pr EXCEPT !.streams[key].pid = pid, !.streams[key].tsTag = tag,
                                  !.used = @ \cup {pid}, !.pkgs[s.package].tags = @ \cup {tag}]
           on  == [new EXCEPT !.streams[key].emitted = TRUE]
<1>1. AssignOutput(pr, key) = IF s.emitted THEN pr ELSE Dirty(on, s.package, TRUE)
  BY DEF AssignOutput
<1> HIDE DEF s, p, pid, tag
<1>2. IsPr(new)
  BY DEF IsPr, PrFields
<1> HIDE DEF new
<1>3. IsPr(on)
  BY <1>2 DEF IsPr, PrFields
<1> HIDE DEF on
<1>4. QED
  BY <1>1, <1>3, DirtyIsPr
-----------------------------------------------------------------------------
(* The invariant is inductive.                                             *)
LEMMA OrderInit ==
  ASSUME Init
  PROVE  OrderInv
<1>1. PICK out : out = air.out
  OBVIOUS
<1>2. out = <<>> /\ Len(out) = 0 /\ IsSeq(out)
  BY <1>1, NothingIs DEF Init
<1>3. PlanRight
  BY PlansAssumption DEF Init, PlanRight
<1>4. /\ DOMAIN m = MuxFields /\ m.pr = NoPrograms /\ m.wrote = <<>> /\ m.queue = {}
      /\ m.seq = 0 /\ m.maxDTS = 0 /\ m.lastPCR = 0 /\ m.origin = 0
  BY DEF Init, NewMuxer, MuxFields
<1>5. IsPr(m.pr)
  <2>1. DOMAIN m.pr = PrFields /\ m.pr.order = <<>>
    BY <1>4 DEF NoPrograms, PrFields
  <2>2. QED
    BY <2>1, NothingIs DEF IsPr
<1>6. IsMux(m)
  BY <1>4, <1>5, NothingIs DEF IsMux
<1>7. AreUnits({})
  BY FS_EmptySet DEF AreUnits
<1>8. IsAir(air)
  BY <1>1, <1>2 DEF Init, IsAir, AirFields
<1>9. Fits(out, {}, 0) /\ InTime(out, late) /\ Passed(out, 0)
  BY <1>2 DEF Fits, InTime, Passed
<1>10. Seqs(out) \cup Waiting({}) = pushed
  <2>1. Seqs(out) = {} /\ Waiting({}) = {} /\ pushed = {}
    BY <1>2 DEF Seqs, Waiting, Init
  <2>2. QED
    BY <2>1
<1>11. Right(m, air, late, pushed)
  BY <1>1, <1>4, <1>6, <1>7, <1>8, <1>9, <1>10 DEF Right
<1>12. QED
  BY <1>1, <1>3, <1>4, <1>9, <1>11 DEF OrderInv

LEMMA OtherPr ==
  ASSUME NEW n, IsMux(n), NEW pr, IsPr(pr), NEW q, q = [n EXCEPT !.pr = pr]
  PROVE  Quiet(n, q) /\ q.wrote = n.wrote
<1>1. /\ DOMAIN q = MuxFields /\ q.pr = pr /\ q.queue = n.queue /\ q.seq = n.seq
      /\ q.maxDTS = n.maxDTS /\ q.wrote = n.wrote /\ q.lastPCR \in Int /\ q.origin \in Int
  BY DEF IsMux, MuxFields
<1>2. QED
  BY <1>1, QuietSet

LEMMA MPTKeeps ==
  ASSUME OrderInv, NEW p \in DOMAIN plan.mpts, MPTArrives(p)
  PROVE  OrderInv'
<1>1. PICK mpt : mpt = MPTOf(p)
  OBVIOUS
<1>2. PICK n \in Nat : DOMAIN mpt.assets = 1 .. n
  <2>1. /\ plan \in Plans /\ issued[p] \in Nat /\ 1 <= issued[p]
        /\ issued[p] <= Len(plan.mpts[p])
    BY DEF OrderInv, PlanRight
  <2>2. PICK q : q = plan.mpts[p]
    OBVIOUS
  <2>3. PICK i \in 1 .. Len(q) : i = issued[p]
    BY <2>1, <2>2, PlansAssumption
  <2>4. Len(q[i].assets) \in Nat /\ DOMAIN q[i].assets = 1 .. Len(q[i].assets)
    BY <2>1, <2>2, PlansAssumption
  <2>5. mpt = q[i]
    BY <1>1, <2>2, <2>3 DEF MPTOf
  <2>6. QED
    BY <2>4, <2>5
<1>3. PICK pr : pr = ApplyMPT(m.pr, mpt)
  OBVIOUS
<1>4. IsMux(m)
  BY DEF OrderInv, Right
<1>5. IsPr(pr)
  BY <1>2, <1>3, <1>4, ApplyIsPr DEF IsMux
<1>6. PICK q : q = [m EXCEPT !.pr = pr]
  OBVIOUS
<1>7. Quiet(m, q)
  BY <1>4, <1>5, <1>6, OtherPr
<1>8. Steps(q) /\ UNCHANGED <<plan, issued, sent, late, pushed, ended>>
  BY <1>1, <1>3, <1>6 DEF MPTArrives
<1>9. PlanRight'
  BY <1>8 DEF OrderInv, PlanRight
<1>10. QED
  BY <1>7, <1>8, <1>9, QuietKeeps

LEMMA SameKeeps ==
  ASSUME OrderInv, PlanRight', UNCHANGED <<m, air, late, pushed, ended>>
  PROVE  OrderInv'
BY DEF OrderInv, Right, InTime, Passed

LEMMA ReissueKeeps ==
  ASSUME OrderInv, NEW p \in DOMAIN plan.mpts, Reissue(p)
  PROVE  OrderInv'
<1>1. /\ issued[p] < Len(plan.mpts[p]) /\ issued' = [issued EXCEPT ![p] = @ + 1]
      /\ UNCHANGED <<plan, sent>> /\ UNCHANGED <<m, air, late, pushed, ended>>
  BY DEF Reissue
<1>2. PlanRight
  BY DEF OrderInv
<1>3. Len(plan.mpts[p]) \in Nat
  BY <1>2, PlansAssumption DEF PlanRight
<1>4. \A r \in DOMAIN plan.mpts :
        issued'[r] \in Nat /\ 1 <= issued'[r] /\ issued'[r] <= Len(plan.mpts[r])
  BY <1>1, <1>2, <1>3 DEF PlanRight
<1>5. PlanRight'
  BY <1>1, <1>2, <1>4 DEF PlanRight
<1>6. QED
  BY <1>1, <1>5, SameKeeps

\* a unit joins the queue
LEMMA PushedReady ==
  ASSUME Right(m, air, late, pushed), Passed(air.out, m.maxDTS),
         NEW n, Quiet(m, n), n.wrote = <<>>,
         NEW key, NEW dts \in Int, NEW bad \in BOOLEAN, NEW q, q = Pushed(n, key, dts, bad),
         NEW N, N = IF m.maxDTS - dts > ReorderWindow THEN late \cup {m.seq} ELSE late,
         NEW P, P = IF bad THEN pushed ELSE pushed \cup {m.seq}
  PROVE  /\ IsMux(q) /\ q.wrote = <<>> /\ m.maxDTS <= q.maxDTS
         /\ Ready(q.queue, q.seq, q.maxDTS, Ripe(q, FALSE), late, N, P)
<1>1. PICK u : u = [key |-> key, dts |-> dts, seq |-> m.seq, bad |-> bad]
  OBVIOUS
<1>2. u.dts = dts /\ u.seq = m.seq /\ u.bad = bad
  BY <1>1
<1>3. PICK Q, s, c : Q = m.queue /\ s = m.seq /\ c = m.maxDTS
  OBVIOUS
<1>4. PICK d : d = IF dts > c THEN dts ELSE c
  OBVIOUS
<1>5. /\ DOMAIN q = MuxFields /\ q.pr = n.pr /\ q.queue = Q \cup {u} /\ q.seq = s + 1
      /\ q.maxDTS = d /\ q.wrote = <<>> /\ q.lastPCR = n.lastPCR /\ q.origin = n.origin
  BY <1>1, <1>3, <1>4 DEF Pushed, Quiet, IsMux, MuxFields
<1>6. IsMux(q)
  BY <1>5, NothingIs DEF IsMux, Quiet
<1>7. s \in Nat /\ c \in Int /\ d \in Int /\ c <= d /\ dts <= d
  BY <1>3, <1>4 DEF Right
<1>8. AreUnits(Q) /\ \A v \in Q : v.seq < s /\ c - v.dts <= ReorderWindow
  BY <1>3 DEF Right
<1>9. PICK T : T = Q \cup {u}
  OBVIOUS
<1>10. \A v \in T : v.dts \in Int /\ v.seq \in Nat /\ v.bad \in BOOLEAN /\ v.seq < s + 1
  BY <1>2, <1>3, <1>7, <1>8, <1>9 DEF AreUnits
<1>11. AreUnits(T)
  <2>1. IsFiniteSet(T)
    BY <1>8, <1>9, FS_AddElement DEF AreUnits
  <2>2. \A v \in Q : v.seq # u.seq
    BY <1>2, <1>3, <1>7, <1>8 DEF AreUnits
  <2>3. \A v, w \in T : v.seq = w.seq => v = w
    BY <1>8, <1>9, <2>2 DEF AreUnits
  <2>4. QED
    BY <1>10, <2>1, <2>3 DEF AreUnits
<1>12. PICK R : R = Ripe(q, FALSE)
  OBVIOUS
<1>13. R = {v \in T : d - v.dts > ReorderWindow}
  BY <1>5, <1>9, <1>12 DEF Ripe
<1>14. \A v \in T \ R : d - v.dts <= ReorderWindow
  <2>1. SUFFICES ASSUME NEW v \in T, ~ (d - v.dts > ReorderWindow)
                 PROVE  d - v.dts <= ReorderWindow
    BY <1>13
  <2>2. QED
    BY <1>7, <1>10, <2>1, IntervalAssumption
<1>15. PICK y : y = air.out
  OBVIOUS
<1>16. Fits(y, Q, s) /\ Len(y) \in Nat
  BY <1>3, <1>15, SeqIs DEF Right, IsAir
<1>17. Fits(y, T, s + 1)
  <2>1. \A x \in 1 .. Len(y) : y[x].dts \in Int /\ y[x].seq \in Nat /\ y[x].seq < s + 1
    BY <1>7, <1>16 DEF Fits
  <2>2. \A x \in 1 .. Len(y) : y[x].seq # u.seq
    BY <1>2, <1>3, <1>7, <1>16 DEF Fits
  <2>3. QED
    BY <1>9, <1>16, <2>1, <2>2 DEF Fits
<1>18. Seqs(y) \cup Waiting(T) = P
  <2>1. Seqs(y) \cup Waiting(Q) = pushed
    BY <1>3, <1>15 DEF Right
  <2>2. Waiting(T) = IF bad THEN Waiting(Q) ELSE Waiting(Q) \cup {s}
    BY <1>2, <1>3, <1>9 DEF Waiting
  <2>3. QED
    BY <1>3, <2>1, <2>2
<1>19. ASSUME NEW x \in 1 .. Len(y), NEW v \in R
       PROVE  Earlier(y[x], v) \/ v.seq \in N
  <2>1. PICK e \in Int, f \in Int : e = y[x].dts /\ f = v.dts
    BY <1>10, <1>13, <1>16 DEF Fits
  <2>2. c - e > ReorderWindow
    BY <1>3, <1>15, <2>1 DEF Passed
  <2>3. CASE c - f > ReorderWindow
    <3>1. v \notin Q
      <4>1. SUFFICES ASSUME v \in Q PROVE FALSE
        OBVIOUS
      <4>2. c - f <= ReorderWindow
        BY <1>8, <2>1, <4>1
      <4>3. QED
        BY <1>7, <2>3, <4>2, IntervalAssumption
    <3>2. v = u
      BY <1>9, <1>13, <3>1
    <3>3. QED
      BY <1>2, <1>3, <2>1, <2>3, <3>2
  <2>4. CASE ~ (c - f > ReorderWindow)
    <3>1. e < f
      BY <1>7, <2>1, <2>2, <2>4, IntervalAssumption
    <3>2. QED
      BY <2>1, <3>1 DEF Earlier
  <2>5. QED
    BY <2>3, <2>4
<1>20. InTime(y, late) /\ late \subseteq N
  BY <1>15 DEF Right
<1>21. s + 1 \in Nat /\ R \subseteq T
  BY <1>7, <1>13
<1>22. Ready(T, s + 1, d, R, late, N, P)
  BY <1>7, <1>10, <1>11, <1>14, <1>15, <1>17, <1>18, <1>19, <1>20, <1>21 DEF Ready
<1>23. QED
  BY <1>3, <1>5, <1>6, <1>7, <1>9, <1>12, <1>22

LEMMA UnitKeeps ==
  ASSUME OrderInv, NEW k \in DOMAIN plan.units, UnitArrives(k)
  PROVE  OrderInv'
<1>1. PICK u : u = plan.units[k][sent[k] + 1]
  OBVIOUS
<1>2. PlanRight /\ sent[k] \in Nat /\ sent[k] < Len(plan.units[k])
  BY DEF OrderInv, PlanRight, UnitArrives
<1>3. u.dts \in Int /\ u.bad \in BOOLEAN
  <2>1. PICK l \in Nat : l = Len(plan.units[k])
    BY <1>2, PlansAssumption DEF PlanRight
  <2>2. sent[k] + 1 \in 1 .. l
    BY <1>2, <2>1
  <2>3. QED
    BY <1>1, <1>2, <2>1, <2>2, PlansAssumption DEF PlanRight
<1>4. /\ sent' = [sent EXCEPT ![k] = @ + 1] /\ UNCHANGED <<plan, issued, ended>> /\ ~ ended
  BY DEF UnitArrives
<1>5. PlanRight'
  BY <1>2, <1>4 DEF PlanRight
<1>6. CASE UNCHANGED <<m, air, late, pushed>>
  BY <1>4, <1>5, <1>6, SameKeeps
<1>7. PICK n : n = [m EXCEPT !.pr = AssignOutput(@, k)]
  OBVIOUS
<1>8. CASE /\ Steps(PushUnit(n, k, u.dts, u.bad))
           /\ late' = IF m.maxDTS - u.dts > ReorderWindow THEN late \cup {m.seq} ELSE late
           /\ pushed' = IF u.bad THEN pushed ELSE pushed \cup {m.seq}
  <2>1. Right(m, air, late, pushed) /\ Passed(air.out, m.maxDTS)
    BY <1>4 DEF OrderInv
  <2>2. IsMux(m) /\ m.wrote = <<>> /\ IsPr(m.pr) /\ IsAir(air)
    BY <2>1 DEF Right, IsMux
  <2>3. IsPr(AssignOutput(m.pr, k))
    BY <2>2, AssignIsPr
  <2>4. Quiet(m, n) /\ n.wrote = <<>>
    BY <1>7, <2>2, <2>3, OtherPr
  <2>5. PICK q : q = Pushed(n, k, u.dts, u.bad)
    OBVIOUS
  <2>6. PICK R, Q, s, d : R = Ripe(q, FALSE) /\ Q = q.queue /\ s = q.seq /\ d = q.maxDTS
    OBVIOUS
  <2>7. IsMux(q) /\ q.wrote = <<>> /\ m.maxDTS <= d /\ Ready(Q, s, d, R, late, late', pushed')
    BY <1>3, <1>8, <2>1, <2>4, <2>5, <2>6, PushedReady
  <2>8. PICK r : r = Drain(q, FALSE)
    OBVIOUS
  <2>9. AreUnits(Q)
    BY <2>7 DEF Ready
  <2>10. /\ IsMux(r) /\ r.queue = Q \ R /\ r.seq = s /\ r.maxDTS = d
         /\ Brings(r.wrote, R)
    BY <2>6, <2>7, <2>8, <2>9, DrainBrings
  <2>11. Steps(r)
    BY <1>8, <2>5, <2>8 DEF PushUnit
  <2>12. /\ Right(m', air', late', pushed') /\ Adds(air, air', R)
         /\ m'.queue = Q \ R /\ m'.maxDTS = d
    BY <2>2, <2>7, <2>10, <2>11, StepRight
  <2>13. Passed(air.out, d)
    <3>1. SUFFICES ASSUME NEW x \in 1 .. Len(air.out)
                   PROVE  d - air.out[x].dts > ReorderWindow
      BY DEF Passed
    <3>2. PICK e \in Int, c \in Int : e = air.out[x].dts /\ c = m.maxDTS
      BY <2>1 DEF Right, Fits
    <3>3. c - e > ReorderWindow /\ d \in Int /\ c <= d
      BY <2>1, <2>7, <3>2 DEF Passed, Ready
    <3>4. QED
      BY <3>2, <3>3, IntervalAssumption
  <2>14. \A v \in R : d - v.dts > ReorderWindow
    BY <2>6 DEF Ripe
  <2>15. Passed(air'.out, d)
    BY <2>12, <2>13, <2>14, AddsPassed
  <2>16. Passed(air.out, m.maxDTS)'
    BY <2>12, <2>15 DEF Passed
  <2>17. Right(m, air, late, pushed)'
    BY <2>12 DEF Right, InTime
  <2>18. QED
    BY <1>4, <1>5, <2>16, <2>17 DEF OrderInv
<1>9. QED
  BY <1>1, <1>6, <1>7, <1>8 DEF UnitArrives

LEMMA ClockKeeps ==
  ASSUME OrderInv, ClockArrives
  PROVE  OrderInv'
<1>1. UNCHANGED <<plan, issued, sent, ended, late, pushed>>
  BY DEF ClockArrives
<1>2. PlanRight'
  BY <1>1 DEF OrderInv, PlanRight
<1>3. PICK q : q = Idle(m, plan.clock[ntp + 1])
  OBVIOUS
<1>4. Quiet(m, q)
  BY <1>3, IdleQuiet DEF OrderInv, Right
<1>5. CASE Steps(q)
  BY <1>1, <1>2, <1>4, <1>5, QuietKeeps
<1>6. CASE UNCHANGED <<m, air>>
  BY <1>1, <1>2, <1>6, SameKeeps
<1>7. QED
  BY <1>3, <1>5, <1>6 DEF ClockArrives

LEMMA EndKeeps ==
  ASSUME OrderInv, End
  PROVE  OrderInv'
<1>1. ~ ended /\ ended' /\ UNCHANGED <<plan, issued, sent, late, pushed>>
  BY DEF End
<1>2. PlanRight'
  BY <1>1 DEF OrderInv, PlanRight
<1>3. Right(m, air, late, pushed) /\ Passed(air.out, m.maxDTS)
  BY <1>1 DEF OrderInv
<1>4. PICK Q, s, d : Q = m.queue /\ s = m.seq /\ d = m.maxDTS
  OBVIOUS
<1>5. Ripe(m, TRUE) = Q
  BY <1>4 DEF Ripe
<1>6. PICK r : r = Drain(m, TRUE)
  OBVIOUS
<1>7. IsMux(m) /\ m.wrote = <<>> /\ AreUnits(Q) /\ IsAir(air)
  BY <1>3, <1>4 DEF Right
<1>18. AreUnits(m.queue)
  BY <1>4, <1>7
<1>19. /\ IsMux(r) /\ r.queue = m.queue \ Ripe(m, TRUE) /\ r.seq = m.seq /\ r.maxDTS = m.maxDTS
       /\ Brings(r.wrote, Ripe(m, TRUE))
  BY <1>6, <1>7, <1>18, DrainBrings
<1>8. /\ IsMux(r) /\ r.queue = Q \ Q /\ r.seq = s /\ r.maxDTS = d /\ Brings(r.wrote, Q)
  BY <1>4, <1>5, <1>19
<1>9. PICK q : q = IdleAgain(r)
  OBVIOUS
<1>10. Quiet(r, q)
  BY <1>8, <1>9, IdleAgainQuiet
<1>11. IsMux(q) /\ q.queue = Q \ Q /\ q.seq = s /\ q.maxDTS = d /\ Brings(q.wrote, Q)
  BY <1>8, <1>10, BringsMore DEF Quiet
<1>12. ASSUME NEW x \in 1 .. Len(air.out), NEW u \in Q
       PROVE  Earlier(air.out[x], u)
  <2>1. PICK e \in Int, f \in Int : e = air.out[x].dts /\ f = u.dts
    BY <1>3, <1>4 DEF Right, Fits, AreUnits
  <2>2. d - e > ReorderWindow /\ d - f <= ReorderWindow /\ d \in Int
    BY <1>3, <1>4, <2>1 DEF Right, Passed
  <2>3. e < f
    BY <2>1, <2>2, IntervalAssumption
  <2>4. QED
    BY <2>1, <2>3 DEF Earlier
<1>13. Ready(Q, s, d, Q, late, late, pushed)
  BY <1>3, <1>4, <1>12 DEF Right, Ready
<1>14. Steps(q)
  BY <1>6, <1>9 DEF End
<1>15. /\ Right(m', air', late, pushed) /\ m'.queue = Q \ Q
  BY <1>7, <1>11, <1>13, <1>14, StepRight
<1>16. Right(m, air, late, pushed)' /\ m'.queue = {}
  BY <1>1, <1>15 DEF Right, InTime
<1>17. QED
  BY <1>1, <1>2, <1>16 DEF OrderInv

LEMMA OrderNext ==
  ASSUME OrderInv, [Next]_vars
  PROVE  OrderInv'
<1>1. ASSUME NEW p \in DOMAIN plan.mpts, MPTArrives(p) \/ Reissue(p)
      PROVE  OrderInv'
  BY <1>1, MPTKeeps, ReissueKeeps
<1>2. ASSUME NEW k \in DOMAIN plan.units, UnitArrives(k)
      PROVE  OrderInv'
  BY <1>2, UnitKeeps
<1>3. CASE UNCHANGED vars
  <2>1. PlanRight'
    BY <1>3 DEF OrderInv, PlanRight, vars
  <2>2. QED
    BY <1>3, <2>1, SameKeeps DEF vars
<1>4. QED
  BY <1>1, <1>2, <1>3, ClockKeeps, EndKeeps DEF Next

LEMMA OutCount ==
  ASSUME NEW out, IsSeq(out), NEW Q, NEW s, Fits(out, Q, s)
  PROVE  Cardinality(Seqs(out)) = Len(out)
<1>1. PICK n \in Nat : n = Len(out)
  BY SeqIs
<1>2. PICK f : f = [x \in 1 .. n |-> out[x].seq]
  OBVIOUS
<1>3. PICK T : T = Seqs(out)
  OBVIOUS
<1>4. f \in [1 .. n -> T]
  BY <1>1, <1>2, <1>3 DEF Seqs
<1>5. \A x, y \in 1 .. n : f[x] = f[y] => x = y
  BY <1>1, <1>2 DEF Fits
<1>6. \A t \in T : \E x \in 1 .. n : f[x] = t
  BY <1>1, <1>2, <1>3 DEF Seqs
<1>7. f \in Bijection(1 .. n, T)
  BY <1>4, <1>5, <1>6 DEF Bijection, Injection, IsInjective, Surjection
<1>8. Cardinality(T) = n
  BY <1>7, FS_CountingElements DEF ExistsBijection
<1>9. QED
  BY <1>1, <1>3, <1>8

(* Every unit that can be framed is written once, none is left behind when  *)
(* the input ends, and all in the order of their decoding times, whatever   *)
(* the MPTs, however the units of the assets mix, for any reorder window    *)
(* and intervals (mux.go, push, drain and emit).                            *)
THEOREM UnitsInOrder == Spec => []InOrder
<1>1. OrderInv => InOrder
  <2>1. SUFFICES ASSUME OrderInv PROVE InOrder
    OBVIOUS
  <2>2. PICK out : out = air.out
    OBVIOUS
  <2>3. Cardinality(Seqs(out)) = Len(out)
    BY <2>1, <2>2, OutCount DEF OrderInv, Right, IsAir
  <2>4. Seqs(out) \cup Waiting(m.queue) = pushed
    BY <2>1, <2>2 DEF OrderInv, Right
  <2>5. ended => m.queue = {}
    BY <2>1 DEF OrderInv
  <2>6. InTime(out, late)
    BY <2>1, <2>2 DEF OrderInv, Right
  <2>7. QED
    BY <2>2, <2>3, <2>4, <2>5, <2>6 DEF InOrder, InTime, Seqs, Waiting, Earlier
<1>2. QED
  BY <1>1, OrderInit, OrderNext, PTL DEF Spec
=============================================================================
