----------------------------- MODULE MediaProofs -----------------------------
(***************************************************************************)
(* Proofs about the packets of one asset, for any sender, any losses,      *)
(* repetitions and damages, and any range of sequence numbers: what the    *)
(* reassembly hands over, what is recorded of scrambled media, and what is *)
(* made of the units of video and audio.                                   *)
(***************************************************************************)
EXTENDS MediaPath, FiniteSetTheorems, SequenceTheorems, TLAPS

Length == Len(Packets)

\* packet i continues the unit of packet i - 1
Continues(i) == Packets[i].frag \in {"middle", "last"}

\* the unit of packet i is to be continued
Unfinished(i) == Packets[i].frag \in {"first", "middle"}

\* a piece of packet i as it is received
Cells ==
  UNION {{[at |-> <<i, k>>, is |-> Packets[i].pieces[k]] : k \in DOMAIN Packets[i].pieces} :
           i \in 1 .. Length}

States ==
  [ haveSeq : BOOLEAN, expectSeq : Nat, active : BOOLEAN, orphan : BOOLEAN, mpu : Nat,
    rap : BOOLEAN, buf : Seq(Cells) ]

Units ==
  [loss : BOOLEAN, lost : Nat, mpu : Nat, rap : BOOLEAN, timed : BOOLEAN, data : Seq(Cells)]

WholeUnits == {u \in Units : ~ u.loss => WholeUnit(u)}
-----------------------------------------------------------------------------
(* The inductive invariants.                                               *)
TypeOK ==
  /\ stream \in Streams
  /\ sent \in 0 .. Length
  /\ asm \in States
  /\ net \in [ lost : Nat, late : Nat, scrambled : SUBSET (1 .. sent),
               malformed : SUBSET (1 .. sent), described : Nat ]
  /\ heard \in SUBSET (1 .. sent)
  /\ raw \in [prefix : SUBSET (1 .. sent), poisoned : BOOLEAN]
  /\ kept \in SUBSET (1 .. sent)

\* the sequence number after that of packet h
NumberAfter(h) == Wrap(FirstSeq + h + 1)

\* the pieces buffered are those of the packets up to the h-th, from a first one on
Joining(st, h) ==
  LET n == Len(st.buf) IN
  /\ n \in 1 .. h
  /\ Packets[h - n + 1].frag = "first"
  /\ st.mpu = Packets[h - n + 1].mpu
  /\ \A k \in 1 .. n : st.buf[k].at[1] = h - n + k
  /\ \A k \in 2 .. n : Packets[h - n + k].frag = "middle"

\* the h-th packet is the furthest one that the reassembler has seen
Listens(st, h) ==
  /\ st.haveSeq <=> h # 0
  /\ st.haveSeq => st.expectSeq = NumberAfter(h)
  /\ st.active => h # 0 /\ Joining(st, h)

AsmInv ==
  /\ \E h \in 0 .. sent : Listens(asm, h)
  /\ given \in Seq(WholeUnits)

\* packet x of the unit in progress, not recorded yet, is held back
HeldBack ==
  \A x \in heard \ net.malformed :
    (Unfinished(sent) /\ \A y \in x + 1 .. sent : Continues(y)) => x \in kept \cup raw.prefix

\* the unit in progress has a scrambled packet
Poisoned ==
  \A i \in net.scrambled :
    (Unfinished(sent) /\ \A y \in i + 1 .. sent : Continues(y)) => raw.poisoned

RawInv ==
  Kind # "application" =>
    /\ net.scrambled \subseteq kept
    /\ net.late = 0 => HeldBack /\ Poisoned /\ RawKept
-----------------------------------------------------------------------------
(* What a sender sends.                                                    *)
LEMMA PacketType ==
  ASSUME TypeOK, NEW i \in 1 .. Length
  PROVE  /\ Length \in Nat /\ DOMAIN Packets = 1 .. Length /\ 2 * Length <= SeqRange
         /\ Packets[i].frag \in {"whole", "first", "middle", "last"}
         /\ Packets[i].mfu \in BOOLEAN /\ Packets[i].timed \in BOOLEAN
         /\ Packets[i].rap \in BOOLEAN /\ Packets[i].mpu \in Nat
         /\ Packets[i].frag # "whole" => Packets[i].mfu /\ Packets[i].timed
         /\ Len(Packets[i].pieces) \in Nat \ {0}
         /\ DOMAIN Packets[i].pieces = 1 .. Len(Packets[i].pieces)
         /\ i < Length => (Unfinished(i) <=> Continues(i + 1))
BY StreamsAssumption, SMTT(30) DEF TypeOK, Length, Packets, Unfinished, Continues

LEMMA LengthType ==
  ASSUME TypeOK
  PROVE  /\ Length \in Nat /\ DOMAIN Packets = 1 .. Length /\ 2 * Length <= SeqRange
         /\ FirstSeq \in 0 .. SeqRange - 1 /\ SeqRange \in Nat /\ SeqRange > 1
BY StreamsAssumption, SeqRangeAssumption DEF TypeOK, Length, Packets

\* the packet as the reassembler sees it
LEMMA ReceivedType ==
  ASSUME TypeOK, NEW i \in 1 .. Length, NEW s \in BOOLEAN, NEW m \in BOOLEAN,
         NEW p, p = Received(i, s, m)
  PROVE  /\ p.seq = Wrap(FirstSeq + i) /\ p.scrambled = s /\ p.malformed = m
         /\ p.mfu = Packets[i].mfu /\ p.timed = Packets[i].timed /\ p.frag = Packets[i].frag
         /\ p.mpu = Packets[i].mpu /\ p.rap = Packets[i].rap
         /\ Len(p.pieces) \in Nat \ {0} /\ p.pieces \in Seq(Cells)
         /\ \A k \in 1 .. Len(p.pieces) : p.pieces[k].at[1] = i
<1>1. PICK n \in Nat \ {0} : n = Len(Packets[i].pieces) /\ DOMAIN Packets[i].pieces = 1 .. n
  BY PacketType
<1>2. PICK pieces : pieces = [k \in 1 .. n |-> [at |-> <<i, k>>, is |-> Packets[i].pieces[k]]]
  OBVIOUS
<1>3. p.pieces = pieces
  BY <1>1, <1>2 DEF Received
<1>4. ASSUME NEW k \in 1 .. n
      PROVE  pieces[k] \in Cells /\ pieces[k].at[1] = i
  <2>1. pieces[k] = [at |-> <<i, k>>, is |-> Packets[i].pieces[k]]
    BY <1>2
  <2>2. pieces[k].at[1] = i
    BY <2>1
  <2>3. pieces[k] \in Cells
    BY <1>1, <2>1 DEF Cells
  <2>4. QED
    BY <2>2, <2>3
<1>5. pieces \in Seq(Cells) /\ Len(pieces) = n
  BY <1>2, <1>4
<1>6. QED
  BY <1>1, <1>3, <1>4, <1>5 DEF Received

\* which packet a number is of, less than half of the range away: a packet
\* is late when it is not after the furthest one seen
LEMMA Differences ==
  ASSUME TypeOK, NEW h \in 1 .. Length, NEW i \in 1 .. Length,
         NEW diff, diff = SeqDiff(Wrap(FirstSeq + i), NumberAfter(h))
  PROVE  /\ diff \in Nat
         /\ (diff = 0) => (i = h + 1)
         /\ (2 * diff >= SeqRange) <=> (i <= h)
<1>1. PICK n \in Nat : n = Length
  BY LengthType
<1>2. /\ FirstSeq \in Nat /\ FirstSeq < SeqRange /\ SeqRange \in Nat /\ 2 * n <= SeqRange
      /\ i \in 1 .. n /\ h \in 1 .. n
  BY <1>1, LengthType
<1>3. PICK a : a = Wrap(FirstSeq + i)
  OBVIOUS
<1>4. PICK b : b = NumberAfter(h)
  OBVIOUS
<1>5. /\ a = IF FirstSeq + i >= SeqRange THEN FirstSeq + i - SeqRange ELSE FirstSeq + i
      /\ b = IF FirstSeq + h + 1 >= SeqRange THEN FirstSeq + h + 1 - SeqRange
              ELSE FirstSeq + h + 1
  BY <1>2, <1>3, <1>4 DEF Wrap, NumberAfter
<1>6. diff = IF a >= b THEN a - b ELSE a - b + SeqRange
  BY <1>3, <1>4 DEF SeqDiff
<1>7. QED
  BY <1>2, <1>5, <1>6

LEMMA Successor ==
  ASSUME TypeOK, NEW i \in 1 .. Length
  PROVE  SeqAfter(Wrap(FirstSeq + i)) = NumberAfter(i) /\ NumberAfter(i) \in Nat
BY LengthType DEF SeqAfter, Wrap, NumberAfter
-----------------------------------------------------------------------------
(* The steps of the reassembly.                                            *)

\* a result of the reassembler for packet i
Tracks(r, i) ==
  /\ r = Gives(r.st, r.out) /\ r.st \in States /\ r.out \in Seq(WholeUnits)
  /\ r.st.haveSeq /\ r.st.expectSeq = NumberAfter(i)

LEMMA LossIsWhole ==
  ASSUME NEW n \in Nat
  PROVE  LossUnit(n) \in WholeUnits
BY DEF LossUnit, WholeUnits, Units

LEMMA NotActive ==
  ASSUME NEW r, NEW i, Tracks(r, i), NEW q, NEW st, NEW out, q = Gives(st, out),
         st \in States, st.haveSeq = r.st.haveSeq, st.expectSeq = r.st.expectSeq,
         st.active = FALSE, out \in Seq(WholeUnits)
  PROVE  Tracks(q, i) /\ ~ q.st.active
BY DEF Tracks, Gives

LEMMA AddsLoss ==
  ASSUME NEW out \in Seq(WholeUnits)
  PROVE  /\ Append(out, LossUnit(0)) \in Seq(WholeUnits)
         /\ <<LossUnit(0)>> \in Seq(WholeUnits)
BY LossIsWhole

LEMMA WithLossTracks ==
  ASSUME NEW r, NEW i, Tracks(r, i)
  PROVE  Tracks(WithLoss(r), i) /\ ~ WithLoss(r).st.active
<1>1. PICK st : st = [r.st EXCEPT !.active = FALSE]
  OBVIOUS
<1>2. st \in States /\ st.haveSeq = r.st.haveSeq /\ st.expectSeq = r.st.expectSeq /\ st.active = FALSE
  BY <1>1 DEF Tracks, States
<1>3. PICK out : WithLoss(r) = Gives(st, out) /\ out \in Seq(WholeUnits)
  BY <1>1, AddsLoss DEF WithLoss, Tracks
<1>4. QED
  BY <1>2, <1>3, NotActive, Zenon

LEMMA RestartedTracks ==
  ASSUME NEW r, NEW i, Tracks(r, i)
  PROVE  Tracks(Restarted(r), i) /\ ~ Restarted(r).st.active
<1>1. PICK st : st = [r.st EXCEPT !.active = FALSE, !.orphan = FALSE]
  OBVIOUS
<1>2. st \in States /\ st.haveSeq = r.st.haveSeq /\ st.expectSeq = r.st.expectSeq /\ st.active = FALSE
  BY <1>1 DEF Tracks, States
<1>3. PICK out : Restarted(r) = Gives(st, out) /\ out \in Seq(WholeUnits)
  BY <1>1, AddsLoss DEF Restarted, Tracks
<1>4. QED
  BY <1>2, <1>3, NotActive, Zenon

LEMMA OverflowedTracks ==
  ASSUME NEW r, NEW i, Tracks(r, i)
  PROVE  Tracks(Overflowed(r), i) /\ ~ Overflowed(r).st.active
<1>1. PICK st : st = [r.st EXCEPT !.orphan = TRUE, !.buf = <<>>, !.active = FALSE]
  OBVIOUS
<1>2. st \in States /\ st.haveSeq = r.st.haveSeq /\ st.expectSeq = r.st.expectSeq /\ st.active = FALSE
  <2>1. <<>> \in Seq(Cells)
    OBVIOUS
  <2>2. PICK C : C = Seq(Cells)
    OBVIOUS
  <2>3. r.st \in [haveSeq : BOOLEAN, expectSeq : Nat, active : BOOLEAN, orphan : BOOLEAN,
                  mpu : Nat, rap : BOOLEAN, buf : C]
    BY <2>2 DEF Tracks, States
  <2>4. <<>> \in C
    BY <2>1, <2>2, Zenon
  <2>5. st \in [haveSeq : BOOLEAN, expectSeq : Nat, active : BOOLEAN, orphan : BOOLEAN,
                mpu : Nat, rap : BOOLEAN, buf : C]
    BY <1>1, <2>3, <2>4
  <2>6. st \in States
    BY <2>2, <2>5, Zenon DEF States
  <2>7. QED
    BY <1>1, <2>3, <2>6
<1>3. PICK out : Overflowed(r) = Gives(st, out) /\ out \in Seq(WholeUnits)
  <2>1. [[r.st EXCEPT !.orphan = TRUE, !.buf = <<>>] EXCEPT !.active = FALSE] = st
    BY <1>1 DEF Tracks, States
  <2>2. r.out \in Seq(WholeUnits)
    BY DEF Tracks
  <2>3. QED
    BY <2>1, <2>2, AddsLoss DEF Overflowed, WithLoss, Gives
<1>4. QED
  BY <1>2, <1>3, NotActive, Zenon

\* a change of what only the count of orphans needs
LEMMA OrphanTracks ==
  ASSUME NEW r, NEW i, Tracks(r, i), ~ r.st.active, NEW b \in BOOLEAN,
         NEW q, q = [r EXCEPT !.st.orphan = b]
  PROVE  Tracks(q, i) /\ ~ q.st.active
<1>1. PICK st : st = [r.st EXCEPT !.orphan = b]
  OBVIOUS
<1>2. /\ st \in States /\ st.haveSeq = r.st.haveSeq /\ st.expectSeq = r.st.expectSeq
      /\ st.active = FALSE
  BY <1>1 DEF Tracks, States
<1>3. [r EXCEPT !.st.orphan = b] = Gives(st, r.out) /\ r.out \in Seq(WholeUnits)
  BY <1>1 DEF Tracks, Gives
<1>4. QED
  BY <1>2, <1>3, NotActive, Zenon

LEMMA AppendUnit ==
  ASSUME NEW out \in Seq(WholeUnits), NEW u \in WholeUnits
  PROVE  Append(out, u) \in Seq(WholeUnits)
OBVIOUS

\* the unit that is being joined is not at its end
LEMMA JoiningUnfinished ==
  ASSUME TypeOK, NEW st, NEW h \in Nat, Joining(st, h)
  PROVE  Unfinished(h)
<1>1. PICK n \in 1 .. h : n = Len(st.buf)
  BY DEF Joining
<1>2. /\ Packets[h - n + 1].frag = "first"
      /\ \A k \in 2 .. n : Packets[h - n + k].frag = "middle"
  BY <1>1, Zenon DEF Joining
<1>3. CASE n = 1
  <2>1. h - n + 1 = h
    BY <1>3
  <2>2. QED
    BY <1>2, <2>1 DEF Unfinished
<1>4. CASE n # 1
  <2>1. n \in 2 .. n /\ h - n + n = h
    BY <1>4
  <2>2. Packets[h].frag = "middle"
    BY <1>2, <2>1, Zenon
  <2>3. QED
    BY <2>2 DEF Unfinished
<1>5. QED
  BY <1>3, <1>4

\* the number of a packet that is not late: all between was lost
LEMMA TrackedTracks ==
  ASSUME TypeOK, NEW h \in 0 .. Length, NEW i \in 1 .. Length, h < i,
         NEW st \in States, Listens(st, h), NEW p, p.seq = Wrap(FirstSeq + i)
  PROVE  /\ Tracks(Tracked(st, p), i)
         /\ Tracked(st, p).st.active => i > 1 /\ Joining(Tracked(st, p).st, i - 1)
<1>1. PICK n : n = Skipped(st, p)
  OBVIOUS
<1>2. n \in Nat /\ (st.active /\ n = 0 => h # 0 /\ i = h + 1)
  <2>1. CASE h = 0
    BY <1>1, <2>1 DEF Listens, Skipped
  <2>2. CASE h # 0
    <3>1. h \in 1 .. Length /\ Length \in Nat
      BY <2>2, LengthType
    <3>2. n = SeqDiff(Wrap(FirstSeq + i), NumberAfter(h))
      BY <1>1, <2>2 DEF Listens, Skipped
    <3>3. n \in Nat /\ ((n = 0) => (i = h + 1))
      BY <3>1, <3>2, Differences, Zenon
    <3>4. QED
      BY <2>2, <3>3
  <2>3. QED
    BY <2>1, <2>2
<1>3. PICK s : s = [st EXCEPT !.haveSeq = TRUE, !.expectSeq = SeqAfter(p.seq),
                              !.active = @ /\ n = 0]
  OBVIOUS
<1>4. SeqAfter(p.seq) = NumberAfter(i) /\ NumberAfter(i) \in Nat
  BY Successor
<1>5. /\ s \in States /\ s.haveSeq /\ s.expectSeq = NumberAfter(i)
      /\ s.buf = st.buf /\ s.mpu = st.mpu /\ (s.active => st.active /\ n = 0)
  BY <1>3, <1>4 DEF States
<1>6. PICK out : out = IF n = 0 THEN <<>> ELSE <<LossUnit(n)>>
  OBVIOUS
<1>7. out \in Seq(WholeUnits)
  BY <1>2, <1>6, LossIsWhole
<1>8. Tracked(st, p) = Gives(s, out)
  BY <1>1, <1>3, <1>6 DEF Tracked
<1>9. Tracks(Gives(s, out), i) /\ Gives(s, out).st = s
  BY <1>5, <1>7 DEF Tracks, Gives
<1>10. ASSUME s.active
       PROVE  i > 1 /\ Joining(s, i - 1)
  <2>1. h # 0 /\ i = h + 1 /\ Joining(st, h)
    BY <1>2, <1>5, <1>10 DEF Listens
  <2>2. i - 1 = h /\ i > 1
    BY <2>1
  <2>3. Joining(s, h)
    BY <1>5, <2>1 DEF Joining
  <2>4. QED
    BY <2>2, <2>3, Zenon
<1>11. QED
  BY <1>8, <1>9, <1>10, Zenon

\* the units of a packet that come whole
LEMMA WholeUnitIs ==
  ASSUME TypeOK, NEW i \in 1 .. Length, NEW c \in Cells, c.at[1] = i,
         Packets[i].timed => Packets[i].frag = "whole"
  PROVE  DataUnit(Packets[i].mpu, Packets[i].rap, Packets[i].timed, <<c>>) \in WholeUnits
<1>1. PICK u : u = DataUnit(Packets[i].mpu, Packets[i].rap, Packets[i].timed, <<c>>)
  OBVIOUS
<1>2. /\ u.data = <<c>> /\ Len(u.data) = 1 /\ u.data[1] = c
      /\ u.mpu = Packets[i].mpu
  BY <1>1 DEF DataUnit
<1>3. WholeUnit(u)
  BY <1>2 DEF WholeUnit
<1>4. u \in Units
  BY <1>1, PacketType DEF DataUnit, Units
<1>5. QED
  BY <1>1, <1>3, <1>4 DEF WholeUnits

LEMMA TakeWholeTracks ==
  ASSUME TypeOK, NEW i \in 1 .. Length, NEW s \in BOOLEAN, NEW m \in BOOLEAN,
         NEW p, p = Received(i, s, m), p.timed => p.frag = "whole",
         NEW r, Tracks(r, i)
  PROVE  Tracks(TakeWhole(r, p), i) /\ TakeWhole(r, p).st = r.st
<1>1. PICK n \in Nat : n = Len(p.pieces)
  BY ReceivedType
<1>2. p.pieces \in Seq(Cells) /\ \A k \in 1 .. n : p.pieces[k].at[1] = i
  BY <1>1, ReceivedType
<1>3. PICK out : out = [k \in 1 .. n |-> DataUnit(p.mpu, p.rap, p.timed, <<p.pieces[k]>>)]
  OBVIOUS
<1>4. ASSUME NEW k \in 1 .. n
      PROVE  DataUnit(p.mpu, p.rap, p.timed, <<p.pieces[k]>>) \in WholeUnits
  <2>1. PICK c \in Cells : c = p.pieces[k] /\ c.at[1] = i
    BY <1>1, <1>2
  <2>2. p.mpu = Packets[i].mpu /\ p.rap = Packets[i].rap /\ p.timed = Packets[i].timed
        /\ p.frag = Packets[i].frag
    BY ReceivedType
  <2>3. QED
    BY <2>1, <2>2, WholeUnitIs, Zenon
<1>5. out \in Seq(WholeUnits)
  BY <1>3, <1>4
<1>6. r.out \o out \in Seq(WholeUnits)
  BY <1>5 DEF Tracks
<1>7. TakeWhole(r, p) = Gives(r.st, r.out \o out)
  BY <1>1, <1>3 DEF TakeWhole
<1>8. QED
  BY <1>6, <1>7 DEF Tracks, Gives

LEMMA TakeFirstTracks ==
  ASSUME TypeOK, NEW i \in 1 .. Length, NEW s \in BOOLEAN, NEW m \in BOOLEAN,
         NEW p, p = Received(i, s, m), p.frag = "first",
         NEW r, Tracks(r, i), ~ r.st.active
  PROVE  /\ Tracks(TakeFirst(r, p), i)
         /\ TakeFirst(r, p).st.active => Joining(TakeFirst(r, p).st, i)
<1>1. CASE ~ Fits(<<>>)
  BY <1>1, OverflowedTracks DEF TakeFirst
<1>2. CASE Fits(<<>>)
  <2>1. PICK c \in Cells : c = p.pieces[1] /\ c.at[1] = i
    BY ReceivedType
  <2>2. /\ p.mpu = Packets[i].mpu /\ p.rap = Packets[i].rap /\ p.frag = Packets[i].frag
        /\ p.mpu \in Nat /\ p.rap \in BOOLEAN
    BY ReceivedType, PacketType
  <2>3. PICK st : st = [r.st EXCEPT !.active = TRUE, !.mpu = p.mpu, !.rap = p.rap, !.buf = <<c>>]
    OBVIOUS
  <2>4. <<c>> \in Seq(Cells) /\ Len(<<c>>) = 1 /\ <<c>>[1] = c
    OBVIOUS
  <2>5. /\ st \in States /\ st.haveSeq = r.st.haveSeq /\ st.expectSeq = r.st.expectSeq
        /\ st.buf = <<c>> /\ st.mpu = p.mpu
    BY <2>2, <2>3, <2>4 DEF Tracks, States
  <2>6. TakeFirst(r, p) = Gives(st, r.out)
    BY <1>2, <2>1, <2>3 DEF TakeFirst
  <2>7. Tracks(Gives(st, r.out), i) /\ Gives(st, r.out).st = st
    BY <2>5 DEF Tracks, Gives
  <2>8. i \in Nat /\ i >= 1 /\ i - 1 + 1 = i
    BY LengthType
  <2>9. Joining(st, i)
    BY <2>1, <2>2, <2>4, <2>5, <2>8 DEF Joining
  <2>10. QED
    BY <2>6, <2>7, <2>9, Zenon
<1>3. QED
  BY <1>1, <1>2

LEMMA TakeOrphanTracks ==
  ASSUME TypeOK, NEW i \in 1 .. Length, NEW p, NEW r, Tracks(r, i), ~ r.st.active
  PROVE  Tracks(TakeOrphan(r, p), i) /\ ~ TakeOrphan(r, p).st.active
<1>1. PICK told : told = IF r.st.orphan THEN r ELSE WithLoss(r)
  OBVIOUS
<1>2. Tracks(told, i) /\ ~ told.st.active
  BY <1>1, WithLossTracks
<1>3. PICK b \in BOOLEAN : b = (p.frag = "middle")
  OBVIOUS
<1>4. TakeOrphan(r, p) = [told EXCEPT !.st.orphan = b]
  BY <1>1, <1>3 DEF TakeOrphan
<1>5. QED
  BY <1>2, <1>4, OrphanTracks, Zenon

\* the n fragments joined, and packet i as the next one
JoinedTo(st, buf, n, i) ==
  /\ buf \in Seq(Cells) /\ Len(buf) = n + 1
  /\ \A k \in 1 .. n + 1 : buf[k].at[1] = i - 1 - n + k
  /\ Packets[i - 1 - n + 1].frag = "first" /\ st.mpu = Packets[i - 1 - n + 1].mpu
  /\ \A k \in 2 .. n : Packets[i - 1 - n + k].frag = "middle"

LEMMA Joined ==
  ASSUME TypeOK, NEW i \in 1 .. Length, i > 1, NEW st \in States, Joining(st, i - 1),
         NEW c \in Cells, c.at[1] = i, NEW buf, buf = Append(st.buf, c)
  PROVE  \E n \in 1 .. i - 1 : JoinedTo(st, buf, n, i)
<1>1. i \in Nat
  BY LengthType
<1>2. st.buf \in Seq(Cells)
  BY DEF States
<1>3. PICK n \in 1 .. i - 1 : n = Len(st.buf)
  BY DEF Joining
<1>4. /\ Packets[i - 1 - n + 1].frag = "first" /\ st.mpu = Packets[i - 1 - n + 1].mpu
      /\ \A k \in 1 .. n : st.buf[k].at[1] = i - 1 - n + k
      /\ \A k \in 2 .. n : Packets[i - 1 - n + k].frag = "middle"
  BY <1>3, Zenon DEF Joining
<1>5. /\ buf \in Seq(Cells) /\ Len(buf) = n + 1 /\ buf[n + 1] = c
      /\ \A k \in 1 .. n : buf[k] = st.buf[k]
  BY <1>2, <1>3
<1>6. \A k \in 1 .. n + 1 : buf[k].at[1] = i - 1 - n + k
  <2>1. TAKE k \in 1 .. n + 1
  <2>2. CASE k = n + 1
    <3>1. i - 1 - n + (n + 1) = i
      BY <1>1
    <3>2. QED
      BY <1>5, <2>2, <3>1, Zenon
  <2>3. CASE k # n + 1
    BY <1>1, <1>4, <1>5, <2>3
  <2>4. QED
    BY <2>2, <2>3
<1>7. QED
  BY <1>4, <1>5, <1>6, Zenon DEF JoinedTo

LEMMA JoinedUnit ==
  ASSUME TypeOK, NEW i \in 1 .. Length, NEW n \in 1 .. i - 1, NEW st \in States, NEW buf,
         JoinedTo(st, buf, n, i), Packets[i].frag = "last"
  PROVE  DataUnit(st.mpu, st.rap, TRUE, buf) \in WholeUnits
<1>1. PICK u : u = DataUnit(st.mpu, st.rap, TRUE, buf)
  OBVIOUS
<1>2. u.data = buf /\ u.mpu = st.mpu
  BY <1>1 DEF DataUnit
<1>3. PICK a : a = i - 1 - n
  OBVIOUS
<1>4. /\ a \in Nat /\ a + (n + 1) = i /\ i \in Nat
      /\ n + 1 > 0 /\ n + 1 # 1 /\ n + 1 - 1 = n /\ 1 \in 1 .. n + 1 /\ n + 1 \in 1 .. n + 1
  BY <1>3, LengthType
<1>5. /\ buf \in Seq(Cells) /\ Len(u.data) = n + 1
      /\ \A k \in 1 .. n + 1 : u.data[k].at[1] = a + k
      /\ Packets[a + 1].frag = "first" /\ u.mpu = Packets[a + 1].mpu
      /\ \A k \in 2 .. n : Packets[a + k].frag = "middle"
  BY <1>2, <1>3, Zenon DEF JoinedTo
<1>6. u.data[1].at[1] = a + 1 /\ u.data[n + 1].at[1] = i
  <2>1. u.data[n + 1].at[1] = a + (n + 1) /\ u.data[1].at[1] = a + 1
    BY <1>4, <1>5, Zenon
  <2>2. QED
    BY <1>4, <2>1, Zenon
<1>7. \A k \in 1 .. n + 1 : u.data[k].at[1] = u.data[1].at[1] + k - 1
  BY <1>4, <1>5, <1>6
<1>8. \A k \in 2 .. n + 1 - 1 : Packets[u.data[k].at[1]].frag = "middle"
  <2>1. \A k \in 2 .. n : k \in 1 .. n + 1
    BY <1>4
  <2>2. \A k \in 2 .. n : Packets[u.data[k].at[1]].frag = "middle"
    BY <1>5, <2>1, Zenon
  <2>3. QED
    BY <1>4, <2>2, Zenon
<1>9. WholeUnit(u)
  <2>1. Len(u.data) = n + 1 /\ u.mpu = Packets[u.data[1].at[1]].mpu
    BY <1>5, <1>6, Zenon
  <2>2. /\ Packets[u.data[1].at[1]].frag = "first"
        /\ Packets[u.data[Len(u.data)].at[1]].frag = "last"
    BY <1>5, <1>6, <2>1, Zenon
  <2>3. Len(u.data) > 0 /\ Len(u.data) # 1
    BY <1>4, <2>1
  <2>4. \A k \in 1 .. Len(u.data) : u.data[k].at[1] = u.data[1].at[1] + k - 1
    BY <1>7, <2>1
  <2>5. \A k \in 2 .. Len(u.data) - 1 : Packets[u.data[k].at[1]].frag = "middle"
    BY <1>8, <2>1
  <2>6. QED
    BY <2>1, <2>2, <2>3, <2>4, <2>5, Zenon DEF WholeUnit
<1>10. u \in Units
  BY <1>1, <1>5 DEF DataUnit, Units, States
<1>11. QED
  BY <1>1, <1>9, <1>10 DEF WholeUnits

LEMMA JoiningMore ==
  ASSUME TypeOK, NEW i \in 1 .. Length, NEW n \in 1 .. i - 1, NEW st, NEW buf, NEW next,
         JoinedTo(st, buf, n, i), Packets[i].frag = "middle",
         next.buf = buf, next.mpu = st.mpu
  PROVE  Joining(next, i)
<1>1. /\ i \in Nat /\ n + 1 \in 1 .. i /\ i - (n + 1) + 1 = i - 1 - n + 1
      /\ \A k \in 1 .. n + 1 : i - (n + 1) + k = i - 1 - n + k
      /\ i - (n + 1) + (n + 1) = i
  BY LengthType
<1>2. /\ Len(buf) = n + 1
      /\ \A k \in 1 .. n + 1 : buf[k].at[1] = i - 1 - n + k
      /\ Packets[i - 1 - n + 1].frag = "first" /\ st.mpu = Packets[i - 1 - n + 1].mpu
      /\ \A k \in 2 .. n : Packets[i - 1 - n + k].frag = "middle"
  BY Zenon DEF JoinedTo
<1>3. /\ Packets[i - (n + 1) + 1].frag = "first"
      /\ next.mpu = Packets[i - (n + 1) + 1].mpu
  BY <1>1, <1>2, Zenon
<1>4. \A k \in 1 .. n + 1 : next.buf[k].at[1] = i - (n + 1) + k
  BY <1>1, <1>2, Zenon
<1>5. \A k \in 2 .. n + 1 : Packets[i - (n + 1) + k].frag = "middle"
  <2>1. TAKE k \in 2 .. n + 1
  <2>2. CASE k = n + 1
    BY <1>1, <2>2, Zenon
  <2>3. CASE k # n + 1
    <3>1. k \in 2 .. n /\ k \in 1 .. n + 1
      BY <1>1, <2>3
    <3>2. QED
      BY <1>1, <1>2, <3>1, Zenon
  <2>4. QED
    BY <2>2, <2>3
<1>6. Len(next.buf) = n + 1
  BY <1>2
<1>7. QED
  BY <1>1, <1>3, <1>4, <1>5, <1>6, Zenon DEF Joining

LEMMA TakeNextTracks ==
  ASSUME TypeOK, NEW i \in 1 .. Length, NEW s \in BOOLEAN, NEW m \in BOOLEAN,
         NEW p, p = Received(i, s, m), p.frag \in {"middle", "last"},
         NEW r, Tracks(r, i), r.st.active => i > 1 /\ Joining(r.st, i - 1)
  PROVE  /\ Tracks(TakeNext(r, p), i)
         /\ TakeNext(r, p).st.active => Joining(TakeNext(r, p).st, i)
<1>1. CASE ~ r.st.active
  <2>1. TakeNext(r, p) = TakeOrphan(r, p)
    BY <1>1 DEF TakeNext
  <2>2. QED
    BY <1>1, <2>1, TakeOrphanTracks, Zenon
<1>2. CASE r.st.active /\ ~ Fits(r.st.buf)
  <2>1. PICK b \in BOOLEAN : b = (p.frag = "middle")
    OBVIOUS
  <2>2. TakeNext(r, p) = [Overflowed(r) EXCEPT !.st.orphan = b]
    BY <1>2, <2>1 DEF TakeNext
  <2>3. QED
    BY <2>2, OverflowedTracks, OrphanTracks, Zenon
<1>3. CASE r.st.active /\ Fits(r.st.buf)
  <2>1. PICK c \in Cells : c = p.pieces[1] /\ c.at[1] = i
    BY ReceivedType
  <2>2. PICK buf : buf = Append(r.st.buf, c)
    OBVIOUS
  <2>3. r.st \in States /\ i > 1 /\ Joining(r.st, i - 1) /\ p.frag = Packets[i].frag
    BY <1>3, ReceivedType DEF Tracks
  <2>4. PICK n \in 1 .. i - 1 : JoinedTo(r.st, buf, n, i)
    BY <2>1, <2>2, <2>3, Joined, Zenon
  <2>5. buf \in Seq(Cells)
    BY <2>4 DEF JoinedTo
  <2>6. CASE p.frag = "middle"
    <3>1. PICK st : st = [r.st EXCEPT !.buf = buf]
      OBVIOUS
    <3>2. TakeNext(r, p) = Gives(st, r.out)
      BY <1>3, <2>1, <2>2, <2>6, <3>1 DEF TakeNext
    <3>3. /\ st \in States /\ st.haveSeq = r.st.haveSeq /\ st.expectSeq = r.st.expectSeq
          /\ st.buf = buf /\ st.mpu = r.st.mpu
      BY <2>3, <2>5, <3>1 DEF States
    <3>4. Tracks(Gives(st, r.out), i) /\ Gives(st, r.out).st = st
      BY <3>3 DEF Tracks, Gives
    <3>5. Joining(st, i)
      BY <2>3, <2>4, <2>6, <3>3, JoiningMore
    <3>6. QED
      BY <3>2, <3>4, <3>5, Zenon
  <2>7. CASE p.frag = "last"
    <3>1. PICK st : st = [r.st EXCEPT !.active = FALSE, !.buf = buf]
      OBVIOUS
    <3>2. PICK u \in WholeUnits : u = DataUnit(r.st.mpu, r.st.rap, TRUE, buf)
      BY <2>3, <2>4, <2>7, JoinedUnit
    <3>3. TakeNext(r, p) = Gives(st, Append(r.out, u))
      BY <1>3, <2>1, <2>2, <2>7, <3>1, <3>2 DEF TakeNext
    <3>4. /\ st \in States /\ st.haveSeq = r.st.haveSeq /\ st.expectSeq = r.st.expectSeq
          /\ st.active = FALSE
      BY <2>3, <2>5, <3>1 DEF States
    <3>5. Append(r.out, u) \in Seq(WholeUnits)
      <4>1. r.out \in Seq(WholeUnits)
        BY Zenon DEF Tracks
      <4>2. QED
        BY <3>2, <4>1, AppendUnit, Zenon
    <3>6. QED
      BY <3>3, <3>4, <3>5, NotActive, Zenon
  <2>8. QED
    BY <2>6, <2>7
<1>4. QED
  BY <1>1, <1>2, <1>3

\* a packet is late when it does not come after all that were seen
LEMMA Late ==
  ASSUME TypeOK, NEW h \in 0 .. Length, NEW i \in 1 .. Length,
         NEW st \in States, Listens(st, h), NEW p, p.seq = Wrap(FirstSeq + i)
  PROVE  IsLate(st, p) <=> i <= h
<1>1. CASE h = 0
  BY <1>1, LengthType DEF Listens, IsLate
<1>2. CASE h # 0
  <2>1. h \in 1 .. Length
    BY <1>2, LengthType
  <2>2. PICK diff : diff = SeqDiff(Wrap(FirstSeq + i), NumberAfter(h))
    OBVIOUS
  <2>3. IsLate(st, p) <=> 2 * diff >= SeqRange
    BY <1>2, <2>2 DEF Listens, IsLate
  <2>4. (2 * diff >= SeqRange) <=> (i <= h)
    BY <2>1, <2>2, Differences
  <2>5. QED
    BY <2>3, <2>4, Zenon
<1>3. QED
  BY <1>1, <1>2

LEMMA PushTracks ==
  ASSUME TypeOK, NEW h \in 0 .. Length, NEW i \in 1 .. Length, h < i,
         NEW st \in States, Listens(st, h), NEW s \in BOOLEAN, NEW m \in BOOLEAN,
         NEW p, p = Received(i, s, m), NEW q, q = PushPacket(st, p)
  PROVE  Tracks(q, i) /\ (q.st.active => Joining(q.st, i))
<1>1. PICK r : r = Tracked(st, p)
  OBVIOUS
<1>2. /\ p.seq = Wrap(FirstSeq + i) /\ p.scrambled = s /\ p.malformed = m
      /\ p.mfu = Packets[i].mfu /\ p.timed = Packets[i].timed /\ p.frag = Packets[i].frag
  BY ReceivedType
<1>3. Tracks(r, i) /\ (r.st.active => i > 1 /\ Joining(r.st, i - 1))
  BY <1>1, <1>2, TrackedTracks, Zenon
<1>4. ~ IsLate(st, p)
  <2>1. ~ i <= h
    BY LengthType
  <2>2. QED
    BY <1>2, <2>1, Late, Zenon
<1>5. /\ p.frag \in {"whole", "first", "middle", "last"}
      /\ p.frag # "whole" => p.mfu /\ p.timed
  BY <1>2, PacketType
<1>6. p.frag = "whole" => ~ r.st.active
  <2>1. SUFFICES ASSUME p.frag = "whole", r.st.active
                 PROVE  FALSE
    OBVIOUS
  <2>2. i > 1 /\ Joining(r.st, i - 1)
    BY <1>3, <2>1
  <2>3. Unfinished(i - 1)
    <3>1. i - 1 \in Nat
      BY LengthType
    <3>2. QED
      BY <2>2, <3>1, JoiningUnfinished, Zenon
  <2>4. i - 1 \in 1 .. Length /\ i - 1 < Length /\ i - 1 + 1 = i
    BY <2>2, LengthType
  <2>5. Unfinished(i - 1) <=> Continues(i - 1 + 1)
    BY <2>4, PacketType, Zenon
  <2>6. Continues(i)
    BY <2>3, <2>4, <2>5, Zenon
  <2>7. QED
    BY <1>2, <2>1, <2>6 DEF Continues
<1>7. CASE s \/ m
  <2>1. q = WithLoss(r)
    BY <1>1, <1>2, <1>4, <1>7 DEF PushPacket
  <2>2. QED
    BY <1>3, <2>1, WithLossTracks, Zenon
<1>8. CASE ~ s /\ ~ m /\ ~ p.mfu
  <2>1. q = r /\ ~ r.st.active
    BY <1>1, <1>2, <1>4, <1>5, <1>6, <1>8 DEF PushPacket
  <2>2. QED
    BY <1>3, <2>1
<1>9. CASE ~ s /\ ~ m /\ p.mfu /\ ~ p.timed
  <2>1. q = TakeWhole(r, p) /\ ~ r.st.active /\ (p.timed => p.frag = "whole")
    BY <1>1, <1>2, <1>4, <1>5, <1>6, <1>9 DEF PushPacket
  <2>2. Tracks(TakeWhole(r, p), i) /\ TakeWhole(r, p).st = r.st
    BY <1>3, <2>1, TakeWholeTracks
  <2>3. QED
    BY <2>1, <2>2
<1>10. CASE ~ s /\ ~ m /\ p.mfu /\ p.timed /\ p.frag = "whole"
  <2>1. q = TakeWhole(Restarted(r), p)
    BY <1>1, <1>2, <1>4, <1>10 DEF PushPacket
  <2>2. Tracks(Restarted(r), i) /\ ~ Restarted(r).st.active
    BY <1>3, RestartedTracks
  <2>3. Tracks(TakeWhole(Restarted(r), p), i) /\ TakeWhole(Restarted(r), p).st = Restarted(r).st
    BY <1>10, <2>2, TakeWholeTracks
  <2>4. QED
    BY <2>1, <2>2, <2>3
<1>11. CASE ~ s /\ ~ m /\ p.mfu /\ p.timed /\ p.frag = "first"
  <2>1. q = TakeFirst(Restarted(r), p)
    BY <1>1, <1>2, <1>4, <1>11 DEF PushPacket
  <2>2. Tracks(Restarted(r), i) /\ ~ Restarted(r).st.active
    BY <1>3, RestartedTracks
  <2>3. QED
    BY <1>11, <2>1, <2>2, TakeFirstTracks, Zenon
<1>12. CASE ~ s /\ ~ m /\ p.mfu /\ p.timed /\ p.frag \in {"middle", "last"}
  <2>1. q = TakeNext(r, p)
    BY <1>1, <1>2, <1>4, <1>12 DEF PushPacket
  <2>2. QED
    BY <1>3, <1>12, <2>1, TakeNextTracks, Zenon
<1>13. QED
  BY <1>2, <1>5, <1>7, <1>8, <1>9, <1>10, <1>11, <1>12
-----------------------------------------------------------------------------
(* The steps of the asset.                                                 *)

\* what the stream says does not change
LEMMA SameStream ==
  ASSUME stream' = stream
  PROVE  /\ Packets' = Packets /\ Length' = Length /\ Kind' = Kind
         /\ States' = States /\ WholeUnits' = WholeUnits
<1>1. Packets' = Packets /\ Length' = Length /\ Kind' = Kind
  BY DEF Packets, Length, Kind
<1>2. Cells' = Cells
  BY <1>1 DEF Cells
<1>3. States' = States /\ Units' = Units
  BY <1>2 DEF States, Units
<1>4. WholeUnits' = WholeUnits
  BY <1>1, <1>3 DEF WholeUnits, WholeUnit
<1>5. QED
  BY <1>1, <1>3, <1>4

LEMMA Initially ==
  ASSUME Init
  PROVE  TypeOK /\ AsmInv /\ RawInv
<1>2. stream \in Streams /\ sent = 0 /\ Length \in Nat
  BY StreamsAssumption DEF Init, Length, Packets
<1>3. <<>> \in Seq(Cells) /\ given \in Seq(WholeUnits)
  BY DEF Init
<1>4. asm \in States
  BY <1>3 DEF Init, NewAsset, States
<1>5. TypeOK
  BY <1>2, <1>4 DEF Init, TypeOK
<1>6. Listens(asm, 0)
  BY DEF Init, NewAsset, Listens
<1>7. AsmInv
  BY <1>2, <1>3, <1>6 DEF AsmInv
<1>8. RawInv
  BY DEF Init, RawInv, HeldBack, Poisoned, RawKept
<1>9. QED
  BY <1>5, <1>7, <1>8

\* the reassembler's part of handleMedia
LEMMA HandleListens ==
  ASSUME TypeOK, AsmInv, NEW i \in 1 .. Length, NEW s \in BOOLEAN, NEW m \in BOOLEAN,
         HandleMedia(i, Received(i, s, m)), sent' \in Nat, sent <= sent', i <= sent'
  PROVE  asm' \in States' /\ AsmInv' /\ heard' \subseteq heard \cup {i}
<1>1. PICK p : p = Received(i, s, m)
  OBVIOUS
<1>2. PICK r : r = PushPacket(asm, p)
  OBVIOUS
<1>3. /\ asm' = r.st /\ given' = r.out /\ stream' = stream
      /\ heard' \subseteq heard \cup {i}
  BY <1>1, <1>2 DEF HandleMedia
<1>4. PICK h \in 0 .. sent : Listens(asm, h)
  BY DEF AsmInv
<1>5. asm \in States /\ given \in Seq(WholeUnits) /\ sent \in 0 .. Length /\ Length \in Nat
  BY LengthType DEF TypeOK, AsmInv
<1>6. h \in 0 .. Length
  BY <1>5
<1>7. p.seq = Wrap(FirstSeq + i)
  BY <1>1, ReceivedType
<1>8. /\ r.st \in States /\ r.out \in Seq(WholeUnits)
      /\ \E g \in 0 .. sent' : Listens(r.st, g)
  <2>1. CASE i <= h
    <3>1. IsLate(asm, p)
      BY <1>4, <1>5, <1>6, <1>7, <2>1, Late, Zenon
    <3>2. r = Gives(asm, <<>>)
      BY <1>2, <3>1 DEF PushPacket
    <3>3. r.st = asm /\ r.out = <<>>
      BY <3>2 DEF Gives
    <3>4. h \in 0 .. sent'
      BY <1>5
    <3>5. QED
      BY <1>4, <1>5, <3>3, <3>4
  <2>2. CASE h < i
    <3>1. Tracks(r, i) /\ (r.st.active => Joining(r.st, i))
      BY <1>1, <1>2, <1>4, <1>5, <1>6, <2>2, PushTracks, Zenon
    <3>2. Listens(r.st, i)
      BY <3>1 DEF Tracks, Listens
    <3>3. i \in 0 .. sent'
      BY <1>5
    <3>4. QED
      BY <3>1, <3>2, <3>3 DEF Tracks
  <2>3. QED
    BY <1>5, <1>6, <2>1, <2>2
<1>9. PICK g \in 0 .. sent' : Listens(r.st, g)
  BY <1>8
<1>10. Listens(asm, g)'
  BY <1>3, <1>9 DEF Listens, Joining, Packets
<1>11. States' = States /\ WholeUnits' = WholeUnits
  BY <1>3, SameStream
<1>12. AsmInv'
  BY <1>3, <1>8, <1>10, <1>11 DEF AsmInv
<1>13. QED
  BY <1>3, <1>8, <1>11, <1>12

\* a step that hands no packet to the reassembler
LEMMA OtherListens ==
  ASSUME TypeOK, AsmInv, UNCHANGED <<stream, asm, given>>, sent' \in Nat, sent <= sent'
  PROVE  asm' \in States' /\ AsmInv'
<1>1. States' = States /\ WholeUnits' = WholeUnits
  BY SameStream
<1>2. PICK h \in 0 .. sent : Listens(asm, h)
  BY DEF AsmInv
<1>3. Listens(asm, h)'
  BY <1>2 DEF Listens, Joining, Packets
<1>4. h \in 0 .. sent'
  BY LengthType DEF TypeOK
<1>5. QED
  BY <1>1, <1>3, <1>4 DEF AsmInv, TypeOK
-----------------------------------------------------------------------------
(* The packets recorded.                                                   *)

\* what becomes of what is held back, and of packet i
Preserved(st, p, i, k) ==
  /\ k.st \in [prefix : SUBSET (st.prefix \cup {i}), poisoned : BOOLEAN]
  /\ k.out \subseteq st.prefix \cup {i}
  /\ p.scrambled => i \in k.out /\ st.prefix \subseteq k.out /\ k.st.poisoned
  /\ p.frag = "middle" => /\ st.prefix \subseteq k.out \cup k.st.prefix
                          /\ st.poisoned => k.st.poisoned
  /\ ~ p.malformed /\ p.frag \in {"first", "middle"} => i \in k.out \cup k.st.prefix
  /\ ~ p.malformed /\ p.frag \in {"middle", "last"} /\ st.poisoned => i \in k.out

LEMMA Preserves ==
  ASSUME NEW st, st.poisoned \in BOOLEAN, NEW i, NEW p,
         p.scrambled \in BOOLEAN, p.malformed \in BOOLEAN, p.mfu \in BOOLEAN, p.timed \in BOOLEAN,
         p.frag \in {"whole", "first", "middle", "last"},
         p.frag # "whole" => p.mfu /\ p.timed
  PROVE  Preserved(st, p, i, PreserveRaw(st, p, i))
<1>1. PICK k : k = PreserveRaw(st, p, i)
  OBVIOUS
<1>2. CASE p.scrambled
  BY <1>1, <1>2 DEF PreserveRaw, Raw, Preserved
<1>3. CASE ~ p.scrambled /\ (p.malformed \/ ~ p.mfu \/ ~ p.timed)
  BY <1>1, <1>3 DEF PreserveRaw, Raw, Preserved
<1>4. CASE ~ p.scrambled /\ ~ p.malformed /\ p.mfu /\ p.timed
  <2>1. CASE p.frag = "whole"
    BY <1>1, <1>4, <2>1 DEF PreserveRaw, Raw, Preserved
  <2>2. CASE p.frag = "first"
    BY <1>1, <1>4, <2>2 DEF PreserveRaw, Raw, Preserved
  <2>3. CASE p.frag = "middle"
    BY <1>1, <1>4, <2>3 DEF PreserveRaw, Raw, Preserved
  <2>4. CASE p.frag = "last"
    BY <1>1, <1>4, <2>4 DEF PreserveRaw, Raw, Preserved
  <2>5. QED
    BY <2>1, <2>2, <2>3, <2>4
<1>5. QED
  BY <1>1, <1>2, <1>3, <1>4

\* the unit that goes on with packet i was to be continued
LEMMA GoesOn ==
  ASSUME TypeOK, NEW i \in 1 .. Length, i = sent + 1, NEW x \in 1 .. sent,
         \A y \in x + 1 .. i : Continues(y)
  PROVE  Continues(i) /\ Unfinished(sent) /\ \A y \in x + 1 .. sent : Continues(y)
<1>1. sent \in 1 .. Length /\ sent < Length /\ i \in x + 1 .. i /\ x + 1 .. sent \subseteq x + 1 .. i
  BY LengthType DEF TypeOK
<1>2. Unfinished(sent) <=> Continues(sent + 1)
  BY <1>1, PacketType
<1>3. QED
  BY <1>1, <1>2

LEMMA RawStep ==
  ASSUME TypeOK, RawInv, Kind # "application", NEW i \in 1 .. Length, i = sent + 1,
         NEW s \in BOOLEAN, NEW m \in BOOLEAN, NEW p, p = Received(i, s, m),
         NEW k, k = PreserveRaw(raw, p, i), stream' = stream,
         raw' = k.st, kept' = kept \cup k.out, heard' \subseteq heard \cup {i}, sent' = i,
         net'.late = net.late, net'.scrambled = net.scrambled \cup (IF s THEN {i} ELSE {}),
         net'.malformed = net.malformed \cup (IF m THEN {i} ELSE {})
  PROVE  RawInv'
<1>1. /\ Packets' = Packets /\ Kind' = Kind
  BY SameStream
<1>2. /\ net.scrambled \subseteq 1 .. sent /\ heard \subseteq 1 .. sent
      /\ raw.poisoned \in BOOLEAN /\ sent \in Nat
  BY LengthType DEF TypeOK
<1>3. /\ p.scrambled = s /\ p.malformed = m /\ p.mfu = Packets[i].mfu
      /\ p.timed = Packets[i].timed /\ p.frag = Packets[i].frag
  BY ReceivedType
<1>4. /\ s => i \in k.out /\ raw.prefix \subseteq k.out /\ k.st.poisoned
      /\ p.frag = "middle" => /\ raw.prefix \subseteq k.out \cup k.st.prefix
                              /\ raw.poisoned => k.st.poisoned
      /\ ~ m /\ p.frag \in {"first", "middle"} => i \in k.out \cup k.st.prefix
      /\ ~ m /\ p.frag \in {"middle", "last"} /\ raw.poisoned => i \in k.out
  <2>1. /\ p.scrambled \in BOOLEAN /\ p.malformed \in BOOLEAN
        /\ p.mfu \in BOOLEAN /\ p.timed \in BOOLEAN
        /\ p.frag \in {"whole", "first", "middle", "last"}
        /\ p.frag # "whole" => p.mfu /\ p.timed
    BY <1>3, PacketType
  <2>2. Preserved(raw, p, i, k)
    BY <1>2, <2>1, Preserves
  <2>3. QED
    BY <1>3, <2>2 DEF Preserved
<1>5. net'.scrambled \subseteq kept'
  BY <1>4 DEF RawInv
<1>6. ASSUME net'.late = 0
      PROVE  HeldBack' /\ Poisoned' /\ RawKept'
  <2>1. HeldBack /\ Poisoned /\ RawKept
    BY <1>6 DEF RawInv
  <2>2. ASSUME NEW x \in heard', x \notin net'.malformed, Unfinished(i),
               \A y \in x + 1 .. i : Continues(y)
        PROVE  x \in kept' \cup raw'.prefix
    <3>1. CASE x = i
      BY <1>3, <1>4, <2>2, <3>1 DEF Unfinished
    <3>2. CASE x # i
      <4>1. x \in heard \ net.malformed /\ x \in 1 .. sent
        BY <1>2, <2>2, <3>2
      <4>2. Continues(i) /\ Unfinished(sent) /\ \A y \in x + 1 .. sent : Continues(y)
        BY <2>2, <4>1, GoesOn
      <4>3. x \in kept \cup raw.prefix
        BY <2>1, <4>1, <4>2 DEF HeldBack
      <4>4. p.frag = "middle"
        BY <1>3, <2>2, <4>2 DEF Unfinished, Continues
      <4>5. QED
        BY <1>4, <4>3, <4>4
    <3>3. QED
      BY <3>1, <3>2
  <2>3. ASSUME NEW j \in net'.scrambled, Unfinished(i), \A y \in j + 1 .. i : Continues(y)
        PROVE  raw'.poisoned
    <3>1. CASE j = i
      BY <1>2, <1>4, <3>1
    <3>2. CASE j # i
      <4>1. j \in net.scrambled /\ j \in 1 .. sent
        BY <1>2, <3>2
      <4>2. Continues(i) /\ Unfinished(sent) /\ \A y \in j + 1 .. sent : Continues(y)
        BY <2>3, <4>1, GoesOn
      <4>3. raw.poisoned
        BY <2>1, <4>1, <4>2 DEF Poisoned
      <4>4. p.frag = "middle"
        BY <1>3, <2>3, <4>2 DEF Unfinished, Continues
      <4>5. QED
        BY <1>4, <4>3, <4>4
    <3>3. QED
      BY <3>1, <3>2
  <2>4. ASSUME NEW j \in net'.scrambled, Packets[j].mfu,
               NEW x \in FragmentsOf(j), x \in heard', x \notin net'.malformed
        PROVE  x \in kept'
    <3>1. CASE x # i /\ j # i
      <4>1. j \in net.scrambled /\ x \in heard /\ x \notin net.malformed
        BY <2>4, <3>1
      <4>2. \A a \in net.scrambled : Packets[a].mfu =>
              \A b : b \in FragmentsOf(a) /\ b \in heard /\ b \notin net.malformed => b \in kept
        BY <1>6, <2>1 DEF RawKept
      <4>3. x \in kept
        BY <2>4, <4>1, <4>2, Zenon
      <4>4. QED
        BY <4>3
    <3>2. CASE x = i /\ j # i
      <4>1. j \in net.scrambled /\ j \in 1 .. sent
        BY <1>2, <3>2
      <4>2. \A y \in j + 1 .. i : Continues(y)
        BY <1>2, <2>4, <3>2, <4>1 DEF FragmentsOf, Continues
      <4>3. Continues(i) /\ Unfinished(sent) /\ \A y \in j + 1 .. sent : Continues(y)
        BY <4>1, <4>2, GoesOn
      <4>4. raw.poisoned
        BY <2>1, <4>1, <4>3 DEF Poisoned
      <4>5. ~ m /\ p.frag \in {"middle", "last"}
        BY <1>3, <2>4, <3>2, <4>3 DEF Continues
      <4>6. QED
        BY <1>4, <3>2, <4>4, <4>5
    <3>3. CASE x # i /\ j = i
      <4>1. x \in heard \ net.malformed /\ x \in 1 .. sent
        BY <1>2, <2>4, <3>3
      <4>2. \A y \in x + 1 .. i : Continues(y)
        BY <1>2, <2>4, <3>3, <4>1 DEF FragmentsOf, Continues
      <4>3. Unfinished(sent) /\ \A y \in x + 1 .. sent : Continues(y)
        BY <4>1, <4>2, GoesOn
      <4>4. x \in kept \cup raw.prefix
        BY <2>1, <4>1, <4>3 DEF HeldBack
      <4>5. s
        BY <1>2, <3>3
      <4>6. QED
        BY <1>4, <4>4, <4>5
    <3>4. CASE x = i /\ j = i
      BY <1>5, <3>4
    <3>5. QED
      BY <3>1, <3>2, <3>3, <3>4
  <2>5. HeldBack'
    BY <1>1, <2>2 DEF HeldBack, Unfinished, Continues
  <2>6. Poisoned'
    BY <1>1, <2>3 DEF Poisoned, Unfinished, Continues
  <2>7. FragmentsOf(0)' = FragmentsOf(0) /\ \A j : FragmentsOf(j)' = FragmentsOf(j)
    BY <1>1 DEF FragmentsOf
  <2>8. RawKept'
    BY <1>1, <1>5, <2>4, <2>7 DEF RawKept
  <2>9. QED
    BY <2>5, <2>6, <2>8
<1>7. QED
  BY <1>5, <1>6 DEF RawInv

\* a late packet, of which only the record can grow
LEMMA RawLate ==
  ASSUME TypeOK, RawInv, UNCHANGED stream, net'.late # 0, net'.scrambled = net.scrambled,
         kept \subseteq kept'
  PROVE  RawInv'
<1>1. Kind' = Kind
  BY SameStream
<1>2. QED
  BY <1>1 DEF RawInv

\* a step in which no packet is recorded, and at most one is sent
LEMMA RawUnsent ==
  ASSUME TypeOK, RawInv, UNCHANGED <<stream, heard, raw, kept>>,
         net'.late = net.late, net'.scrambled = net.scrambled, net'.malformed = net.malformed,
         sent' \in {sent, sent + 1}, sent' <= Length
  PROVE  RawInv'
<1>1. Packets' = Packets /\ Kind' = Kind
  BY SameStream
<1>2. /\ net.scrambled \subseteq 1 .. sent /\ heard \subseteq 1 .. sent /\ sent \in Nat
  BY LengthType DEF TypeOK
<1>3. ASSUME NEW x \in 1 .. sent, Unfinished(sent'), \A y \in x + 1 .. sent' : Continues(y)
      PROVE  Unfinished(sent) /\ \A y \in x + 1 .. sent : Continues(y)
  <2>1. CASE sent' = sent
    BY <1>3, <2>1
  <2>2. CASE sent' = sent + 1
    <3>1. PICK i \in 1 .. Length : i = sent + 1 /\ i = sent'
      BY <1>2, <2>2, LengthType
    <3>2. \A y \in x + 1 .. i : Continues(y)
      BY <1>3, <3>1
    <3>3. QED
      BY <3>1, <3>2, GoesOn
  <2>3. QED
    BY <2>1, <2>2
<1>4. ASSUME Kind # "application", net.late = 0
      PROVE  HeldBack' /\ Poisoned' /\ RawKept'
  <2>1. HeldBack /\ Poisoned /\ RawKept
    BY <1>4 DEF RawInv
  <2>2. ASSUME NEW x \in heard \ net.malformed, Unfinished(sent'),
               \A y \in x + 1 .. sent' : Continues(y)
        PROVE  x \in kept \cup raw.prefix
    <3>1. Unfinished(sent) /\ \A y \in x + 1 .. sent : Continues(y)
      BY <1>2, <1>3, <2>2
    <3>2. QED
      BY <2>1, <2>2, <3>1 DEF HeldBack
  <2>3. ASSUME NEW j \in net.scrambled, Unfinished(sent'), \A y \in j + 1 .. sent' : Continues(y)
        PROVE  raw.poisoned
    <3>1. Unfinished(sent) /\ \A y \in j + 1 .. sent : Continues(y)
      BY <1>2, <1>3, <2>3
    <3>2. QED
      BY <2>1, <2>3, <3>1 DEF Poisoned
  <2>4. HeldBack'
    BY <1>1, <2>2 DEF HeldBack, Unfinished, Continues
  <2>5. Poisoned'
    BY <1>1, <2>3 DEF Poisoned, Unfinished, Continues
  <2>6. RawKept'
    <3>1. \A j : FragmentsOf(j)' = FragmentsOf(j)
      BY <1>1 DEF FragmentsOf
    <3>2. QED
      BY <1>1, <2>1, <3>1 DEF RawKept
  <2>7. QED
    BY <2>4, <2>5, <2>6
<1>5. QED
  BY <1>1, <1>4 DEF RawInv
-----------------------------------------------------------------------------
(* The invariants hold in every step.                                      *)
IInv == TypeOK /\ AsmInv /\ RawInv

LEMMA HandleTypes ==
  ASSUME TypeOK, AsmInv, NEW i \in 1 .. Length, NEW s \in BOOLEAN, NEW m \in BOOLEAN,
         HandleMedia(i, Received(i, s, m)), sent' \in 0 .. Length, sent <= sent', i <= sent',
         net' \in [ lost : Nat, late : Nat, scrambled : SUBSET (1 .. sent'),
                    malformed : SUBSET (1 .. sent'), described : Nat ]
  PROVE  /\ TypeOK' /\ AsmInv' /\ stream' = stream
         /\ heard' \subseteq heard \cup {i} /\ kept \subseteq kept'
         /\ Kind # "application" => \E k : /\ k = PreserveRaw(raw, Received(i, s, m), i)
                                           /\ raw' = k.st /\ kept' = kept \cup k.out
<1>1. PICK p : p = Received(i, s, m)
  OBVIOUS
<1>2. PICK k : k = PreserveRaw(raw, p, i)
  OBVIOUS
<1>3. /\ stream' = stream
      /\ IF Kind = "application" THEN UNCHANGED <<raw, kept>>
         ELSE raw' = k.st /\ kept' = kept \cup k.out
  BY <1>1, <1>2 DEF HandleMedia
<1>4. sent' \in Nat /\ sent \in Nat /\ 1 .. sent \subseteq 1 .. sent' /\ i \in 1 .. sent'
  BY LengthType DEF TypeOK
<1>5. asm' \in States' /\ AsmInv' /\ heard' \subseteq heard \cup {i}
  BY <1>4, HandleListens
<1>6. /\ raw \in [prefix : SUBSET (1 .. sent), poisoned : BOOLEAN]
      /\ heard \subseteq 1 .. sent /\ kept \subseteq 1 .. sent /\ stream \in Streams
  BY DEF TypeOK
<1>7. Preserved(raw, p, i, k)
  <2>1. /\ p.scrambled = s /\ p.malformed = m /\ p.mfu = Packets[i].mfu
        /\ p.timed = Packets[i].timed /\ p.frag = Packets[i].frag
    BY <1>1, ReceivedType
  <2>2. /\ p.scrambled \in BOOLEAN /\ p.malformed \in BOOLEAN
        /\ p.mfu \in BOOLEAN /\ p.timed \in BOOLEAN
        /\ p.frag \in {"whole", "first", "middle", "last"}
        /\ p.frag # "whole" => p.mfu /\ p.timed
    BY <2>1, PacketType
  <2>3. raw.poisoned \in BOOLEAN
    BY <1>6
  <2>4. QED
    BY <1>2, <2>2, <2>3, Preserves
<1>8. raw' \in [prefix : SUBSET (1 .. sent'), poisoned : BOOLEAN] /\ kept' \in SUBSET (1 .. sent')
      /\ kept \subseteq kept'
  <2>1. CASE Kind = "application"
    BY <1>3, <1>4, <1>6, <2>1
  <2>2. CASE Kind # "application"
    <3>1. /\ k.st \in [prefix : SUBSET (raw.prefix \cup {i}), poisoned : BOOLEAN]
          /\ k.out \subseteq raw.prefix \cup {i}
      BY <1>7 DEF Preserved
    <3>2. raw.prefix \cup {i} \subseteq 1 .. sent'
      BY <1>4, <1>6
    <3>3. QED
      BY <1>3, <1>4, <1>6, <2>2, <3>1, <3>2
  <2>3. QED
    BY <2>1, <2>2
<1>9. heard' \in SUBSET (1 .. sent')
  BY <1>4, <1>5, <1>6
<1>10. Length' = Length
  BY <1>3, SameStream
<1>11. TypeOK'
  BY <1>3, <1>5, <1>6, <1>8, <1>9, <1>10 DEF TypeOK
<1>12. QED
  BY <1>1, <1>2, <1>3, <1>5, <1>8, <1>11

\* a step that hands no packet to the reassembler
LEMMA OtherTypes ==
  ASSUME TypeOK, AsmInv, UNCHANGED <<stream, heard, asm, given, raw, kept>>,
         sent' \in 0 .. Length, sent <= sent',
         net' \in [ lost : Nat, late : Nat, scrambled : SUBSET (1 .. sent'),
                    malformed : SUBSET (1 .. sent'), described : Nat ]
  PROVE  TypeOK' /\ AsmInv'
<1>1. sent' \in Nat /\ sent \in Nat /\ 1 .. sent \subseteq 1 .. sent'
  BY LengthType DEF TypeOK
<1>2. asm' \in States' /\ AsmInv'
  BY <1>1, OtherListens
<1>3. Length' = Length
  BY SameStream
<1>4. QED
  BY <1>1, <1>2, <1>3 DEF TypeOK

LEMMA ArriveStep ==
  ASSUME IInv, NEW s \in BOOLEAN, NEW m \in BOOLEAN, Open, sent' = sent + 1,
         net' = [net EXCEPT !.scrambled = @ \cup (IF s THEN {sent + 1} ELSE {}),
                            !.malformed = @ \cup (IF m THEN {sent + 1} ELSE {})],
         HandleMedia(sent + 1, Received(sent + 1, s, m))
  PROVE  IInv'
<1>1. PICK i \in 1 .. Length : i = sent + 1
  BY LengthType DEF IInv, TypeOK, Open, Length
<1>2. TypeOK /\ AsmInv /\ RawInv
  BY DEF IInv
<1>3. /\ sent' \in 0 .. Length /\ sent <= sent' /\ i <= sent' /\ i = sent'
      /\ 1 .. sent \subseteq 1 .. sent' /\ i \in 1 .. sent'
  BY <1>1, <1>2, LengthType DEF TypeOK
<1>4. net \in [ lost : Nat, late : Nat, scrambled : SUBSET (1 .. sent),
                malformed : SUBSET (1 .. sent), described : Nat ]
  BY <1>2 DEF TypeOK
<1>5. /\ net' \in [ lost : Nat, late : Nat, scrambled : SUBSET (1 .. sent'),
                    malformed : SUBSET (1 .. sent'), described : Nat ]
      /\ net'.late = net.late
      /\ net'.scrambled = net.scrambled \cup (IF s THEN {i} ELSE {})
      /\ net'.malformed = net.malformed \cup (IF m THEN {i} ELSE {})
  BY <1>1, <1>3, <1>4
<1>6. HandleMedia(i, Received(i, s, m))
  BY <1>1
<1>7. /\ TypeOK' /\ AsmInv' /\ stream' = stream /\ heard' \subseteq heard \cup {i}
      /\ Kind # "application" => \E k : /\ k = PreserveRaw(raw, Received(i, s, m), i)
                                        /\ raw' = k.st /\ kept' = kept \cup k.out
  BY <1>2, <1>3, <1>5, <1>6, HandleTypes
<1>8. RawInv'
  <2>1. CASE Kind = "application"
    BY <1>7, <2>1, SameStream DEF RawInv
  <2>2. CASE Kind # "application"
    <3>1. PICK p : p = Received(i, s, m)
      OBVIOUS
    <3>2. PICK k : k = PreserveRaw(raw, p, i) /\ raw' = k.st /\ kept' = kept \cup k.out
      BY <1>7, <2>2, <3>1
    <3>3. QED
      BY <1>1, <1>2, <1>3, <1>5, <1>7, <2>2, <3>1, <3>2, RawStep
  <2>3. QED
    BY <2>1, <2>2
<1>9. QED
  BY <1>7, <1>8 DEF IInv

LEMMA LateStep ==
  ASSUME IInv, NEW i \in 1 .. sent, ArriveLate(i)
  PROVE  IInv'
<1>1. TypeOK /\ AsmInv /\ RawInv
  BY DEF IInv
<1>2. PICK s : s = (i \in net.scrambled)
  OBVIOUS
<1>3. PICK m : m = (i \in net.malformed)
  OBVIOUS
<1>4. /\ i \in 1 .. Length /\ sent' = sent /\ sent' \in 0 .. Length /\ sent <= sent' /\ i <= sent'
  BY <1>1, LengthType, SMTT(30) DEF ArriveLate, TypeOK
<1>5. HandleMedia(i, Received(i, s, m)) /\ s \in BOOLEAN /\ m \in BOOLEAN
  BY <1>2, <1>3 DEF ArriveLate
<1>6. net' = [net EXCEPT !.late = @ + 1]
  BY DEF ArriveLate
<1>7. net \in [ lost : Nat, late : Nat, scrambled : SUBSET (1 .. sent),
                malformed : SUBSET (1 .. sent), described : Nat ]
  BY <1>1 DEF TypeOK
<1>8. /\ net' \in [ lost : Nat, late : Nat, scrambled : SUBSET (1 .. sent'),
                    malformed : SUBSET (1 .. sent'), described : Nat ]
      /\ net'.late # 0 /\ net'.scrambled = net.scrambled
  BY <1>4, <1>6, <1>7
<1>9. TypeOK' /\ AsmInv' /\ stream' = stream /\ kept \subseteq kept'
  BY <1>1, <1>4, <1>5, <1>8, HandleTypes
<1>10. RawInv'
  BY <1>1, <1>8, <1>9, RawLate
<1>11. QED
  BY <1>9, <1>10 DEF IInv

LEMMA OtherStep ==
  ASSUME IInv, UNCHANGED <<stream, heard, asm, given, raw, kept>>,
         sent' \in {sent, sent + 1}, sent' <= Length,
         net' \in [ lost : Nat, late : Nat, scrambled : SUBSET (1 .. sent),
                    malformed : SUBSET (1 .. sent), described : Nat ],
         net'.late = net.late, net'.scrambled = net.scrambled, net'.malformed = net.malformed
  PROVE  IInv'
<1>1. TypeOK /\ AsmInv /\ RawInv
  BY DEF IInv
<1>2. sent' \in 0 .. Length /\ sent <= sent' /\ 1 .. sent \subseteq 1 .. sent'
  BY <1>1, LengthType DEF TypeOK
<1>3. net' \in [ lost : Nat, late : Nat, scrambled : SUBSET (1 .. sent'),
                 malformed : SUBSET (1 .. sent'), described : Nat ]
  BY <1>2
<1>4. TypeOK' /\ AsmInv'
  BY <1>1, <1>2, <1>3, OtherTypes
<1>5. RawInv'
  BY <1>1, RawUnsent
<1>6. QED
  BY <1>4, <1>5 DEF IInv

LEMMA Inductive == Spec => []IInv
<1>1. Init => IInv
  BY Initially DEF IInv
<1>2. IInv /\ [Next]_vars => IInv'
  <2>1. SUFFICES ASSUME IInv, [Next]_vars
                 PROVE  IInv'
    OBVIOUS
  <2>2. /\ TypeOK /\ sent \in 0 .. Length /\ Length \in Nat
        /\ net \in [ lost : Nat, late : Nat, scrambled : SUBSET (1 .. sent),
                     malformed : SUBSET (1 .. sent), described : Nat ]
    BY <2>1, LengthType DEF IInv, TypeOK
  <2>3. CASE Arrive
    <3>1. net' = [net EXCEPT !.scrambled = @ \cup (IF FALSE THEN {sent + 1} ELSE {}),
                             !.malformed = @ \cup (IF FALSE THEN {sent + 1} ELSE {})]
      BY <2>2, <2>3 DEF Arrive
    <3>2. QED
      BY <2>1, <2>3, <3>1, ArriveStep DEF Arrive
  <2>4. ASSUME NEW s \in BOOLEAN, ArriveBad(s)
        PROVE  IInv'
    <3>1. PICK m \in BOOLEAN : m = ~ s
      OBVIOUS
    <3>2. net' = [net EXCEPT !.scrambled = @ \cup (IF s THEN {sent + 1} ELSE {}),
                             !.malformed = @ \cup (IF m THEN {sent + 1} ELSE {})]
      BY <2>2, <2>4, <3>1 DEF ArriveBad
    <3>3. QED
      BY <2>1, <2>4, <3>1, <3>2, ArriveStep DEF ArriveBad
  <2>5. ASSUME NEW i \in 1 .. sent, ArriveLate(i)
        PROVE  IInv'
    BY <2>1, <2>5, LateStep
  <2>6. CASE Lose
    <3>1. net' = [net EXCEPT !.lost = @ + 1]
      BY <2>6 DEF Lose
    <3>2. sent' = sent + 1 /\ sent' <= Length
      BY <2>2, <2>6 DEF Lose, Open, Length
    <3>3. /\ net' \in [ lost : Nat, late : Nat, scrambled : SUBSET (1 .. sent),
                        malformed : SUBSET (1 .. sent), described : Nat ]
          /\ net'.late = net.late /\ net'.scrambled = net.scrambled
          /\ net'.malformed = net.malformed
      BY <2>2, <3>1
    <3>4. UNCHANGED <<stream, heard, asm, given, raw, kept>>
      BY <2>6 DEF Lose
    <3>5. QED
      BY <2>1, <3>2, <3>3, <3>4, OtherStep
  <2>7. CASE Redescribe
    <3>1. net' = [net EXCEPT !.described = sent] /\ sent' = sent
      BY <2>7 DEF Redescribe
    <3>2. sent \in Nat /\ sent' <= Length
      BY <2>2, <3>1
    <3>3. /\ net' \in [ lost : Nat, late : Nat, scrambled : SUBSET (1 .. sent),
                        malformed : SUBSET (1 .. sent), described : Nat ]
          /\ net'.late = net.late /\ net'.scrambled = net.scrambled
          /\ net'.malformed = net.malformed
      BY <2>2, <3>1, <3>2
    <3>4. UNCHANGED <<stream, heard, asm, given, raw, kept>>
      BY <2>7 DEF Redescribe
    <3>5. QED
      BY <2>1, <3>1, <3>2, <3>3, <3>4, OtherStep
  <2>8. ASSUME UNCHANGED <<stream, sent, net, heard, asm, given, raw, kept>>
        PROVE  IInv'
    <3>1. sent' = sent /\ sent' <= Length
      BY <2>2, <2>8
    <3>2. /\ net' \in [ lost : Nat, late : Nat, scrambled : SUBSET (1 .. sent),
                        malformed : SUBSET (1 .. sent), described : Nat ]
          /\ net'.late = net.late /\ net'.scrambled = net.scrambled
          /\ net'.malformed = net.malformed
      BY <2>2, <2>8
    <3>3. QED
      BY <2>1, <2>8, <3>1, <3>2, OtherStep
  <2>9. CASE End
    BY <2>8, <2>9 DEF End
  <2>10. ASSUME NEW n \in DOMAIN stream.counts, Declare(n)
         PROVE  IInv'
    BY <2>8, <2>10 DEF Declare
  <2>11. ASSUME NEW t \in stream.tables, TableArrives(t)
         PROVE  IInv'
    BY <2>8, <2>11 DEF TableArrives
  <2>12. CASE UNCHANGED vars
    BY <2>8, <2>12 DEF vars
  <2>13. QED
    BY <2>1, <2>3, <2>4, <2>5, <2>6, <2>7, <2>9, <2>10, <2>11, <2>12 DEF Next
<1>3. QED
  BY <1>1, <1>2, PTL DEF Spec

(* Every unit handed over is a whole unit of the sender, all its fragments *)
(* in their order, for any stream, any numbers the sequence starts at and  *)
(* any packets that were lost, repeated, late, scrambled or damaged.       *)
THEOREM UnitsAreWhole == Spec => []UnitsWhole
<1>1. IInv => UnitsWhole
  <2>1. SUFFICES ASSUME IInv, NEW j \in DOMAIN given, ~ given[j].loss
                 PROVE  WholeUnit(given[j])
    BY DEF UnitsWhole
  <2>2. given[j] \in WholeUnits
    BY <2>1 DEF IInv, AsmInv
  <2>3. QED
    BY <2>1, <2>2 DEF WholeUnits
<1>2. QED
  BY <1>1, Inductive, PTL

(* Every scrambled packet is recorded, and as long as none came out of its *)
(* turn so is each packet of a unit that has one, whichever of them were   *)
(* clear and whatever was lost between them.                               *)
THEOREM ScrambledIsKept == Spec => []RawKept
<1>1. IInv => RawKept
  BY DEF IInv, RawInv, RawKept
<1>2. QED
  BY <1>1, Inductive, PTL

-----------------------------------------------------------------------------
(* The access units of a video or audio stream: where they are.             *)
AV == Kind \in {"video", "audio"}

\* the places up to packet n, before place w, and from place w to place v
Upto(n) == {x \in Media : x[1] <= n}
Prior(w) == {x \in Media : Before(x, w)}
Within(w, v) == {x \in Media : ~ Before(x, w) /\ ~ Before(v, x)}

\* a place is that of a piece of a packet that carries units
LEMMA PlaceShape ==
  ASSUME TypeOK, NEW x \in Media
  PROVE  /\ x[1] \in 1 .. Length /\ x[1] \in Nat /\ x[2] \in Nat /\ x[2] >= 1
         /\ x = <<x[1], x[2]>> /\ x[2] <= Len(Packets[x[1]].pieces)
         /\ x[2] \in 1 .. stream.width
         /\ Packets[x[1]].mfu /\ Packets[x[1]].timed
<1>1. x \in Places /\ x[2] <= Len(Packets[x[1]].pieces) /\ Packets[x[1]].mfu /\ Packets[x[1]].timed
  BY DEF Media
<1>2. PICK i \in DOMAIN Packets, k \in 1 .. stream.width : x = <<i, k>>
  BY <1>1 DEF Places
<1>3. DOMAIN Packets = 1 .. Length /\ Length \in Nat
  BY LengthType
<1>4. x[1] = i /\ x[2] = k
  BY <1>2
<1>5. QED
  BY <1>1, <1>2, <1>3, <1>4

\* packets of the stream that carry units
LEMMA PacketOfKind ==
  ASSUME TypeOK, Delimited, AV, NEW i \in 1 .. Length, Packets[i].mfu
  PROVE  /\ Packets[i].timed /\ Len(Packets[i].pieces) <= stream.width /\ stream.width \in Nat
         /\ Packets[i].frag # "whole" => Len(Packets[i].pieces) = 1
         /\ Continues(i) => /\ i - 1 \in 1 .. Length /\ Packets[i - 1].mfu
                            /\ Packets[i - 1].mpu = Packets[i].mpu
                            /\ Kind = "video" => "aud" \notin Packets[i].pieces[1]
         /\ \A j \in 1 .. i : Packets[j].mfu => Packets[j].mpu <= Packets[i].mpu
         /\ Kind = "video" /\ (\A j \in 1 .. i - 1 : Packets[j].mfu => Packets[j].mpu # Packets[i].mpu)
              => "aud" \in Packets[i].pieces[1]
<1>1. /\ stream \in Streams /\ stream.kind \in {"video", "audio"}
      /\ DOMAIN stream.packets = 1 .. Length /\ Length \in Nat /\ Packets[i].mpu \in Nat
  BY LengthType, PacketType DEF TypeOK, AV, Kind, Packets
<1>2. PICK earlier : earlier = {j \in 1 .. i - 1 : stream.packets[j].mfu}
  OBVIOUS
<1>3. LET p == stream.packets[i] IN
      p.mfu =>
               /\ p.timed /\ Len(p.pieces) <= stream.width
               /\ p.frag # "whole" => Len(p.pieces) = 1
               /\ p.frag \in {"middle", "last"} =>
                    /\ i - 1 \in earlier /\ stream.packets[i - 1].mpu = p.mpu
                    /\ stream.kind = "video" => "aud" \notin p.pieces[1]
               /\ \A j \in earlier : stream.packets[j].mpu <= p.mpu
               /\ stream.kind = "video" /\ (\A j \in earlier : stream.packets[j].mpu # p.mpu) =>
                    "aud" \in p.pieces[1]
  BY <1>1, <1>2 DEF Delimited
<1>4. stream.width \in Nat
  BY <1>1 DEF Delimited
<1>5. \A j \in 1 .. i : j \in 1 .. i - 1 \/ j = i
  BY <1>1
<1>6. \A j \in 1 .. i : Packets[j].mfu => Packets[j].mpu <= Packets[i].mpu
  BY <1>1, <1>2, <1>3, <1>5 DEF Packets
<1>7. \A j \in earlier : j \in 1 .. i - 1 /\ Packets[j].mfu /\ j \in 1 .. Length
  BY <1>1, <1>2 DEF Packets
<1>8. QED
  BY <1>1, <1>2, <1>3, <1>4, <1>6, <1>7 DEF Packets, Kind, Continues

LEMMA PlaceIn ==
  ASSUME TypeOK, Delimited, AV, NEW i \in 1 .. Length, Packets[i].mfu,
         NEW k \in 1 .. Len(Packets[i].pieces)
  PROVE  <<i, k>> \in Media
<1>1. /\ Packets[i].timed /\ Len(Packets[i].pieces) <= stream.width /\ stream.width \in Nat
      /\ Len(Packets[i].pieces) \in Nat /\ DOMAIN Packets = 1 .. Length
  BY PacketOfKind, PacketType
<1>2. k \in 1 .. stream.width /\ k <= Len(Packets[i].pieces)
  BY <1>1
<1>3. <<i, k>> \in Places /\ <<i, k>>[1] = i /\ <<i, k>>[2] = k
  BY <1>1, <1>2 DEF Places
<1>4. QED
  BY <1>1, <1>2, <1>3 DEF Media

\* Before orders the places
LEMMA PlaceOrder ==
  ASSUME TypeOK, NEW x \in Media, NEW y \in Media, NEW z \in Media
  PROVE  /\ ~ Before(x, x)
         /\ Before(x, y) => ~ Before(y, x) /\ x[1] <= y[1]
         /\ Before(x, y) /\ Before(y, z) => Before(x, z)
         /\ x = y \/ Before(x, y) \/ Before(y, x)
<1>1. /\ x[1] \in Nat /\ x[2] \in Nat /\ x = <<x[1], x[2]>>
      /\ y[1] \in Nat /\ y[2] \in Nat /\ y = <<y[1], y[2]>>
      /\ z[1] \in Nat /\ z[2] \in Nat
  BY PlaceShape
<1>2. x[1] = y[1] /\ x[2] = y[2] => x = y
  BY <1>1
<1>3. QED
  BY <1>1, <1>2 DEF Before

LEMMA FinitePlaces ==
  ASSUME TypeOK, Delimited, AV
  PROVE  IsFiniteSet(Media)
<1>1. Length \in Nat /\ DOMAIN Packets = 1 .. Length
  BY LengthType
<1>2. stream.width \in Nat
  BY DEF TypeOK, Delimited, AV, Kind
<1>3. IsFiniteSet(1 .. Length) /\ IsFiniteSet(1 .. stream.width)
  BY <1>1, <1>2, FS_Interval
<1>4. IsFiniteSet((1 .. Length) \X (1 .. stream.width))
  BY <1>3, FS_Product
<1>5. Media \subseteq (1 .. Length) \X (1 .. stream.width)
  BY <1>1 DEF Media, Places
<1>6. QED
  BY <1>4, <1>5, FS_Subset

\* later places are of later MPUs
LEMMA MpuOrder ==
  ASSUME TypeOK, Delimited, AV, NEW x \in Media, NEW y \in Media, Before(x, y) \/ x[1] <= y[1]
  PROVE  MpuOf(x) <= MpuOf(y) /\ MpuOf(x) \in Nat /\ MpuOf(y) \in Nat
<1>1. /\ x[1] \in 1 .. Length /\ y[1] \in 1 .. Length /\ x[1] \in Nat /\ y[1] \in Nat
      /\ Packets[x[1]].mfu /\ Packets[y[1]].mfu /\ Length \in Nat
  BY PlaceShape, LengthType
<1>2. x[1] <= y[1]
  BY PlaceOrder
<1>3. x[1] \in 1 .. y[1]
  BY <1>1, <1>2
<1>4. Packets[x[1]].mpu <= Packets[y[1]].mpu
  BY <1>1, <1>3, PacketOfKind
<1>5. QED
  BY <1>1, <1>4, PacketType DEF MpuOf

LEMMA HeadIs ==
  ASSUME NEW x
  PROVE  x \in Heads <=> /\ x \in Media
                         /\ Kind = "video" => "aud" \in Packets[x[1]].pieces[x[2]]
                         /\ Kind # "video" => Packets[x[1]].frag \in {"whole", "first"}
BY DEF Heads
-----------------------------------------------------------------------------
(* What the reassembler makes of a packet, exactly.                         *)

\* how many packets are missing between the h-th, the last one heard, and the i-th
Gap(h, i) == IF h = 0 THEN 0 ELSE i - h - 1

Told(n) == IF n = 0 THEN <<>> ELSE <<LossUnit(n)>>

Singles(p) == [k \in 1 .. Len(p.pieces) |-> DataUnit(p.mpu, p.rap, p.timed, <<p.pieces[k]>>)]

OnlyLoss(q, st, i, h, good) ==
  /\ q.out = <<LossUnit(Gap(h, i))>> /\ ~ q.st.active
  /\ \/ ~ good
     \/ Packets[i].frag = "first" /\ ~ Fits(<<>>)
     \/ Continues(i) /\ ~ (st.active /\ Gap(h, i) = 0 /\ Fits(st.buf))

NoUnit(q, st, i, h) ==
  /\ q.out = Told(Gap(h, i)) /\ ~ q.st.active /\ q.st.orphan = st.orphan
  /\ ~ Packets[i].mfu

WholeGiven(q, p, i, h) ==
  /\ q.out = Told(Gap(h, i)) \o Singles(p) /\ ~ q.st.active /\ ~ q.st.orphan
  /\ Packets[i].mfu /\ Packets[i].frag = "whole"

Opening(q, i, h) ==
  /\ q.out = Told(Gap(h, i)) /\ q.st.active /\ ~ q.st.orphan /\ Len(q.st.buf) = 1
  /\ q.st.mpu = Packets[i].mpu /\ Packets[i].frag = "first"

Ignored(q, st, i, h) ==
  /\ q.out = Told(Gap(h, i)) /\ ~ q.st.active /\ st.orphan
  /\ Continues(i)

More(q, st, i, h) ==
  /\ h = i - 1 /\ h # 0 /\ st.active /\ q.out = <<>> /\ q.st.active /\ q.st.orphan = st.orphan
  /\ Len(q.st.buf) = Len(st.buf) + 1 /\ q.st.mpu = st.mpu /\ Packets[i].frag = "middle"

LastJoined(q, st, p, i, h) ==
  /\ h = i - 1 /\ h # 0 /\ st.active /\ ~ q.st.active /\ q.st.orphan = st.orphan
  /\ q.out = <<DataUnit(st.mpu, st.rap, TRUE, Append(st.buf, p.pieces[1]))>>
  /\ Packets[i].frag = "last"

Outcome(q, st, p, i, h, good) ==
  \/ OnlyLoss(q, st, i, h, good)
  \/ good /\ NoUnit(q, st, i, h)
  \/ good /\ WholeGiven(q, p, i, h)
  \/ good /\ Opening(q, i, h)
  \/ good /\ Ignored(q, st, i, h)
  \/ good /\ More(q, st, i, h)
  \/ good /\ LastJoined(q, st, p, i, h)

LEMMA GapIs ==
  ASSUME TypeOK, NEW h \in 1 .. Length, NEW i \in 1 .. Length, h < i
  PROVE  SeqDiff(Wrap(FirstSeq + i), NumberAfter(h)) = i - h - 1
<1>1. PICK n \in Nat : n = Length
  BY LengthType
<1>2. /\ FirstSeq \in Nat /\ FirstSeq < SeqRange /\ SeqRange \in Nat /\ 2 * n <= SeqRange
      /\ i \in 1 .. n /\ h \in 1 .. n
  BY <1>1, LengthType
<1>3. PICK a : a = Wrap(FirstSeq + i)
  OBVIOUS
<1>4. PICK b : b = NumberAfter(h)
  OBVIOUS
<1>5. /\ a = IF FirstSeq + i >= SeqRange THEN FirstSeq + i - SeqRange ELSE FirstSeq + i
      /\ b = IF FirstSeq + h + 1 >= SeqRange THEN FirstSeq + h + 1 - SeqRange
              ELSE FirstSeq + h + 1
  BY <1>2, <1>3, <1>4 DEF Wrap, NumberAfter
<1>6. (IF a >= b THEN a - b ELSE a - b + SeqRange) = i - h - 1
  BY <1>2, <1>5
<1>7. QED
  BY <1>3, <1>4, <1>6 DEF SeqDiff

\* what track gives, apart from the number expected next
TrackedSo(r, st, h, i) ==
  /\ r = Gives(r.st, r.out) /\ r.out = Told(Gap(h, i)) /\ Gap(h, i) \in Nat
  /\ r.st.active <=> st.active /\ Gap(h, i) = 0
  /\ r.st.orphan = st.orphan /\ r.st.buf = st.buf /\ r.st.mpu = st.mpu /\ r.st.rap = st.rap
  /\ r.st.active => h # 0 /\ h = i - 1

LEMMA TrackedIs ==
  ASSUME TypeOK, NEW h \in 0 .. Length, NEW i \in 1 .. Length, h < i,
         NEW st \in States, Listens(st, h), NEW p, p.seq = Wrap(FirstSeq + i),
         NEW r, r = Tracked(st, p)
  PROVE  TrackedSo(r, st, h, i)
<1>1. PICK n : n = Gap(h, i)
  OBVIOUS
<1>2. Length \in Nat /\ h \in Nat /\ i \in Nat
  BY LengthType
<1>3. n \in Nat /\ n = Skipped(st, p)
  <2>1. CASE h = 0
    BY <1>1, <2>1 DEF Listens, Skipped, Gap
  <2>2. CASE h # 0
    <3>1. h \in 1 .. Length /\ st.haveSeq /\ st.expectSeq = NumberAfter(h)
      BY <1>2, <2>2 DEF Listens
    <3>2. SeqDiff(p.seq, st.expectSeq) = i - h - 1
      BY <3>1, GapIs
    <3>3. QED
      BY <1>1, <1>2, <2>2, <3>1, <3>2 DEF Skipped, Gap
  <2>3. QED
    BY <2>1, <2>2
<1>4. PICK s : s = [st EXCEPT !.haveSeq = TRUE, !.expectSeq = SeqAfter(p.seq),
                              !.active = @ /\ n = 0]
  OBVIOUS
<1>5. /\ s.active <=> st.active /\ n = 0
      /\ s.orphan = st.orphan /\ s.buf = st.buf /\ s.mpu = st.mpu /\ s.rap = st.rap
  BY <1>4 DEF States
<1>6. r = Gives(s, Told(n))
  BY <1>3, <1>4 DEF Tracked, Told
<1>7. s.active => h # 0 /\ h = i - 1
  BY <1>1, <1>2, <1>5 DEF Listens, Gap
<1>8. r.st = s /\ r.out = Told(n)
  BY <1>6 DEF Gives
<1>9. QED
  BY <1>1, <1>3, <1>5, <1>6, <1>7, <1>8 DEF TrackedSo

\* a loss that is told once
LEMMA WithLossIs ==
  ASSUME NEW st, NEW n \in Nat, st.active \in BOOLEAN, st \in States
  PROVE  LET q == WithLoss(Gives(st, Told(n))) IN
         /\ q.out = <<LossUnit(n)>> /\ ~ q.st.active /\ q.st.orphan = st.orphan
         /\ q = Gives(q.st, q.out) /\ q.st \in States
<1>1. PICK z : z = [st EXCEPT !.active = FALSE]
  OBVIOUS
<1>2. z \in States /\ ~ z.active /\ z.orphan = st.orphan
  BY <1>1 DEF States
<1>3. (IF Told(n) # <<>> THEN Told(n) ELSE <<LossUnit(0)>>) = <<LossUnit(n)>>
  <2>1. CASE n = 0
    BY <2>1 DEF Told
  <2>2. CASE n # 0
    <3>1. <<LossUnit(n)>> # <<>>
      OBVIOUS
    <3>2. QED
      BY <2>2, <3>1 DEF Told
  <2>3. QED
    BY <2>1, <2>2
<1>4. WithLoss(Gives(st, Told(n))) = Gives(z, <<LossUnit(n)>>)
  BY <1>1, <1>3 DEF WithLoss, Gives
<1>5. QED
  BY <1>2, <1>4 DEF Gives
LEMMA OverflowedIs ==
  ASSUME NEW r, NEW i, Tracks(r, i), NEW n \in Nat, r.out = Told(n)
  PROVE  Overflowed(r).out = <<LossUnit(n)>> /\ ~ Overflowed(r).st.active
<1>1. (IF Told(n) # <<>> THEN Told(n) ELSE <<LossUnit(0)>>) = <<LossUnit(n)>>
  <2>1. CASE n = 0
    BY <2>1 DEF Told
  <2>2. CASE n # 0
    <3>1. <<LossUnit(n)>> # <<>>
      OBVIOUS
    <3>2. QED
      BY <2>2, <3>1 DEF Told
  <2>3. QED
    BY <2>1, <2>2
<1>2. Overflowed(r).out = <<LossUnit(n)>>
  BY <1>1 DEF Overflowed, WithLoss, Gives
<1>3. QED
  BY <1>2, OverflowedTracks

LEMMA OutcomeIs ==
  ASSUME TypeOK, Delimited, AV, NEW h \in 0 .. Length, NEW i \in 1 .. Length, h < i,
         NEW st \in States, Listens(st, h), st.active => ~ st.orphan,
         NEW s \in BOOLEAN, NEW m \in BOOLEAN,
         NEW p, p = Received(i, s, m), NEW q, q = PushPacket(st, p)
  PROVE  Outcome(q, st, p, i, h, ~ s /\ ~ m)
<1>1. PICK r : r = Tracked(st, p)
  OBVIOUS
<1>2. PICK n : n = Gap(h, i)
  OBVIOUS
<1>3. /\ p.seq = Wrap(FirstSeq + i) /\ p.scrambled = s /\ p.malformed = m
      /\ p.mfu = Packets[i].mfu /\ p.timed = Packets[i].timed /\ p.frag = Packets[i].frag
      /\ p.mpu = Packets[i].mpu
  BY ReceivedType
<1>4. Tracks(r, i) /\ (r.st.active => i > 1 /\ Joining(r.st, i - 1))
  BY <1>1, <1>3, TrackedTracks, Zenon
<1>5. TrackedSo(r, st, h, i)
  BY <1>1, <1>3, TrackedIs, Zenon
<1>6. /\ r = Gives(r.st, r.out) /\ r.out = Told(n) /\ n \in Nat
      /\ r.st.active <=> st.active /\ n = 0
      /\ r.st.orphan = st.orphan /\ r.st.buf = st.buf /\ r.st.mpu = st.mpu /\ r.st.rap = st.rap
      /\ r.st.active => h # 0 /\ h = i - 1
      /\ r.st \in States /\ r.st.active \in BOOLEAN /\ r.st.orphan \in BOOLEAN
  BY <1>2, <1>4, <1>5 DEF TrackedSo, Tracks, States
<1>7. ~ IsLate(st, p)
  <2>1. ~ i <= h
    BY LengthType
  <2>2. QED
    BY <1>3, <2>1, Late, Zenon
<1>8. /\ p.frag \in {"whole", "first", "middle", "last"}
      /\ p.frag # "whole" => p.mfu /\ p.timed
      /\ p.mfu => p.timed
      /\ p.mfu \in BOOLEAN /\ p.timed \in BOOLEAN
  BY <1>3, PacketType, PacketOfKind
<1>9. r.st.active => Continues(i)
  <2>1. SUFFICES ASSUME r.st.active
                 PROVE  Continues(i)
    OBVIOUS
  <2>2. i > 1 /\ Joining(r.st, i - 1)
    BY <1>4, <2>1
  <2>3. Unfinished(i - 1)
    <3>1. i - 1 \in Nat
      BY LengthType
    <3>2. QED
      BY <2>2, <3>1, JoiningUnfinished, Zenon
  <2>4. i - 1 \in 1 .. Length /\ i - 1 < Length /\ i - 1 + 1 = i
    BY <2>2, LengthType
  <2>5. Unfinished(i - 1) <=> Continues(i - 1 + 1)
    BY <2>4, PacketType, Zenon
  <2>6. QED
    BY <2>3, <2>4, <2>5, Zenon
<1>10. Continues(i) <=> p.frag \in {"middle", "last"}
  BY <1>3 DEF Continues
<1>11. CASE s \/ m
  <2>1. q = WithLoss(Gives(r.st, Told(n)))
    BY <1>1, <1>3, <1>6, <1>7, <1>11 DEF PushPacket
  <2>2. q.out = <<LossUnit(n)>> /\ ~ q.st.active
    BY <1>6, <2>1, WithLossIs
  <2>3. QED
    BY <1>2, <1>11, <2>2 DEF Outcome, OnlyLoss
<1>12. CASE ~ s /\ ~ m /\ ~ p.mfu
  <2>1. q = r /\ ~ r.st.active
    BY <1>1, <1>3, <1>7, <1>8, <1>9, <1>10, <1>12 DEF PushPacket
  <2>2. QED
    BY <1>2, <1>3, <1>6, <1>12, <2>1 DEF Outcome, NoUnit
<1>13. PICK t : t = Restarted(r)
  OBVIOUS
<1>14. ASSUME ~ r.st.active
       PROVE  /\ Tracks(t, i) /\ ~ t.st.active /\ t.out = Told(n) /\ ~ t.st.orphan
              /\ t.st \in States
  <2>1. t = Gives([r.st EXCEPT !.active = FALSE, !.orphan = FALSE], r.out)
    BY <1>13, <1>14 DEF Restarted
  <2>2. t.out = Told(n) /\ ~ t.st.orphan
    BY <1>6, <2>1 DEF Gives, States
  <2>3. QED
    BY <1>4, <1>13, <2>2, RestartedTracks DEF Tracks
<1>15. CASE ~ s /\ ~ m /\ p.mfu /\ p.timed /\ p.frag = "whole"
  <2>1. q = TakeWhole(t, p) /\ ~ r.st.active
    BY <1>1, <1>3, <1>7, <1>9, <1>10, <1>13, <1>15 DEF PushPacket
  <2>4. TakeWhole(t, p) = Gives(t.st, t.out \o Singles(p))
    BY Zenon DEF TakeWhole, Singles
  <2>5. PICK o : o = t.out \o Singles(p)
    OBVIOUS
  <2>6. q = Gives(t.st, o)
    BY <2>1, <2>4, <2>5, Zenon
  <2>7. q.out = o /\ q.st = t.st
    BY <2>6 DEF Gives
  <2>8. t.out = Told(n)
    BY <1>14, <2>1
  <2>2. q.out = Told(n) \o Singles(p) /\ q.st = t.st
    BY <2>5, <2>7, <2>8, Zenon
  <2>3. QED
    BY <1>2, <1>3, <1>14, <1>15, <2>1, <2>2 DEF Outcome, WholeGiven
<1>16. CASE ~ s /\ ~ m /\ p.mfu /\ p.timed /\ p.frag = "first"
  <2>1. q = TakeFirst(t, p) /\ ~ r.st.active
    BY <1>1, <1>3, <1>7, <1>9, <1>10, <1>13, <1>16 DEF PushPacket
  <2>2. CASE Fits(<<>>)
    <3>1. PICK b : b = <<p.pieces[1]>>
      OBVIOUS
    <3>2. PICK z : z = [t.st EXCEPT !.active = TRUE, !.mpu = p.mpu, !.rap = p.rap, !.buf = b]
      OBVIOUS
    <3>3. q = Gives(z, t.out)
      BY <2>1, <2>2, <3>1, <3>2 DEF TakeFirst
    <3>4. z.active /\ z.orphan = t.st.orphan /\ z.buf = b /\ z.mpu = p.mpu
      BY <1>14, <2>1, <3>2 DEF States
    <3>5. Len(b) = 1
      BY <3>1
    <3>6. QED
      BY <1>2, <1>3, <1>14, <1>16, <2>1, <3>3, <3>4, <3>5 DEF Outcome, Opening, Gives
  <2>3. CASE ~ Fits(<<>>)
    <3>1. q = Overflowed(t)
      BY <2>1, <2>3 DEF TakeFirst
    <3>2. q.out = <<LossUnit(n)>> /\ ~ q.st.active
      BY <1>6, <1>14, <2>1, <3>1, OverflowedIs
    <3>3. QED
      BY <1>2, <1>3, <1>16, <2>3, <3>2 DEF Outcome, OnlyLoss
  <2>4. QED
    BY <2>2, <2>3
<1>17. CASE ~ s /\ ~ m /\ p.mfu /\ p.timed /\ p.frag \in {"middle", "last"}
  <2>1. q = TakeNext(r, p)
    BY <1>1, <1>3, <1>7, <1>17 DEF PushPacket
  <2>2. CASE ~ r.st.active
    <3>1. q = TakeOrphan(r, p)
      BY <2>1, <2>2 DEF TakeNext
    <3>2. CASE r.st.orphan
      <4>1. q = [r EXCEPT !.st.orphan = p.frag = "middle"]
        BY <3>1, <3>2 DEF TakeOrphan
      <4>2. q.out = r.out /\ q.st.active = r.st.active
        BY <1>6, <4>1 DEF Gives, States
      <4>3. QED
        BY <1>2, <1>6, <1>10, <1>17, <2>2, <3>2, <4>2 DEF Outcome, Ignored
    <3>3. CASE ~ r.st.orphan
      <4>1. PICK w : w = WithLoss(Gives(r.st, Told(n)))
        OBVIOUS
      <4>2. q = [w EXCEPT !.st.orphan = p.frag = "middle"]
        BY <1>6, <3>1, <3>3, <4>1 DEF TakeOrphan
      <4>3. w.out = <<LossUnit(n)>> /\ ~ w.st.active /\ w = Gives(w.st, w.out) /\ w.st \in States
        BY <1>6, <4>1, WithLossIs
      <4>4. q.out = w.out /\ q.st.active = w.st.active
        BY <4>2, <4>3 DEF Gives, States
      <4>5. QED
        BY <1>2, <1>6, <1>10, <1>17, <2>2, <4>3, <4>4 DEF Outcome, OnlyLoss
    <3>4. QED
      BY <1>6, <3>2, <3>3
  <2>3. CASE r.st.active /\ ~ Fits(r.st.buf)
    <3>1. PICK w : w = Overflowed(r)
      OBVIOUS
    <3>2. q = [w EXCEPT !.st.orphan = p.frag = "middle"]
      BY <2>1, <2>3, <3>1 DEF TakeNext
    <3>3. w.out = <<LossUnit(n)>> /\ ~ w.st.active
      BY <1>4, <1>6, <3>1, OverflowedIs
    <3>4. w = Gives(w.st, w.out) /\ w.st \in States
      BY <1>4, <3>1, OverflowedTracks DEF Tracks
    <3>5. q.out = w.out /\ q.st.active = w.st.active
      BY <3>2, <3>4 DEF Gives, States
    <3>6. QED
      BY <1>2, <1>6, <1>10, <1>17, <2>3, <3>3, <3>5 DEF Outcome, OnlyLoss
  <2>4. CASE r.st.active /\ Fits(r.st.buf)
    <3>1. PICK buf : buf = Append(r.st.buf, p.pieces[1])
      OBVIOUS
    <3>2. h # 0 /\ h = i - 1 /\ st.active /\ r.out = <<>>
      BY <1>6, <2>4 DEF Told
    <3>3. CASE p.frag = "middle"
      <4>1. PICK z : z = [r.st EXCEPT !.buf = buf]
        OBVIOUS
      <4>2. q = Gives(z, r.out)
        BY <2>1, <2>4, <3>1, <3>3, <4>1 DEF TakeNext
      <4>3. z.active = r.st.active /\ z.orphan = st.orphan /\ z.mpu = st.mpu /\ z.buf = buf
        BY <1>6, <4>1 DEF States
      <4>4. Len(buf) = Len(st.buf) + 1
        <5>1. st.buf \in Seq(Cells) /\ p.pieces[1] \in Cells
          <6>1. p.pieces \in Seq(Cells) /\ Len(p.pieces) \in Nat \ {0}
            BY ReceivedType
          <6>2. QED
            BY <6>1 DEF States
        <5>2. QED
          BY <1>6, <3>1, <5>1
      <4>5. q.st = z /\ q.out = <<>>
        BY <3>2, <4>2 DEF Gives
      <4>6. More(q, st, i, h)
        BY <1>3, <2>4, <3>2, <3>3, <4>3, <4>4, <4>5 DEF More
      <4>7. QED
        BY <1>17, <4>6 DEF Outcome
    <3>4. CASE p.frag = "last"
      <4>1. PICK z : z = [r.st EXCEPT !.active = FALSE, !.buf = buf]
        OBVIOUS
      <4>2. q = Gives(z, Append(r.out, DataUnit(r.st.mpu, r.st.rap, TRUE, buf)))
        BY <2>1, <2>4, <3>1, <3>4, <4>1 DEF TakeNext
      <4>3. ~ z.active /\ z.orphan = st.orphan
        BY <1>6, <4>1 DEF States
      <4>4. Append(r.out, DataUnit(r.st.mpu, r.st.rap, TRUE, buf))
              = <<DataUnit(st.mpu, st.rap, TRUE, Append(st.buf, p.pieces[1]))>>
        <5>1. r.out = <<>> /\ buf = Append(st.buf, p.pieces[1])
          BY <1>6, <3>1, <3>2
        <5>2. PICK u : u = DataUnit(r.st.mpu, r.st.rap, TRUE, buf)
          OBVIOUS
        <5>3. Append(<<>>, u) = <<u>>
          OBVIOUS
        <5>4. QED
          BY <1>6, <5>1, <5>2, <5>3
      <4>8. PICK o : o = Append(r.out, DataUnit(r.st.mpu, r.st.rap, TRUE, buf))
        OBVIOUS
      <4>10. q = Gives(z, o)
        BY <4>2, <4>8, Zenon
      <4>9. q.st = z /\ q.out = o
        BY <4>10 DEF Gives
      <4>5. q.st = z /\ q.out = <<DataUnit(st.mpu, st.rap, TRUE, Append(st.buf, p.pieces[1]))>>
        BY <4>4, <4>8, <4>9, Zenon
      <4>6. LastJoined(q, st, p, i, h)
        BY <1>3, <3>2, <3>4, <4>3, <4>5 DEF LastJoined
      <4>7. QED
        BY <1>17, <4>6 DEF Outcome
    <3>5. QED
      BY <1>17, <3>3, <3>4
  <2>5. QED
    BY <1>6, <2>2, <2>3, <2>4
<1>18. QED
  BY <1>8, <1>11, <1>12, <1>15, <1>16, <1>17
-----------------------------------------------------------------------------
(* The units handed over, as places of the stream.                          *)
Ats(data) == {data[k].at : k \in 1 .. Len(data)}

Increasing(data) == \A k, l \in 1 .. Len(data) : k < l => Before(data[k].at, data[l].at)

\* unit u, whose last packet is the i-th, is what the stream has from w to v
IsGiven(u, w, v, i, T) ==
  /\ ~ u.loss /\ u.data \in Seq(Cells) /\ u.data # <<>> /\ u.rap \in BOOLEAN
  /\ w \in Media /\ v \in Media /\ v[1] = i /\ ~ Before(v, w) /\ u.data[1].at = w
  /\ Ats(u.data) = Within(w, v) /\ Increasing(u.data)
  /\ u.mpu = MpuOf(w)
  /\ \A x \in Within(w, v) : MpuOf(x) = MpuOf(w) /\ (x \in Heads => x = w)
  /\ Delimits(Kind, u) <=> w \in Heads
  /\ w[1] .. i \subseteq T

LEMMA CellIs ==
  ASSUME NEW c \in Cells, TypeOK
  PROVE  /\ c.at[1] \in 1 .. Length /\ c.at = <<c.at[1], c.at[2]>>
         /\ c.at[2] \in 1 .. Len(Packets[c.at[1]].pieces)
         /\ c.is = Packets[c.at[1]].pieces[c.at[2]]
<1>0. PICK i \in 1 .. Length :
        c \in {[at |-> <<i, k>>, is |-> Packets[i].pieces[k]] : k \in DOMAIN Packets[i].pieces}
  BY Zenon DEF Cells
<1>1. PICK k \in DOMAIN Packets[i].pieces : c = [at |-> <<i, k>>, is |-> Packets[i].pieces[k]]
  BY <1>0
<1>2. c.at = <<i, k>> /\ c.at[1] = i /\ c.at[2] = k /\ c.is = Packets[i].pieces[k]
  BY <1>1
<1>3. DOMAIN Packets[i].pieces = 1 .. Len(Packets[i].pieces)
  BY PacketType
<1>4. QED
  BY <1>2, <1>3

LEMMA WithinOne ==
  ASSUME TypeOK, NEW w \in Media
  PROVE  Within(w, w) = {w} /\ ~ Before(w, w)
<1>1. ASSUME NEW x \in Media
      PROVE  (~ Before(x, w) /\ ~ Before(w, x)) <=> x = w
  BY PlaceOrder
<1>2. QED
  BY <1>1 DEF Within

LEMMA SingleGiven ==
  ASSUME TypeOK, Delimited, AV, NEW i \in 1 .. Length, NEW s \in BOOLEAN, NEW m \in BOOLEAN,
         NEW p, p = Received(i, s, m), Packets[i].mfu, Packets[i].frag = "whole",
         NEW k \in 1 .. Len(p.pieces), NEW T, i \in T,
         NEW u, u = DataUnit(p.mpu, p.rap, p.timed, <<p.pieces[k]>>)
  PROVE  IsGiven(u, <<i, k>>, <<i, k>>, i, T) /\ k \in 1 .. Len(Packets[i].pieces)
<1>1. PICK n \in Nat : n = Len(Packets[i].pieces) /\ DOMAIN Packets[i].pieces = 1 .. n
  BY PacketType
<1>2. /\ p.mpu = Packets[i].mpu /\ p.rap \in BOOLEAN /\ p.pieces \in Seq(Cells)
      /\ \A j \in 1 .. Len(p.pieces) : p.pieces[j].at[1] = i
  BY ReceivedType, PacketType, SMTT(30)
<1>3. p.pieces = [j \in 1 .. n |-> [at |-> <<i, j>>, is |-> Packets[i].pieces[j]]]
  BY <1>1 DEF Received
<1>4. Len(p.pieces) = n
  BY <1>2, <1>3
<1>5. PICK c \in Cells : c = p.pieces[k] /\ c.at = <<i, k>> /\ c.is = Packets[i].pieces[k]
  BY <1>2, <1>3, <1>4
<1>6. PICK w : w = <<i, k>>
  OBVIOUS
<1>7. w \in Media /\ w[1] = i /\ w[2] = k
  BY <1>1, <1>4, <1>6, PlaceIn
<1>8. PICK d : d = <<c>>
  OBVIOUS
<1>9. d \in Seq(Cells) /\ Len(d) = 1 /\ d[1] = c /\ d # <<>>
  BY <1>8
<1>10. ~ u.loss /\ u.mpu = Packets[i].mpu /\ u.rap \in BOOLEAN /\ u.data = d
  BY <1>2, <1>5, <1>8 DEF DataUnit
<1>11. Within(w, w) = {w} /\ ~ Before(w, w)
  BY <1>7, WithinOne
<1>12. Ats(u.data) = {w} /\ Increasing(u.data)
  <2>1. \A j \in 1 .. Len(d) : j = 1
    BY <1>9
  <2>2. d[1].at = w /\ 1 \in 1 .. Len(d)
    BY <1>5, <1>6, <1>9
  <2>3. Ats(d) = {w}
    BY <2>1, <2>2 DEF Ats
  <2>4. Increasing(d)
    <3>1. \A k1, l1 \in 1 .. Len(d) : ~ k1 < l1
      BY <1>9
    <3>2. QED
      BY <3>1 DEF Increasing
  <2>5. QED
    BY <1>10, <2>3, <2>4
<1>13. Delimits(Kind, u) <=> w \in Heads
  BY <1>5, <1>7, <1>9, <1>10, HeadIs DEF Delimits, Aud, AV
<1>14. u.mpu = MpuOf(w) /\ w[1] .. i \subseteq T
  <2>1. i .. i = {i}
    OBVIOUS
  <2>2. QED
    BY <1>7, <1>10, <2>1 DEF MpuOf
<1>15. u.data[1].at = w
  BY <1>5, <1>6, <1>9, <1>10
<1>16. IsGiven(u, w, w, i, T)
  BY <1>7, <1>9, <1>10, <1>11, <1>12, <1>13, <1>14, <1>15 DEF IsGiven
<1>17. QED
  BY <1>1, <1>4, <1>6, <1>16

LEMMA JoinedGiven ==
  ASSUME TypeOK, Delimited, AV, NEW i \in 1 .. Length, i > 1,
         NEW st \in States, Joining(st, i - 1), NEW s \in BOOLEAN, NEW m \in BOOLEAN,
         NEW p, p = Received(i, s, m), Packets[i].frag = "last",
         NEW T, i \in T,
         \A x \in i - Len(st.buf) .. i - 1 : x \in T /\ Packets[x].mpu = st.mpu,
         NEW u, u = DataUnit(st.mpu, st.rap, TRUE, Append(st.buf, p.pieces[1]))
  PROVE  IsGiven(u, <<i - Len(st.buf), 1>>, <<i, 1>>, i, T)
<1>1. PICK c \in Cells : c = p.pieces[1] /\ c.at[1] = i
  BY ReceivedType
<1>2. PICK buf : buf = Append(st.buf, c)
  OBVIOUS
<1>3. PICK n \in 1 .. i - 1 : n = Len(st.buf)
  BY DEF Joining
<1>4. PICK l \in 1 .. i - 1 : JoinedTo(st, buf, l, i)
  BY <1>1, <1>2, Joined
<1>5. st.buf \in Seq(Cells) /\ i \in Nat
  BY LengthType DEF States
<1>6. l = n
  <2>1. Len(buf) = n + 1
    BY <1>2, <1>3, <1>5
  <2>2. Len(buf) = l + 1
    BY <1>4 DEF JoinedTo
  <2>3. QED
    BY <1>3, <1>4, <2>1, <2>2
<1>26. i - n \in Nat /\ n \in Nat
  BY <1>3, <1>5
<1>7. PICK a \in Nat : a = i - n
  BY <1>26
<1>27. a >= 1 /\ a <= i - 1 /\ a + n = i /\ a \in Nat /\ i \in Nat /\ n \in Nat
  BY <1>3, <1>5, <1>7
<1>8. /\ a \in 1 .. i - 1 /\ a + n = i /\ i - Len(st.buf) = a
      /\ i - 1 - n + 1 = a /\ \A k \in 1 .. n + 1 : i - 1 - n + k = a + k - 1
  BY <1>3, <1>5, <1>7
<1>9. /\ buf \in Seq(Cells) /\ Len(buf) = n + 1
      /\ \A k \in 1 .. n + 1 : buf[k].at[1] = a + k - 1
      /\ Packets[a].frag = "first" /\ st.mpu = Packets[a].mpu
      /\ \A k \in 2 .. n : Packets[a + k - 1].frag = "middle"
  <2>1. /\ buf \in Seq(Cells) /\ Len(buf) = n + 1
        /\ \A k \in 1 .. n + 1 : buf[k].at[1] = i - 1 - n + k
        /\ Packets[i - 1 - n + 1].frag = "first" /\ st.mpu = Packets[i - 1 - n + 1].mpu
        /\ \A k \in 2 .. n : Packets[i - 1 - n + k].frag = "middle"
    BY <1>4, <1>6 DEF JoinedTo
  <2>2. \A k \in 2 .. n : k \in 1 .. n + 1
    BY <1>3
  <2>3. QED
    BY <1>8, <2>1, <2>2
\* all of them are fragments: one piece each
<1>10. \A x \in a .. i : /\ x \in 1 .. Length /\ Packets[x].frag # "whole"
                         /\ x # a => Continues(x)
  <2>1. SUFFICES ASSUME NEW x \in a .. i
                 PROVE  /\ x \in 1 .. Length /\ Packets[x].frag # "whole"
                        /\ x # a => Continues(x)
    OBVIOUS
  <2>2. x \in 1 .. Length
    BY <1>27, LengthType
  <2>3. CASE x = a
    BY <1>9, <2>2, <2>3
  <2>4. CASE x = i
    BY <2>2, <2>4 DEF Continues
  <2>5. CASE x # a /\ x # i
    <3>1. x - a + 1 \in 2 .. n /\ a + (x - a + 1) - 1 = x
      BY <1>5, <1>8, <2>5
    <3>2. Packets[a + (x - a + 1) - 1].frag = "middle"
      BY <1>9, <3>1
    <3>3. QED
      BY <2>2, <3>1, <3>2 DEF Continues
  <2>6. QED
    BY <2>3, <2>4, <2>5
<1>11. \A x \in a .. i : /\ Packets[x].mfu /\ Len(Packets[x].pieces) = 1 /\ <<x, 1>> \in Media
                         /\ x \in T /\ Packets[x].mpu = st.mpu
  <2>1. SUFFICES ASSUME NEW x \in a .. i
                 PROVE  /\ Packets[x].mfu /\ Len(Packets[x].pieces) = 1 /\ <<x, 1>> \in Media
                        /\ x \in T /\ Packets[x].mpu = st.mpu
    OBVIOUS
  <2>2. x \in 1 .. Length /\ Packets[x].frag # "whole" /\ Packets[x].mfu
    BY <1>10, PacketType
  <2>3. Len(Packets[x].pieces) = 1
    BY <2>2, PacketOfKind
  <2>4. <<x, 1>> \in Media
    <3>1. 1 \in 1 .. Len(Packets[x].pieces)
      BY <2>3
    <3>2. QED
      BY <2>2, <3>1, PlaceIn
  <2>5. \A y \in a .. i - 1 : y \in T /\ Packets[y].mpu = st.mpu
    BY <1>8
  <2>6. CASE x = i
    <3>1. Packets[i - 1].mpu = Packets[i].mpu
      BY <1>8, <1>10, <2>2, <2>6, PacketOfKind, SMTT(30)
    <3>2. i - 1 \in a .. i - 1
      BY <1>27
    <3>3. QED
      BY <2>2, <2>3, <2>4, <2>5, <2>6, <3>1, <3>2
  <2>7. CASE x # i
    <3>1. x \in a .. i - 1
      BY <1>5, <1>8, <2>7
    <3>2. QED
      BY <2>2, <2>3, <2>4, <2>5, <3>1
  <2>8. QED
    BY <2>6, <2>7
<1>12. \A k \in 1 .. n + 1 : /\ a + k - 1 \in a .. i /\ buf[k].at = <<a + k - 1, 1>>
                             /\ buf[k].is = Packets[a + k - 1].pieces[1]
  <2>1. SUFFICES ASSUME NEW k \in 1 .. n + 1
                 PROVE  /\ a + k - 1 \in a .. i /\ buf[k].at = <<a + k - 1, 1>>
                        /\ buf[k].is = Packets[a + k - 1].pieces[1]
    OBVIOUS
  <2>2. PICK x : x = a + k - 1
    OBVIOUS
  <2>3. x \in a .. i
    BY <1>5, <1>8, <2>2, SMTT(30)
  <2>4. buf[k] \in Cells /\ buf[k].at[1] = x
    BY <1>9, <2>2
  <2>5. Len(Packets[x].pieces) = 1
    BY <1>11, <2>3
  <2>6. buf[k].at[2] \in 1 .. 1 /\ buf[k].at = <<x, buf[k].at[2]>>
        /\ buf[k].is = Packets[x].pieces[buf[k].at[2]]
    BY <2>4, <2>5, CellIs
  <2>7. buf[k].at[2] = 1
    BY <2>6
  <2>8. QED
    BY <2>2, <2>3, <2>6, <2>7
<1>13. PICK w : w = <<a, 1>>
  OBVIOUS
<1>14. PICK v : v = <<i, 1>>
  OBVIOUS
<1>15. /\ w \in Media /\ v \in Media /\ w[1] = a /\ w[2] = 1 /\ v[1] = i /\ v[2] = 1
       /\ a \in a .. i /\ i \in a .. i
  BY <1>5, <1>8, <1>11, <1>13, <1>14
<1>16. ASSUME NEW x
       PROVE  x \in Within(w, v) <=> \E y \in a .. i : x = <<y, 1>>
  <2>1. ASSUME x \in Within(w, v)
        PROVE  \E y \in a .. i : x = <<y, 1>>
    <3>1. x \in Media /\ ~ Before(x, w) /\ ~ Before(v, x)
      BY <2>1 DEF Within
    <3>2. x[1] \in Nat /\ x[2] \in Nat /\ x = <<x[1], x[2]>> /\ x[2] >= 1
          /\ x[2] <= Len(Packets[x[1]].pieces)
      BY <3>1, PlaceShape
    <3>3. x[1] \in a .. i
      <4>1. ~ (x[1] < a) /\ ~ (i < x[1])
        BY <1>15, <3>1 DEF Before
      <4>2. QED
        BY <1>27, <3>2, <4>1
    <3>4. Len(Packets[x[1]].pieces) = 1
      BY <1>11, <3>3
    <3>5. x[2] = 1
      BY <3>2, <3>4
    <3>6. QED
      BY <3>2, <3>3, <3>5
  <2>2. ASSUME NEW y \in a .. i, x = <<y, 1>>
        PROVE  x \in Within(w, v)
    <3>1. x \in Media /\ x[1] = y /\ x[2] = 1
      BY <1>11, <2>2
    <3>2. ~ Before(x, w) /\ ~ Before(v, x)
      BY <1>5, <1>8, <1>15, <3>1 DEF Before
    <3>3. QED
      BY <3>1, <3>2 DEF Within
  <2>3. QED
    BY <2>1, <2>2
<1>17. Ats(buf) = Within(w, v)
  <2>1. ASSUME NEW x \in Ats(buf)
        PROVE  x \in Within(w, v)
    BY <1>9, <1>12, <1>16 DEF Ats
  <2>2. ASSUME NEW x \in Within(w, v)
        PROVE  x \in Ats(buf)
    <3>1. PICK y \in a .. i : x = <<y, 1>>
      BY <1>16
    <3>2. y - a + 1 \in 1 .. n + 1 /\ a + (y - a + 1) - 1 = y
      BY <1>5, <1>8
    <3>3. buf[y - a + 1].at = x
      BY <1>12, <3>1, <3>2
    <3>4. QED
      BY <1>9, <3>2, <3>3 DEF Ats
  <2>3. QED
    BY <2>1, <2>2
<1>18. Increasing(buf)
  <2>1. SUFFICES ASSUME NEW k \in 1 .. n + 1, NEW j \in 1 .. n + 1, k < j
                 PROVE  Before(buf[k].at, buf[j].at)
    BY <1>9 DEF Increasing
  <2>2. buf[k].at[1] = a + k - 1 /\ buf[j].at[1] = a + j - 1
    BY <1>9
  <2>3. QED
    BY <2>1, <2>2 DEF Before
<1>19. ~ u.loss /\ u.mpu = st.mpu /\ u.rap \in BOOLEAN /\ u.data = buf
  BY <1>1, <1>2 DEF DataUnit, States
<1>20. \A x \in Within(w, v) : MpuOf(x) = st.mpu /\ (x \in Heads => x = w)
  <2>1. SUFFICES ASSUME NEW x \in Within(w, v)
                 PROVE  MpuOf(x) = st.mpu /\ (x \in Heads => x = w)
    OBVIOUS
  <2>2. PICK y \in a .. i : x = <<y, 1>>
    BY <1>16
  <2>3. MpuOf(x) = st.mpu /\ x[1] = y /\ x[2] = 1
    BY <1>11, <2>2 DEF MpuOf
  <2>4. CASE y = a
    BY <1>13, <2>2, <2>3, <2>4
  <2>5. CASE y # a
    <3>1. Continues(y) /\ y \in 1 .. Length /\ Packets[y].mfu
      BY <1>10, <1>11, <2>5
    <3>2. Kind = "video" => "aud" \notin Packets[y].pieces[1]
      BY <3>1, PacketOfKind
    <3>3. x \notin Heads
      BY <2>3, <3>1, <3>2, HeadIs DEF Continues
    <3>4. QED
      BY <2>3, <3>3
  <2>6. QED
    BY <2>4, <2>5
<1>21. Delimits(Kind, u) <=> w \in Heads
  <2>1. buf[1].is = Packets[a].pieces[1]
    <3>1. 1 \in 1 .. n + 1 /\ a + 1 - 1 = a
      BY <1>3, <1>7
    <3>2. QED
      BY <1>12, <3>1
  <2>2. CASE Kind = "video"
    <3>1. w \in Heads <=> "aud" \in Packets[a].pieces[1]
      BY <1>15, <2>2, HeadIs
    <3>2. Delimits(Kind, u) <=> "aud" \in buf[1].is
      BY <1>19, <2>2 DEF Delimits, Aud
    <3>3. QED
      BY <2>1, <3>1, <3>2
  <2>3. CASE Kind = "audio"
    <3>1. w \in Heads
      BY <1>9, <1>15, <2>3, HeadIs
    <3>2. QED
      BY <2>3, <3>1 DEF Delimits
  <2>4. QED
    BY <2>2, <2>3 DEF AV
<1>22. u.data[1].at = w /\ u.data # <<>>
  <2>1. 1 \in 1 .. n + 1 /\ a + 1 - 1 = a
    BY <1>3, <1>7
  <2>2. buf[1].at = w
    BY <1>12, <1>13, <2>1
  <2>3. buf # <<>>
    BY <1>3, <1>9
  <2>4. QED
    BY <1>19, <2>2, <2>3
<1>23. ~ Before(v, w) /\ MpuOf(w) = st.mpu /\ w[1] .. i \subseteq T
  <2>1. ~ Before(v, w)
    BY <1>5, <1>8, <1>15 DEF Before
  <2>2. MpuOf(w) = st.mpu
    BY <1>9, <1>15 DEF MpuOf
  <2>3. QED
    BY <1>11, <1>15, <2>1, <2>2
<1>24. IsGiven(u, w, v, i, T)
  BY <1>9, <1>15, <1>17, <1>18, <1>19, <1>20, <1>21, <1>22, <1>23 DEF IsGiven
<1>25. QED
  BY <1>8, <1>13, <1>14, <1>24
-----------------------------------------------------------------------------
(* auBuilder: what it holds of the places D that it was given.              *)
Builders ==
  [ haveMPU : BOOLEAN, mpu : Nat, trusted : BOOLEAN, index : Nat, open : BOOLEAN,
    rap : BOOLEAN, data : Seq(Cells) ]

\* of the first unit of an MPU not all was received of the packets up to the h-th
Spoiled(mpu, T, h) ==
  \E x, y \in FragmentsOf(FirstOf(mpu)) : y - x >= MaxFragment \/ (y <= h /\ y \notin T)

\* the access unit that is open: from a head to the last place
Opened(b, D, T, h) ==
  /\ b.data # <<>> /\ b.data[1].at \in Heads
  /\ Ats(b.data) = {x \in D : ~ Before(x, b.data[1].at)}
  /\ Increasing(b.data)
  /\ \A x \in Ats(b.data) : MpuOf(x) = b.mpu /\ (x \in Heads => x = b.data[1].at)
  /\ b.data[1].at[1] .. h \subseteq T

HeadsOf(D, mpu) == {x \in D \cap Heads : MpuOf(x) = mpu}

Builds(b, D, T, h) ==
  /\ b.open => b.trusted /\ Opened(b, D, T, h)
  /\ b.trusted => b.haveMPU
  /\ b.haveMPU => \E x \in D : MpuOf(x) = b.mpu
  /\ b.trusted => b.index = Cardinality(HeadsOf(D, b.mpu)) \/ Spoiled(b.mpu, T, h)

LEMMA ConcatAts ==
  ASSUME NEW d \in Seq(Cells), NEW e \in Seq(Cells)
  PROVE  /\ d \o e \in Seq(Cells)
         /\ Ats(d \o e) = Ats(d) \cup Ats(e)
         /\ (/\ Increasing(d) /\ Increasing(e)
             /\ \A x \in Ats(d), y \in Ats(e) : Before(x, y)) => Increasing(d \o e)
<1>1. PICK c : c = d \o e
  OBVIOUS
<1>2. PICK n \in Nat : n = Len(d)
  OBVIOUS
<1>3. PICK l \in Nat : l = Len(e)
  OBVIOUS
<1>4. /\ c \in Seq(Cells) /\ Len(c) = n + l
      /\ \A k \in 1 .. n : c[k] = d[k]
      /\ \A k \in 1 .. l : c[n + k] = e[k]
  BY <1>1, <1>2, <1>3
<1>5. \A k \in n + 1 .. n + l : k - n \in 1 .. l /\ n + (k - n) = k
  OBVIOUS
<1>6. \A k \in n + 1 .. n + l : c[k] = e[k - n]
  BY <1>4, <1>5
<1>7. \A k \in 1 .. n + l : k \in 1 .. n \/ k \in n + 1 .. n + l
  OBVIOUS
<1>8. Ats(c) = Ats(d) \cup Ats(e)
  <2>1. ASSUME NEW x \in Ats(c)
        PROVE  x \in Ats(d) \cup Ats(e)
    <3>1. PICK k \in 1 .. n + l : x = c[k].at
      BY <1>4 DEF Ats
    <3>2. CASE k \in 1 .. n
      BY <1>2, <1>4, <3>1, <3>2 DEF Ats
    <3>3. CASE k \in n + 1 .. n + l
      BY <1>3, <1>5, <1>6, <3>1, <3>3 DEF Ats
    <3>4. QED
      BY <1>7, <3>2, <3>3
  <2>2. ASSUME NEW x \in Ats(d)
        PROVE  x \in Ats(c)
    <3>1. PICK k \in 1 .. n : x = d[k].at
      BY <1>2 DEF Ats
    <3>2. k \in 1 .. n + l
      OBVIOUS
    <3>3. QED
      BY <1>4, <3>1, <3>2 DEF Ats
  <2>3. ASSUME NEW x \in Ats(e)
        PROVE  x \in Ats(c)
    <3>1. PICK k \in 1 .. l : x = e[k].at
      BY <1>3 DEF Ats
    <3>2. n + k \in 1 .. n + l
      OBVIOUS
    <3>3. QED
      BY <1>4, <3>1, <3>2 DEF Ats
  <2>4. QED
    BY <2>1, <2>2, <2>3
<1>9. ASSUME Increasing(d), Increasing(e), \A x \in Ats(d), y \in Ats(e) : Before(x, y)
      PROVE  Increasing(c)
  <2>1. SUFFICES ASSUME NEW k \in 1 .. n + l, NEW j \in 1 .. n + l, k < j
                 PROVE  Before(c[k].at, c[j].at)
    BY <1>4 DEF Increasing
  <2>2. CASE j \in 1 .. n
    <3>1. k \in 1 .. n
      BY <2>1, <2>2
    <3>2. QED
      BY <1>2, <1>4, <1>9, <2>1, <2>2, <3>1 DEF Increasing
  <2>3. CASE k \in 1 .. n /\ j \in n + 1 .. n + l
    <3>1. d[k].at \in Ats(d) /\ e[j - n].at \in Ats(e)
      BY <1>2, <1>3, <1>5, <2>3 DEF Ats
    <3>2. QED
      BY <1>4, <1>6, <1>9, <2>3, <3>1
  <2>4. CASE k \in n + 1 .. n + l /\ j \in n + 1 .. n + l
    <3>1. k - n \in 1 .. l /\ j - n \in 1 .. l /\ k - n < j - n
      BY <2>1, <2>4
    <3>2. Before(e[k - n].at, e[j - n].at)
      BY <1>3, <1>9, <3>1 DEF Increasing
    <3>3. QED
      BY <1>6, <2>4, <3>2
  <2>5. QED
    BY <1>7, <2>1, <2>2, <2>3, <2>4
<1>10. QED
  BY <1>1, <1>4, <1>8, <1>9

LEMMA FiniteHeads ==
  ASSUME TypeOK, Delimited, AV, NEW D \in SUBSET Media, NEW mpu
  PROVE  IsFiniteSet(HeadsOf(D, mpu)) /\ Cardinality(HeadsOf(D, mpu)) \in Nat
<1>1. HeadsOf(D, mpu) \subseteq Media
  BY DEF HeadsOf
<1>2. QED
  BY <1>1, FinitePlaces, FS_Subset, FS_CardinalityType

\* a unit adds at most one head
LEMMA HeadsAdded ==
  ASSUME TypeOK, Delimited, AV, NEW i, NEW T, NEW u, NEW w, NEW v, IsGiven(u, w, v, i, T)
  PROVE  \E D, E : /\ D = Prior(w) /\ E = Prior(w) \cup Within(w, v)
                   /\ D \in SUBSET Media /\ E \in SUBSET Media /\ w \in Within(w, v)
                   /\ w \in Heads => Cardinality(HeadsOf(E, u.mpu)) = Cardinality(HeadsOf(D, u.mpu)) + 1
                   /\ w \notin Heads => HeadsOf(E, u.mpu) = HeadsOf(D, u.mpu)
<1>1. PICK D : D = Prior(w)
  OBVIOUS
<1>2. PICK E : E = D \cup Within(w, v)
  OBVIOUS
<1>3. /\ w \in Media /\ v \in Media /\ ~ Before(v, w) /\ u.mpu = MpuOf(w)
      /\ \A x \in Within(w, v) : MpuOf(x) = MpuOf(w) /\ (x \in Heads => x = w)
  BY DEF IsGiven
<1>4. D \in SUBSET Media /\ E \in SUBSET Media
  BY <1>1, <1>2 DEF Prior, Within
<1>5. w \in Within(w, v) /\ w \notin D
  BY <1>1, <1>3, PlaceOrder DEF Within, Prior
<1>6. CASE w \in Heads
  <2>1. HeadsOf(E, u.mpu) = HeadsOf(D, u.mpu) \cup {w}
    BY <1>2, <1>3, <1>5, <1>6 DEF HeadsOf
  <2>2. w \notin HeadsOf(D, u.mpu)
    BY <1>5 DEF HeadsOf
  <2>3. IsFiniteSet(HeadsOf(D, u.mpu))
    BY <1>4, FiniteHeads
  <2>4. Cardinality(HeadsOf(E, u.mpu)) = Cardinality(HeadsOf(D, u.mpu)) + 1
    BY <2>1, <2>2, <2>3, FS_AddElement
  <2>5. QED
    BY <1>1, <1>2, <1>4, <1>5, <1>6, <2>4
<1>7. CASE w \notin Heads
  <2>1. HeadsOf(E, u.mpu) = HeadsOf(D, u.mpu)
    BY <1>2, <1>3, <1>7 DEF HeadsOf
  <2>2. QED
    BY <1>1, <1>2, <1>4, <1>5, <1>7, <2>1
<1>8. QED
  BY <1>6, <1>7
\* before the unit is used: the builder may have come to its MPU
Turned(b, u) == IF ~ b.haveMPU \/ u.mpu # b.mpu THEN NewMPU(b, u.mpu) ELSE b

\* where an MPU begins, nothing of it was handed over before, or its beginning
\* is not known
Fresh(b, u, w, T, i) ==
  (~ b.haveMPU \/ u.mpu # b.mpu) /\ b.haveMPU =>
    (\A y \in Prior(w) : MpuOf(y) # u.mpu) \/ Spoiled(u.mpu, T, i)

LEMMA TurnedBuilds ==
  ASSUME TypeOK, Delimited, AV, NEW i \in 1 .. Length, NEW T, NEW u, NEW w, NEW v,
         IsGiven(u, w, v, i, T), NEW b \in Builders, Builds(b, Prior(w), T, i), Fresh(b, u, w, T, i),
         NEW n, n = Turned(b, u)
  PROVE  /\ n \in Builders /\ n.haveMPU /\ n.mpu = u.mpu /\ n.data = b.data
         /\ n.open => n.trusted /\ n = b /\ b.open /\ Opened(b, Prior(w), T, i)
         /\ n.trusted => n.index = Cardinality(HeadsOf(Prior(w), u.mpu)) \/ Spoiled(u.mpu, T, i)
<1>1. u.mpu \in Nat
  <2>1. u.mpu = MpuOf(w) /\ w \in Media
    BY DEF IsGiven
  <2>2. QED
    BY <2>1, PlaceShape, PacketType DEF MpuOf
<1>2. CASE ~ b.haveMPU \/ u.mpu # b.mpu
  <2>1. n = [[b EXCEPT !.open = FALSE] EXCEPT !.haveMPU = TRUE, !.mpu = u.mpu,
                                              !.trusted = b.haveMPU, !.index = 0]
    BY <1>2 DEF Turned, NewMPU, Shut
  <2>2. PICK C : C = Seq(Cells)
    OBVIOUS
  <2>3. b \in [ haveMPU : BOOLEAN, mpu : Nat, trusted : BOOLEAN, index : Nat, open : BOOLEAN,
                rap : BOOLEAN, data : C ]
    BY <2>2 DEF Builders
  <2>8. PICK z : z = [b EXCEPT !.open = FALSE]
    OBVIOUS
  <2>9. /\ z \in [ haveMPU : BOOLEAN, mpu : Nat, trusted : BOOLEAN, index : Nat, open : BOOLEAN,
                   rap : BOOLEAN, data : C ]
        /\ z.data = b.data /\ ~ z.open
    BY <2>3, <2>8
  <2>10. PICK t \in BOOLEAN : t = b.haveMPU
    BY <2>3
  <2>12. PICK mp \in Nat : mp = u.mpu
    BY <1>1
  <2>11. n = [z EXCEPT !.haveMPU = TRUE, !.mpu = mp, !.trusted = t, !.index = 0]
    BY <2>1, <2>8, <2>10, <2>12
  <2>4. /\ n \in [ haveMPU : BOOLEAN, mpu : Nat, trusted : BOOLEAN, index : Nat, open : BOOLEAN,
                   rap : BOOLEAN, data : C ]
        /\ n.haveMPU /\ n.mpu = u.mpu /\ n.data = b.data /\ ~ n.open
        /\ n.trusted = b.haveMPU /\ n.index = 0
    <3>1. n \in [ haveMPU : BOOLEAN, mpu : Nat, trusted : BOOLEAN, index : Nat, open : BOOLEAN,
                  rap : BOOLEAN, data : C ]
      <4>1. z \in [ haveMPU : BOOLEAN, mpu : Nat, trusted : BOOLEAN, index : Nat, open : BOOLEAN,
                    rap : BOOLEAN, data : C ]
        BY <2>9
      <4>2. TRUE \in BOOLEAN /\ 0 \in Nat /\ mp \in Nat /\ t \in BOOLEAN
        OBVIOUS
      <4>3. QED
        BY ONLY <2>11, <4>1, <4>2
    <3>2. n.haveMPU /\ n.mpu = mp /\ n.trusted = t /\ n.index = 0
      BY <2>9, <2>11
    <3>3. n.data = z.data /\ n.open = z.open
      BY <2>9, <2>11
    <3>4. QED
      BY <2>9, <2>10, <2>12, <3>1, <3>2, <3>3
  <2>5. n \in Builders
    BY <2>2, <2>4, Zenon DEF Builders
  <2>6. ASSUME b.haveMPU, \A y \in Prior(w) : MpuOf(y) # u.mpu
        PROVE  Cardinality(HeadsOf(Prior(w), u.mpu)) = 0
    <3>1. HeadsOf(Prior(w), u.mpu) = {}
      BY <2>6 DEF HeadsOf
    <3>2. QED
      BY <3>1, FS_EmptySet
  <2>7. QED
    BY <1>2, <2>4, <2>5, <2>6 DEF Fresh
<1>3. CASE b.haveMPU /\ u.mpu = b.mpu
  BY <1>3 DEF Turned, Builds
<1>4. QED
  BY <1>2, <1>3

\* the builder has used the unit
Used(c, u, w, v, T, i) ==
  /\ c \in Builders /\ Builds(c, Prior(w) \cup Within(w, v), T, i)
  /\ c.haveMPU /\ c.mpu = u.mpu

\* what an access unit needs to start
Ready(n, u, w, v, T, i) ==
  /\ IsGiven(u, w, v, i, T) /\ n \in Builders /\ n.haveMPU /\ n.mpu = u.mpu /\ n.trusted
  /\ n.index = Cardinality(HeadsOf(Prior(w), u.mpu)) \/ Spoiled(u.mpu, T, i)
  /\ w \in Heads

\* an access unit that starts with the unit
LEMMA StartBuilds ==
  ASSUME TypeOK, Delimited, AV, NEW i \in 1 .. Length, NEW T, NEW u, NEW w, NEW v, NEW n,
         Ready(n, u, w, v, T, i), NEW c, c = Extended(Started(n, u.rap), u)
  PROVE  Used(c, u, w, v, T, i) /\ c.open /\ c.data[1].at = w
<1>0. /\ IsGiven(u, w, v, i, T) /\ n \in Builders /\ n.haveMPU /\ n.mpu = u.mpu /\ n.trusted
      /\ n.index = Cardinality(HeadsOf(Prior(w), u.mpu)) \/ Spoiled(u.mpu, T, i)
      /\ w \in Heads
  BY Zenon DEF Ready
<1>1. /\ u.data \in Seq(Cells) /\ u.data # <<>> /\ u.rap \in BOOLEAN /\ u.data[1].at = w
      /\ Ats(u.data) = Within(w, v) /\ Increasing(u.data) /\ u.mpu = MpuOf(w)
      /\ \A x \in Within(w, v) : MpuOf(x) = MpuOf(w) /\ (x \in Heads => x = w)
      /\ w[1] .. i \subseteq T /\ w \in Media
  BY <1>0 DEF IsGiven
<1>2. PICK C : C = Seq(Cells)
  OBVIOUS
<1>3. n \in [ haveMPU : BOOLEAN, mpu : Nat, trusted : BOOLEAN, index : Nat, open : BOOLEAN,
              rap : BOOLEAN, data : C ]
  BY <1>0, <1>2 DEF Builders
<1>4. PICK d : d = <<>> \o u.data
  OBVIOUS
<1>5. d = u.data /\ d \in C
  BY <1>0, <1>1, <1>2, <1>4
<1>6. PICK z : z = Started(n, u.rap)
  OBVIOUS
<1>7. z = [n EXCEPT !.index = n.index + 1, !.open = TRUE, !.rap = u.rap, !.data = <<>>]
  BY <1>0, <1>6 DEF Started
<1>21. <<>> \in C
  BY <1>0, <1>2
<1>8. /\ z \in [ haveMPU : BOOLEAN, mpu : Nat, trusted : BOOLEAN, index : Nat, open : BOOLEAN,
                 rap : BOOLEAN, data : C ]
      /\ z.data = <<>> /\ z.rap = u.rap /\ z.haveMPU = n.haveMPU /\ z.mpu = n.mpu
      /\ z.open /\ z.trusted = n.trusted /\ z.index = n.index + 1
  <2>1. PICK j \in Nat : j = n.index + 1
    BY <1>0, <1>3
  <2>2. PICK r \in BOOLEAN : r = u.rap
    BY <1>0, <1>1
  <2>3. z = [n EXCEPT !.index = j, !.open = TRUE, !.rap = r, !.data = <<>>]
    BY <1>0, <1>7, <2>1, <2>2
  <2>4. QED
    BY <1>0, <1>3, <1>21, <2>1, <2>2, <2>3
<1>9. c = [z EXCEPT !.data = d, !.rap = z.rap \/ u.rap]
  BY <1>0, <1>4, <1>6, <1>8 DEF Extended
<1>10. /\ c \in [ haveMPU : BOOLEAN, mpu : Nat, trusted : BOOLEAN, index : Nat, open : BOOLEAN,
                  rap : BOOLEAN, data : C ]
       /\ c.haveMPU /\ c.mpu = u.mpu /\ c.open /\ c.trusted /\ c.index = n.index + 1 /\ c.data = d
  BY <1>0, <1>1, <1>5, <1>8, <1>9
<1>11. c \in Builders
  BY <1>0, <1>2, <1>10, Zenon DEF Builders
<1>12. PICK D : D = Prior(w)
  OBVIOUS
<1>13. PICK E : E = D \cup Within(w, v)
  OBVIOUS
<1>14. /\ w \in Within(w, v) /\ Cardinality(HeadsOf(E, u.mpu)) = Cardinality(HeadsOf(D, u.mpu)) + 1
  <2>1. /\ w \in Within(w, v)
        /\ Cardinality(HeadsOf(Prior(w) \cup Within(w, v), u.mpu)) = Cardinality(HeadsOf(Prior(w), u.mpu)) + 1
    <3>1. PICK D1, E1 : /\ D1 = Prior(w) /\ E1 = Prior(w) \cup Within(w, v)
                        /\ D1 \in SUBSET Media /\ E1 \in SUBSET Media /\ w \in Within(w, v)
                        /\ w \in Heads => Cardinality(HeadsOf(E1, u.mpu)) = Cardinality(HeadsOf(D1, u.mpu)) + 1
                        /\ w \notin Heads => HeadsOf(E1, u.mpu) = HeadsOf(D1, u.mpu)
      BY <1>0, HeadsAdded
    <3>2. QED
      BY <1>0, <3>1
  <2>2. QED
    BY <1>0, <1>12, <1>13, <2>1, Zenon
<1>15. {x \in E : ~ Before(x, w)} = Within(w, v)
  BY <1>0, <1>12, <1>13 DEF Prior, Within
<1>16. Opened(c, E, T, i)
  BY <1>0, <1>1, <1>5, <1>10, <1>15 DEF Opened
<1>17. c.index = Cardinality(HeadsOf(E, c.mpu)) \/ Spoiled(c.mpu, T, i)
  BY <1>0, <1>10, <1>12, <1>14
<1>18. \E x \in E : MpuOf(x) = c.mpu
  BY <1>0, <1>1, <1>10, <1>13, <1>14
<1>19. Builds(c, E, T, i)
  BY <1>0, <1>10, <1>16, <1>17, <1>18 DEF Builds
<1>20. QED
  BY <1>0, <1>1, <1>5, <1>10, <1>11, <1>12, <1>13, <1>19 DEF Used

\* an access unit that the unit continues
LEMMA ExtendBuilds ==
  ASSUME TypeOK, Delimited, AV, NEW i \in 1 .. Length, NEW T, NEW u, NEW w, NEW v,
         IsGiven(u, w, v, i, T), NEW n \in Builders, n.haveMPU, n.mpu = u.mpu, n.trusted,
         n.index = Cardinality(HeadsOf(Prior(w), u.mpu)) \/ Spoiled(u.mpu, T, i),
         w \notin Heads, n.open, Opened(n, Prior(w), T, i), NEW c, c = Extended(n, u)
  PROVE  Used(c, u, w, v, T, i) /\ c.open /\ c.data[1].at = n.data[1].at
<1>1. /\ u.data \in Seq(Cells) /\ u.data # <<>> /\ u.rap \in BOOLEAN /\ u.data[1].at = w
      /\ Ats(u.data) = Within(w, v) /\ Increasing(u.data) /\ u.mpu = MpuOf(w)
      /\ \A x \in Within(w, v) : MpuOf(x) = MpuOf(w) /\ (x \in Heads => x = w)
      /\ w \in Media
  BY DEF IsGiven
<1>2. PICK C : C = Seq(Cells)
  OBVIOUS
<1>3. n \in [ haveMPU : BOOLEAN, mpu : Nat, trusted : BOOLEAN, index : Nat, open : BOOLEAN,
              rap : BOOLEAN, data : C ]
  BY <1>2 DEF Builders
<1>4. n.data \in Seq(Cells)
  BY <1>2, <1>3
<1>5. PICK d : d = n.data \o u.data
  OBVIOUS
<1>6. PICK hd : hd = n.data[1].at
  OBVIOUS
<1>7. PICK D : D = Prior(w)
  OBVIOUS
<1>8. PICK E : E = D \cup Within(w, v)
  OBVIOUS
<1>9. /\ n.data # <<>> /\ hd \in Heads /\ Ats(n.data) = {x \in D : ~ Before(x, hd)}
      /\ Increasing(n.data)
      /\ \A x \in Ats(n.data) : MpuOf(x) = n.mpu /\ (x \in Heads => x = hd)
      /\ hd[1] .. i \subseteq T
  BY <1>6, <1>7 DEF Opened
<1>10. d \in Seq(Cells) /\ Ats(d) = Ats(n.data) \cup Ats(u.data) /\ d[1] = n.data[1] /\ d # <<>>
  <2>3. PICK a : a = n.data
    OBVIOUS
  <2>4. PICK e : e = u.data
    OBVIOUS
  <2>5. a \in Seq(Cells) /\ e \in Seq(Cells) /\ a # <<>> /\ d = a \o e
    BY <1>1, <1>4, <1>5, <1>9, <2>3, <2>4
  <2>6. Len(a) > 0 /\ Len(a) \in Nat /\ Len(e) \in Nat
    BY <2>5
  <2>7. Len(d) > 0 /\ d[1] = a[1]
    BY <2>5, <2>6
  <2>1. Len(n.data) > 0 /\ Len(d) > 0 /\ d[1] = n.data[1]
    BY <2>3, <2>6, <2>7
  <2>2. QED
    BY <1>1, <1>4, <1>5, <2>1, ConcatAts
<1>11. hd \in Ats(n.data) /\ hd \in D
  <2>1. 1 \in 1 .. Len(n.data)
    BY <1>4, <1>9
  <2>2. hd \in Ats(n.data)
    BY <1>6, <2>1 DEF Ats
  <2>3. QED
    BY <1>9, <2>2
<1>12. \A x \in D, y \in Within(w, v) : Before(x, y)
  BY <1>1, <1>7, PlaceOrder DEF Prior, Within
<1>13. Increasing(d)
  <2>1. \A x \in Ats(n.data), y \in Ats(u.data) : Before(x, y)
    BY <1>1, <1>9, <1>12
  <2>2. QED
    BY <1>1, <1>4, <1>5, <1>9, <2>1, ConcatAts
<1>14. Ats(d) = {x \in E : ~ Before(x, hd)}
  <2>1. \A y \in Within(w, v) : ~ Before(y, hd)
    <3>1. \A y \in Within(w, v) : y \in Media /\ Before(hd, y)
      BY <1>11, <1>12 DEF Within
    <3>2. hd \in Media
      BY <1>7, <1>11 DEF Prior
    <3>3. QED
      BY <3>1, <3>2, PlaceOrder
  <2>2. QED
    BY <1>1, <1>8, <1>9, <1>10, <2>1
<1>15. c = [n EXCEPT !.data = d, !.rap = n.rap \/ u.rap]
  BY <1>5 DEF Extended
<1>16. /\ c \in [ haveMPU : BOOLEAN, mpu : Nat, trusted : BOOLEAN, index : Nat, open : BOOLEAN,
                  rap : BOOLEAN, data : C ]
       /\ c.haveMPU /\ c.mpu = u.mpu /\ c.open /\ c.trusted /\ c.index = n.index /\ c.data = d
  BY <1>1, <1>2, <1>3, <1>10, <1>15
<1>17. c \in Builders
  BY <1>2, <1>16, Zenon DEF Builders
<1>18. \A x \in Ats(d) : MpuOf(x) = c.mpu /\ (x \in Heads => x = hd)
  BY <1>1, <1>9, <1>10, <1>16
<1>19. Opened(c, E, T, i)
  BY <1>6, <1>9, <1>10, <1>13, <1>14, <1>16, <1>18 DEF Opened
<1>20. HeadsOf(E, u.mpu) = HeadsOf(D, u.mpu)
  <2>1. HeadsOf(Prior(w) \cup Within(w, v), u.mpu) = HeadsOf(Prior(w), u.mpu)
    <3>1. PICK D1, E1 : /\ D1 = Prior(w) /\ E1 = Prior(w) \cup Within(w, v)
                        /\ D1 \in SUBSET Media /\ E1 \in SUBSET Media /\ w \in Within(w, v)
                        /\ w \in Heads => Cardinality(HeadsOf(E1, u.mpu)) = Cardinality(HeadsOf(D1, u.mpu)) + 1
                        /\ w \notin Heads => HeadsOf(E1, u.mpu) = HeadsOf(D1, u.mpu)
      BY HeadsAdded
    <3>2. QED
      BY <3>1
  <2>2. QED
    BY <1>7, <1>8, <2>1, Zenon
<1>21. c.index = Cardinality(HeadsOf(E, c.mpu)) \/ Spoiled(c.mpu, T, i)
  BY <1>7, <1>16, <1>20
<1>22. \E x \in E : MpuOf(x) = c.mpu
  BY <1>8, <1>9, <1>11, <1>16
<1>23. Builds(c, E, T, i)
  BY <1>16, <1>19, <1>21, <1>22 DEF Builds
<1>24. QED
  BY <1>6, <1>7, <1>8, <1>10, <1>16, <1>17, <1>23 DEF Used
\* an open access unit that an MPU ends is ended by a head: MPUs begin with one
LEMMA MpuBegins ==
  ASSUME TypeOK, Delimited, AV, NEW i \in 1 .. Length, NEW T, NEW u, NEW w, NEW v,
         IsGiven(u, w, v, i, T), NEW b \in Builders, Opened(b, Prior(w), T, i), u.mpu # b.mpu
  PROVE  w \in Heads
<1>1. w \in Media /\ u.mpu = MpuOf(w) /\ (Delimits(Kind, u) <=> w \in Heads)
  BY DEF IsGiven
<1>2. PICK hd : hd = b.data[1].at
  OBVIOUS
<1>3. /\ hd \in Heads /\ Ats(b.data) = {x \in Prior(w) : ~ Before(x, hd)}
      /\ \A x \in Ats(b.data) : MpuOf(x) = b.mpu
      /\ b.data # <<>> /\ b.data \in Seq(Cells)
  BY <1>2 DEF Opened, Builders
<1>4. hd \in Ats(b.data) /\ hd \in Media
  <2>1. 1 \in 1 .. Len(b.data)
    BY <1>3
  <2>2. QED
    BY <1>2, <1>3, <2>1 DEF Ats, Heads
<1>5. hd \in Prior(w) /\ Before(hd, w) /\ MpuOf(hd) = b.mpu
  BY <1>3, <1>4 DEF Prior
<1>6. ASSUME NEW y \in Prior(w), MpuOf(y) = u.mpu
      PROVE  FALSE
  <2>1. y \in Media
    BY <1>6 DEF Prior
  <2>2. CASE Before(y, hd)
    <3>1. MpuOf(y) <= MpuOf(hd) /\ MpuOf(hd) <= MpuOf(w)
      BY <1>1, <1>4, <1>5, <2>1, <2>2, MpuOrder
    <3>2. MpuOf(y) \in Nat /\ MpuOf(hd) \in Nat
      BY <1>4, <2>1, <2>2, MpuOrder
    <3>3. QED
      BY <1>1, <1>5, <1>6, <3>1, <3>2
  <2>3. CASE ~ Before(y, hd)
    BY <1>3, <1>6, <2>3
  <2>4. QED
    BY <2>2, <2>3
<1>7. CASE Kind = "audio"
  BY <1>1, <1>7 DEF Delimits
<1>8. CASE Kind = "video"
  <2>1. /\ w[1] \in 1 .. Length /\ w[1] \in Nat /\ w[2] \in Nat /\ w[2] >= 1 /\ w = <<w[1], w[2]>>
        /\ Packets[w[1]].mfu
    BY <1>1, PlaceShape
  <2>2. ASSUME NEW j \in 1 .. Length, Packets[j].mfu
        PROVE  <<j, 1>> \in Media /\ <<j, 1>>[1] = j /\ <<j, 1>>[2] = 1
    <3>1. 1 \in 1 .. Len(Packets[j].pieces)
      BY PacketType
    <3>2. QED
      BY <2>2, <3>1, PlaceIn
  <2>3. w[2] = 1
    <3>1. SUFFICES ASSUME w[2] # 1
                   PROVE  FALSE
      OBVIOUS
    <3>2. PICK y : y = <<w[1], 1>>
      OBVIOUS
    <3>3. y \in Media /\ y[1] = w[1] /\ y[2] = 1
      BY <2>1, <2>2, <3>2
    <3>4. Before(y, w)
      BY <2>1, <3>1, <3>3 DEF Before
    <3>5. y \in Prior(w) /\ MpuOf(y) = u.mpu
      BY <1>1, <3>3, <3>4 DEF Prior, MpuOf
    <3>6. QED
      BY <1>6, <3>5
  <2>4. ASSUME NEW j \in 1 .. w[1] - 1, Packets[j].mfu
        PROVE  Packets[j].mpu # Packets[w[1]].mpu
    <3>1. j \in 1 .. Length /\ j < w[1]
      BY <2>1, LengthType
    <3>2. PICK y : y = <<j, 1>>
      OBVIOUS
    <3>3. y \in Media /\ y[1] = j
      BY <2>2, <2>4, <3>1, <3>2
    <3>4. y \in Prior(w)
      BY <3>1, <3>3 DEF Prior, Before
    <3>5. QED
      BY <1>1, <1>6, <3>3, <3>4 DEF MpuOf
  <2>5. "aud" \in Packets[w[1]].pieces[1]
    BY <1>8, <2>1, <2>4, PacketOfKind
  <2>6. QED
    BY <1>1, <1>8, <2>3, <2>5, HeadIs
<1>9. QED
  BY <1>7, <1>8 DEF AV

LEMMA UnitBuilds ==
  ASSUME TypeOK, Delimited, AV, NEW i \in 1 .. Length, NEW T, NEW u, NEW w, NEW v,
         IsGiven(u, w, v, i, T), NEW b \in Builders, Builds(b, Prior(w), T, i), Fresh(b, u, w, T, i),
         NEW r, r = PushUnit(Kind, b, u)
  PROVE  /\ Used(r.b, u, w, v, T, i)
         /\ r.out = <<>> \/ (b.open /\ r.out = <<AccessUnit(b)>> /\ w \in Heads)
         /\ r.b.open => \/ r.b.data[1].at = w
                        \/ r.out = <<>> /\ b.open /\ r.b.data[1].at = b.data[1].at
<1>1. PICK n : n = Turned(b, u)
  OBVIOUS
<1>2. /\ n \in Builders /\ n.haveMPU /\ n.mpu = u.mpu /\ n.data = b.data
      /\ n.open => n.trusted /\ n = b /\ b.open /\ Opened(b, Prior(w), T, i)
      /\ n.trusted => n.index = Cardinality(HeadsOf(Prior(w), u.mpu)) \/ Spoiled(u.mpu, T, i)
  BY <1>1, TurnedBuilds
<1>3. ~ u.loss /\ (Delimits(Kind, u) <=> w \in Heads)
  BY DEF IsGiven
<1>4. PICK change \in BOOLEAN : change <=> (~ b.haveMPU \/ u.mpu # b.mpu)
  OBVIOUS
<1>5. PICK starts \in BOOLEAN : starts <=> (n.trusted /\ w \in Heads)
  OBVIOUS
<1>6. n.trusted \in BOOLEAN /\ n.open \in BOOLEAN /\ b.open \in BOOLEAN /\ b.haveMPU \in BOOLEAN
  BY <1>2 DEF Builders
<1>7. /\ r.b = CASE ~ n.trusted -> n
                 [] n.trusted /\ Delimits(Kind, u) -> Extended(Started(n, u.rap), u)
                 [] OTHER -> IF n.open THEN Extended(n, u) ELSE n
      /\ r.out = IF (~ b.haveMPU \/ u.mpu # b.mpu) \/ (n.trusted /\ Delimits(Kind, u))
                 THEN Flushed(b) ELSE <<>>
  BY <1>1, <1>3 DEF PushUnit, Turned
<1>8. r.out = <<>> \/ (b.open /\ r.out = <<AccessUnit(b)>> /\ w \in Heads)
  <2>1. CASE ~ b.open
    BY <1>7, <2>1 DEF Flushed
  <2>2. CASE b.open /\ n.trusted /\ Delimits(Kind, u)
    BY <1>3, <1>7, <2>2 DEF Flushed
  <2>3. CASE b.open /\ (~ b.haveMPU \/ u.mpu # b.mpu)
    <3>1. b.haveMPU /\ Opened(b, Prior(w), T, i)
      BY <2>3 DEF Builds
    <3>2. w \in Heads
      BY <2>3, <3>1, MpuBegins
    <3>3. QED
      BY <1>7, <2>3, <3>2 DEF Flushed
  <2>4. QED
    BY <1>7, <2>1, <2>2, <2>3
<1>9. PICK D : D = Prior(w)
  OBVIOUS
<1>10. PICK E : E = Prior(w) \cup Within(w, v)
  OBVIOUS
<1>11. CASE n.trusted /\ w \in Heads
  <2>1. r.b = Extended(Started(n, u.rap), u)
    BY <1>3, <1>7, <1>11
  <2>2. Used(r.b, u, w, v, T, i) /\ r.b.open /\ r.b.data[1].at = w
    <3>1. IsGiven(u, w, v, i, T) /\ n \in Builders /\ n.haveMPU /\ n.mpu = u.mpu /\ n.trusted
      BY <1>2, <1>11
    <3>2. n.index = Cardinality(HeadsOf(Prior(w), u.mpu)) \/ Spoiled(u.mpu, T, i)
      BY <1>2, <1>11
    <3>3. w \in Heads
      BY <1>11
    <3>4. Ready(n, u, w, v, T, i)
      BY <3>1, <3>2, <3>3, Zenon DEF Ready
    <3>5. QED
      BY <2>1, <3>4, StartBuilds
  <2>3. QED
    BY <1>8, <2>2
<1>12. CASE n.trusted /\ w \notin Heads /\ n.open
  <2>1. r.b = Extended(n, u)
    BY <1>3, <1>7, <1>12
  <2>2. n = b /\ b.open /\ Opened(n, Prior(w), T, i)
    BY <1>2, <1>12
  <2>3. Used(r.b, u, w, v, T, i) /\ r.b.open /\ r.b.data[1].at = n.data[1].at
    <3>1. n \in Builders /\ n.haveMPU /\ n.mpu = u.mpu /\ n.trusted /\ n.open
      BY <1>2, <1>12
    <3>2. n.index = Cardinality(HeadsOf(Prior(w), u.mpu)) \/ Spoiled(u.mpu, T, i)
      BY <1>2, <1>12
    <3>3. w \notin Heads
      BY <1>12
    <3>4. QED
      BY <2>1, <2>2, <3>1, <3>2, <3>3, ExtendBuilds
  <2>4. r.out = <<>>
    BY <1>8, <1>12
  <2>5. QED
    BY <2>2, <2>3, <2>4
<1>13. CASE ~ n.trusted \/ (w \notin Heads /\ ~ n.open)
  <2>1. r.b = n
    BY <1>3, <1>7, <1>13
  <2>2. ~ n.open
    BY <1>2, <1>13
  <2>3. w \in Within(w, v) /\ u.mpu = MpuOf(w) /\ E = Prior(w) \cup Within(w, v)
    <3>1. w \in Within(w, v)
      BY HeadsAdded
    <3>2. QED
      BY <1>10, <3>1 DEF IsGiven
  <2>4. \E x \in E : MpuOf(x) = n.mpu
    BY <1>2, <2>3
  <2>5. n.trusted => n.index = Cardinality(HeadsOf(E, n.mpu)) \/ Spoiled(n.mpu, T, i)
    <3>1. SUFFICES ASSUME n.trusted
                   PROVE  n.index = Cardinality(HeadsOf(E, n.mpu)) \/ Spoiled(n.mpu, T, i)
      OBVIOUS
    <3>2. w \notin Heads
      BY <1>13, <3>1
    <3>3. HeadsOf(Prior(w) \cup Within(w, v), u.mpu) = HeadsOf(Prior(w), u.mpu)
      <4>1. PICK D1, E1 : /\ D1 = Prior(w) /\ E1 = Prior(w) \cup Within(w, v)
                          /\ D1 \in SUBSET Media /\ E1 \in SUBSET Media /\ w \in Within(w, v)
                          /\ w \in Heads => Cardinality(HeadsOf(E1, u.mpu)) = Cardinality(HeadsOf(D1, u.mpu)) + 1
                          /\ w \notin Heads => HeadsOf(E1, u.mpu) = HeadsOf(D1, u.mpu)
        BY HeadsAdded
      <4>2. QED
        BY <3>2, <4>1
    <3>4. QED
      BY <1>2, <1>10, <3>1, <3>3
  <2>6. Builds(n, E, T, i)
    BY <1>2, <2>2, <2>4, <2>5 DEF Builds
  <2>7. QED
    BY <1>2, <1>8, <1>10, <2>1, <2>2, <2>6 DEF Used
<1>14. QED
  BY <1>6, <1>11, <1>12, <1>13

-----------------------------------------------------------------------------
(* An access unit that is ended by the next one is whole.                   *)

\* the cells are those of the places of one unit, in their order
IsWhole(data, hd) ==
  /\ Len(data) = Cardinality(UnitFrom(hd)) /\ Range(AtsOf(data)) = UnitFrom(hd)
  /\ \A k \in 1 .. Len(data) - 1 : Before(data[k].at, data[k + 1].at)

LEMMA WholeIs ==
  ASSUME TypeOK, Delimited, AV, NEW data \in Seq(Cells), Increasing(data),
         NEW hd, Ats(data) = UnitFrom(hd)
  PROVE  IsWhole(data, hd)
<1>1. PICK n \in Nat : n = Len(data)
  OBVIOUS
<1>2. PICK S : S = UnitFrom(hd)
  OBVIOUS
<1>3. PICK f : f = [k \in 1 .. n |-> data[k].at]
  OBVIOUS
<1>4. \A k \in 1 .. n : f[k] = data[k].at
  BY <1>3
<1>5. S = {f[k] : k \in 1 .. n}
  BY <1>1, <1>2, <1>4 DEF Ats
<1>6. \A k \in 1 .. n : f[k] \in Media
  BY <1>2, <1>5 DEF UnitFrom
<1>7. \A k, l \in 1 .. n : k < l => Before(f[k], f[l])
  BY <1>1, <1>4 DEF Increasing
<1>8. \A k, l \in 1 .. n : f[k] = f[l] => k = l
  <2>1. SUFFICES ASSUME NEW k \in 1 .. n, NEW l \in 1 .. n, f[k] = f[l], k # l
                 PROVE  FALSE
    OBVIOUS
  <2>2. k < l \/ l < k
    BY <2>1
  <2>3. Before(f[k], f[k])
    BY <1>7, <2>1, <2>2
  <2>4. QED
    BY <1>6, <2>3, PlaceOrder
<1>9. f \in Bijection(1 .. n, S)
  <2>1. f \in [1 .. n -> S]
    BY <1>3, <1>4, <1>5
  <2>2. \A y \in S : \E k \in 1 .. n : f[k] = y
    BY <1>5
  <2>3. QED
    BY <1>8, <2>1, <2>2 DEF Bijection, Injection, Surjection, IsInjective
<1>10. Cardinality(S) = n
  BY <1>9, FS_CountingElements DEF ExistsBijection
<1>11. Range(AtsOf(data)) = S
  <2>1. DOMAIN data = 1 .. n
    BY <1>1
  <2>2. AtsOf(data) = f
    BY <1>3, <2>1 DEF AtsOf
  <2>3. DOMAIN f = 1 .. n
    BY <1>3
  <2>4. QED
    BY <1>5, <2>2, <2>3 DEF Range
<1>12. \A k \in 1 .. n - 1 : Before(data[k].at, data[k + 1].at)
  <2>1. SUFFICES ASSUME NEW k \in 1 .. n - 1
                 PROVE  Before(data[k].at, data[k + 1].at)
    OBVIOUS
  <2>2. k \in 1 .. n /\ k + 1 \in 1 .. n /\ k < k + 1
    OBVIOUS
  <2>3. QED
    BY <1>1, <2>2 DEF Increasing
<1>13. QED
  BY <1>1, <1>2, <1>10, <1>11, <1>12 DEF IsWhole

\* what the open access unit is when the next one begins at w
Completes(b, w, T, i, hd) ==
  /\ hd = b.data[1].at /\ hd \in Heads /\ hd \in Prior(w) /\ MpuOf(hd) = b.mpu
  /\ b.data # <<>> /\ b.data \in Seq(Cells) /\ IsWhole(b.data, hd)
  /\ b.index = IndexOf(hd) \/ Spoiled(b.mpu, T, i)
  /\ hd[1] .. i \subseteq T
  /\ b.data[Len(b.data)].at \in Prior(w) /\ ~ Before(b.data[Len(b.data)].at, hd)

LEMMA UnitCompletes ==
  ASSUME TypeOK, Delimited, AV, NEW i \in 1 .. Length, NEW T, NEW w \in Heads,
         NEW b \in Builders, b.open, Builds(b, Prior(w), T, i)
  PROVE  \E hd : Completes(b, w, T, i, hd)
<1>1. PICK hd : hd = b.data[1].at
  OBVIOUS
<1>2. /\ b.trusted /\ b.data # <<>> /\ b.data \in Seq(Cells) /\ hd \in Heads
      /\ Ats(b.data) = {x \in Prior(w) : ~ Before(x, hd)} /\ Increasing(b.data)
      /\ \A x \in Ats(b.data) : MpuOf(x) = b.mpu /\ (x \in Heads => x = hd)
      /\ hd[1] .. i \subseteq T
      /\ b.index = Cardinality(HeadsOf(Prior(w), b.mpu)) \/ Spoiled(b.mpu, T, i)
  BY <1>1 DEF Builds, Opened, Builders
<1>3. PICK n \in Nat \ {0} : n = Len(b.data)
  BY <1>2
<1>4. hd \in Ats(b.data) /\ b.data[n].at \in Ats(b.data)
  <2>1. 1 \in 1 .. n /\ n \in 1 .. n
    OBVIOUS
  <2>2. QED
    BY <1>1, <1>3, <2>1 DEF Ats
<1>5. /\ hd \in Media /\ w \in Media /\ hd \in Prior(w) /\ Before(hd, w) /\ MpuOf(hd) = b.mpu
      /\ b.data[n].at \in Prior(w) /\ ~ Before(b.data[n].at, hd)
  BY <1>2, <1>4 DEF Prior, Heads
<1>6. \A z \in Heads : z \in Prior(w) /\ ~ Before(z, hd) => z = hd
  BY <1>2
<1>7. \A z \in Heads : z \in Media
  BY DEF Heads
<1>8. Ats(b.data) = UnitFrom(hd)
  <2>1. ASSUME NEW x \in Media
        PROVE  (Before(x, w) /\ ~ Before(x, hd)) <=> x \in UnitFrom(hd)
    <3>1. ASSUME Before(x, w), ~ Before(x, hd), NEW z \in Heads, Before(hd, z), ~ Before(x, z)
          PROVE  FALSE
      <4>1. Before(z, w)
        BY <1>5, <1>7, <3>1, PlaceOrder
      <4>2. z \in Prior(w) /\ ~ Before(z, hd)
        BY <1>5, <1>7, <3>1, <4>1, PlaceOrder DEF Prior
      <4>3. z = hd
        BY <1>6, <4>2
      <4>4. QED
        BY <1>5, <3>1, <4>3, PlaceOrder
    <3>2. ASSUME x \in UnitFrom(hd)
          PROVE  Before(x, w) /\ ~ Before(x, hd)
      BY <1>5, <3>2 DEF UnitFrom
    <3>3. QED
      BY <3>1, <3>2 DEF UnitFrom
  <2>2. \A x \in UnitFrom(hd) : x \in Media
    BY DEF UnitFrom
  <2>3. QED
    BY <1>2, <2>1, <2>2 DEF Prior
<1>9. HeadsOf(Prior(w), b.mpu) = {z \in Heads : MpuOf(z) = MpuOf(hd) /\ ~ Before(hd, z)}
  <2>1. ASSUME NEW z \in Heads
        PROVE  z \in Prior(w) <=> ~ Before(hd, z) \/ (z \in Prior(w) /\ Before(hd, z))
    <3>1. ASSUME ~ Before(hd, z)
          PROVE  z \in Prior(w)
      <4>1. z = hd \/ Before(z, hd)
        BY <1>5, <1>7, <3>1, PlaceOrder
      <4>2. Before(z, w)
        BY <1>5, <1>7, <4>1, PlaceOrder
      <4>3. QED
        BY <1>7, <4>2 DEF Prior
    <3>2. QED
      BY <3>1
  <2>2. ASSUME NEW z \in Heads, z \in Prior(w)
        PROVE  ~ Before(hd, z)
    <3>1. SUFFICES ASSUME Before(hd, z)
                   PROVE  FALSE
      OBVIOUS
    <3>2. ~ Before(z, hd)
      BY <1>5, <1>7, <3>1, PlaceOrder
    <3>3. z = hd
      BY <1>6, <2>2, <3>2
    <3>4. QED
      BY <1>5, <3>1, <3>3, PlaceOrder
  <2>3. \A z \in Heads : z \in Prior(w) <=> ~ Before(hd, z)
    BY <2>1, <2>2
  <2>4. QED
    BY <1>5, <2>3 DEF HeadsOf
<1>10. b.index = IndexOf(hd) \/ Spoiled(b.mpu, T, i)
  BY <1>2, <1>9 DEF IndexOf
<1>11. IsWhole(b.data, hd)
  BY <1>2, <1>8, WholeIs
<1>12. Completes(b, w, T, i, hd)
  BY <1>1, <1>2, <1>3, <1>5, <1>10, <1>11 DEF Completes
<1>13. QED
  BY <1>12
-----------------------------------------------------------------------------
(* The marks of the stream and what it sends, m being the first packet.     *)
IsSeq(z) == \E S : z \in Seq(S)

LEMMA Appended ==
  ASSUME NEW y, IsSeq(y), NEW o, NEW z, z = Append(y, o)
  PROVE  /\ IsSeq(z) /\ Len(y) \in Nat /\ Len(z) = Len(y) + 1 /\ z[Len(y) + 1] = o
         /\ \A j \in 1 .. Len(y) : z[j] = y[j]
         /\ DOMAIN y = 1 .. Len(y) /\ DOMAIN z = 1 .. Len(y) + 1
<1>1. PICK S : y \in Seq(S)
  BY DEF IsSeq
<1>2. PICK R : R = S \cup {o}
  OBVIOUS
<1>3. y \in Seq(R) /\ o \in R
  BY <1>1, <1>2
<1>4. z \in Seq(R) /\ Len(z) = Len(y) + 1 /\ Len(y) \in Nat
  BY <1>3
<1>5. z[Len(y) + 1] = o /\ \A j \in 1 .. Len(y) : z[j] = y[j]
  BY <1>3
<1>6. DOMAIN y = 1 .. Len(y) /\ DOMAIN z = 1 .. Len(z)
  BY <1>3, <1>4
<1>7. QED
  BY <1>4, <1>5, <1>6 DEF IsSeq

CarryStep(p, n, o) == n + o.carry
CarryKeeps(p, t, n) == t = {} => n = 0
CF == INSTANCE FoldFacts WITH Step <- CarryStep, Keeps <- CarryKeeps

LEMMA CarriedIs ==
  ASSUME NEW z
  PROVE  Carried(z) = CF!Fold(0, 0, z)
BY DEF Carried, CF!Fold, CF!FoldLeft, FoldLeft, MapThenFoldSet, CF!MapThenFoldSet, CF!Max, Max,
       CarryStep

LEMMA CarriedNone == Carried(<<>>) = 0
<1>1. DOMAIN <<>> = 1 .. 0 /\ CarryKeeps(0, 1 .. 0, 0)
  BY DEF CarryKeeps
<1>2. CarryKeeps(0, 1 .. 0, CF!Fold(0, 0, <<>>))
  <2>1. \A i \in 1 .. 0 : \A acc :
          CarryKeeps(0, 1 .. (i - 1), acc) => CarryKeeps(0, 1 .. i, CarryStep(0, acc, <<>>[i]))
    OBVIOUS
  <2>2. 0 \in Nat
    OBVIOUS
  <2>3. QED
    BY <1>1, <2>1, <2>2, CF!FoldKeeps
<1>3. QED
  BY <1>2, CarriedIs DEF CarryKeeps

LEMMA CarryAppend ==
  ASSUME NEW p, NEW r, NEW s, NEW n \in Nat, DOMAIN s = 1 .. n,
         NEW z, DOMAIN z = 1 .. n + 1, \A i \in 1 .. n : z[i] = s[i]
  PROVE  CF!Fold(p, r, z) = CarryStep(p, CF!Fold(p, r, s), z[n + 1])
BY CF!FoldAppend

LEMMA CarriedBy ==
  ASSUME NEW y, NEW n \in Nat, DOMAIN y = 1 .. n,
         NEW z, DOMAIN z = 1 .. n + 1, \A i \in 1 .. n : z[i] = y[i]
  PROVE  Carried(z) = Carried(y) + z[n + 1].carry
<1>1. CF!Fold(0, 0, z) = CarryStep(0, CF!Fold(0, 0, y), z[n + 1])
  BY CarryAppend
<1>2. QED
  BY <1>1, CarriedIs DEF CarryStep

LEMMA CarriedMore ==
  ASSUME NEW y, IsSeq(y), NEW o, NEW z, z = Append(y, o)
  PROVE  Carried(z) = Carried(y) + o.carry
<1>1. PICK n \in Nat : n = Len(y)
  BY Appended
<1>2. /\ DOMAIN y = 1 .. n /\ DOMAIN z = 1 .. n + 1 /\ z[n + 1] = o
      /\ \A j \in 1 .. n : z[j] = y[j]
  BY <1>1, Appended
<1>3. Carried(z) = Carried(y) + z[n + 1].carry
  BY <1>2, CarriedBy
<1>4. QED
  BY <1>2, <1>3

IsMarks(s) ==
  /\ s = [ awaitIRAP |-> s.awaitIRAP, sawPS |-> s.sawPS, disc |-> s.disc, carry |-> s.carry,
           lastDTS |-> s.lastDTS, haveDTS |-> s.haveDTS ]
  /\ s.awaitIRAP \in BOOLEAN /\ s.disc \in BOOLEAN /\ s.carry \in Nat

\* what handleAU does with an access unit: it drops it, waits, or pushes it
Drops(q, s) ==
  /\ q.out = <<>> /\ IsMarks(q.s) /\ q.s.disc /\ (Kind = "video" => q.s.awaitIRAP)
  /\ q.s.carry = s.carry

Waits(q, s) ==
  /\ q.out = <<>> /\ IsMarks(q.s) /\ q.s.disc = s.disc /\ q.s.awaitIRAP = s.awaitIRAP
  /\ q.s.carry = s.carry

Pushes(q, s, au, o) ==
  /\ q.out = <<o>> /\ o.mpu = au.mpu /\ o.index = au.index /\ o.data = au.data
  /\ o.carry = s.carry /\ (s.disc => o.disc)
  /\ Kind = "video" /\ s.awaitIRAP => Somewhere(Irap, o.data) \/ stream.resume
  /\ IsMarks(q.s) /\ q.s.carry = 0

LEMMA HandledIs ==
  ASSUME NEW s, IsMarks(s), NEW au, NEW dts,
         NEW q, q = HandleAU(Kind, s, mtimes, au, dts, DTSGap, stream.resume)
  PROVE  Drops(q, s) \/ Waits(q, s) \/ \E o : Pushes(q, s, au, o)
<1>1. PICK irap \in BOOLEAN : irap <=> Somewhere(Irap, au.data)
  OBVIOUS
<1>2. PICK ps : ps = (s.sawPS \/ Somewhere(ParamSet, au.data))
  OBVIOUS
<1>3. PICK seen : seen = [s EXCEPT !.sawPS = ps]
  OBVIOUS
<1>4. PICK wait \in BOOLEAN : wait <=> (Kind = "video" /\ s.awaitIRAP /\ ~ (irap /\ ps))
  OBVIOUS
<1>5. /\ IsMarks(seen) /\ seen.disc = s.disc /\ seen.awaitIRAP = s.awaitIRAP
      /\ seen.carry = s.carry
  BY <1>3 DEF IsMarks
<1>6. PICK known \in BOOLEAN : known <=> Timed(mtimes, au)
  OBVIOUS
<1>7. PICK bad \in BOOLEAN : bad <=> (Kind = "video" /\ Somewhere(Broken, au.data))
  OBVIOUS
<1>8. CASE ~ known \/ bad
  <2>1. q = [s |-> Refused(Kind, s), out |-> <<>>]
    BY <1>6, <1>7, <1>8 DEF HandleAU
  <2>2. q.s = [s EXCEPT !.disc = TRUE, !.awaitIRAP = s.awaitIRAP \/ Kind = "video"]
    BY <2>1 DEF Refused
  <2>3. IsMarks(q.s) /\ q.s.disc /\ (Kind = "video" => q.s.awaitIRAP) /\ q.s.carry = s.carry
    BY <2>2 DEF IsMarks
  <2>4. QED
    BY <2>1, <2>3 DEF Drops
<1>9. CASE known /\ ~ bad /\ wait /\ ~ stream.resume
  <2>1. q = [s |-> seen, out |-> <<>>]
    BY <1>1, <1>2, <1>3, <1>4, <1>6, <1>7, <1>9 DEF HandleAU
  <2>2. QED
    BY <1>5, <2>1 DEF Waits
<1>10. CASE known /\ ~ bad /\ ~ (wait /\ ~ stream.resume)
  <2>1. PICK open : open = [seen EXCEPT !.awaitIRAP = wait]
    OBVIOUS
  <2>2. IsMarks(open)
    BY <1>5, <2>1 DEF IsMarks
  <2>3. PICK z : z = [open EXCEPT !.disc = FALSE, !.carry = 0, !.lastDTS = dts, !.haveDTS = TRUE]
    OBVIOUS
  <2>4. IsMarks(z) /\ z.carry = 0
    BY <2>2, <2>3 DEF IsMarks
  <2>5. PICK jump \in BOOLEAN : jump <=> (s.haveDTS /\ dts - s.lastDTS > DTSGap)
    OBVIOUS
  <2>6. PICK o : o = [ mpu |-> au.mpu, index |-> au.index, data |-> au.data,
                       dts |-> dts, rap |-> au.rap \/ (Kind = "video" /\ irap),
                       disc |-> s.disc \/ jump, carry |-> s.carry,
                       after |-> s.awaitIRAP /\ wait ]
    OBVIOUS
  <2>7. q.s = z /\ q.out = <<o>>
    BY <1>1, <1>2, <1>3, <1>4, <1>6, <1>7, <1>10, <2>1, <2>3, <2>5, <2>6 DEF HandleAU
  <2>8. /\ o.mpu = au.mpu /\ o.index = au.index /\ o.data = au.data
        /\ o.carry = s.carry /\ (s.disc => o.disc)
    BY <2>6
  <2>9. Kind = "video" /\ s.awaitIRAP => Somewhere(Irap, o.data) \/ stream.resume
    BY <1>1, <1>4, <1>10, <2>8
  <2>10. QED
    BY <2>4, <2>7, <2>8, <2>9 DEF Pushes
<1>11. QED
  BY <1>8, <1>9, <1>10
-----------------------------------------------------------------------------
(* The builder, the marks and the output, after each of the units.          *)
Missing(T, x, y) == {j \in DOMAIN Packets : x < j /\ j < y} \ T

\* the last packet of the n-th access unit sent
EndOf(out, n, m) == IF n = 0 THEN m ELSE out[n].data[Len(out[n].data)].at[1]

\* a packet missed since is marked
Marks(s, out, T, e, m) ==
  Missing(T, EndOf(out, Len(out), m), e) # {} => s.disc /\ (Kind = "video" => s.awaitIRAP)

\* what is sent is an access unit of the stream
Right(o, D, T, i) ==
  /\ o.data # <<>> /\ o.data \in Seq(Cells) /\ o.data[1].at \in Heads /\ o.data[1].at \in D
  /\ IsWhole(o.data, o.data[1].at) /\ MpuOf(o.data[1].at) = o.mpu
  /\ o.index = IndexOf(o.data[1].at) \/ Spoiled(o.mpu, T, i)

\* and it is marked when a packet before it was missed
Warns(o, T, e) ==
  Missing(T, e, o.data[1].at[1]) # {} =>
    o.disc /\ (Kind = "video" => Somewhere(Irap, o.data) \/ stream.resume)

Sends(out, D, T, i, m) ==
  \A j \in 1 .. Len(out) :
    /\ Right(out[j], D, T, i)
    /\ Warns(out[j], T, EndOf(out, j - 1, m))
    /\ j > 1 => Before(out[j - 1].data[1].at, out[j].data[1].at)

BehindOpen(b, out) ==
  b.open => \A j \in 1 .. Len(out) : Before(out[j].data[1].at, b.data[1].at)

\* the places D were given, of the packets up to the i-th; c packets were missed
Goes(b, s, out, D, T, i, m, c) ==
  /\ b \in Builders /\ Builds(b, D, T, i) /\ BehindOpen(b, out)
  /\ IsMarks(s) /\ Marks(s, out, T, i + 1, m)
  /\ IsSeq(out) /\ Sends(out, D, T, i, m)
  /\ Carried(out) \in Nat /\ Carried(out) + s.carry = c

\* one more is sent
LEMMA SendsMore ==
  ASSUME NEW out, IsSeq(out), NEW o, NEW z, z = Append(out, o), NEW D, NEW E, D \subseteq E,
         NEW T, NEW i, NEW m, Sends(out, D, T, i, m), Right(o, E, T, i),
         Warns(o, T, EndOf(out, Len(out), m)),
         \A j \in 1 .. Len(out) : Before(out[j].data[1].at, o.data[1].at)
  PROVE  Sends(z, E, T, i, m)
<1>1. PICK n \in Nat : n = Len(out) /\ Len(z) = n + 1
  BY Appended
<1>2. z[n + 1] = o /\ \A j \in 1 .. n : z[j] = out[j]
  BY <1>1, Appended
<1>3. SUFFICES ASSUME NEW j \in 1 .. n + 1
               PROVE  /\ Right(z[j], E, T, i)
                      /\ Warns(z[j], T, EndOf(z, j - 1, m))
                      /\ j > 1 => Before(z[j - 1].data[1].at, z[j].data[1].at)
  BY <1>1 DEF Sends
<1>4. EndOf(z, j - 1, m) = EndOf(out, j - 1, m)
  <2>1. j - 1 = 0 \/ j - 1 \in 1 .. n
    OBVIOUS
  <2>2. QED
    BY <1>2, <2>1 DEF EndOf
<1>5. CASE j \in 1 .. n
  <2>1. /\ Right(out[j], D, T, i)
        /\ Warns(out[j], T, EndOf(out, j - 1, m))
        /\ j > 1 => Before(out[j - 1].data[1].at, out[j].data[1].at)
    BY <1>1, <1>5 DEF Sends
  <2>2. Right(out[j], E, T, i)
    BY <2>1 DEF Right
  <2>3. j > 1 => j - 1 \in 1 .. n
    BY <1>5
  <2>4. QED
    BY <1>2, <1>4, <1>5, <2>1, <2>2, <2>3
<1>6. CASE j = n + 1
  <2>1. j - 1 = n
    BY <1>6
  <2>2. Warns(z[j], T, EndOf(z, j - 1, m))
    BY <1>1, <1>2, <1>4, <1>6, <2>1
  <2>3. j > 1 => j - 1 \in 1 .. n
    BY <1>6
  <2>4. j > 1 => Before(z[j - 1].data[1].at, z[j].data[1].at)
    BY <1>1, <1>2, <1>6, <2>3
  <2>5. QED
    BY <1>2, <1>6, <2>2, <2>4
<1>7. j \in 1 .. n \/ j = n + 1
  OBVIOUS
<1>8. QED
  BY <1>5, <1>6, <1>7

SentBy(z, q, D, T, i, m, c) ==
  /\ Sends(z, D, T, i, m) /\ Marks(q.s, z, T, i + 1, m) /\ IsMarks(q.s) /\ IsSeq(z)
  /\ Carried(z) \in Nat /\ Carried(z) + q.s.carry = c
  /\ \A j \in 1 .. Len(z) : z[j].data[1].at \in D

\* an access unit completed when the next one begins at w
LEMMA CompletedSends ==
  ASSUME TypeOK, Delimited, AV, NEW i \in 1 .. Length, NEW T, NEW w \in Heads, w[1] <= i,
         NEW D, D = Prior(w),
         NEW b \in Builders, b.open, NEW hd, Completes(b, w, T, i, hd),
         NEW s, NEW out, NEW m, NEW c, Goes(b, s, out, D, T, i, m, c),
         NEW q, NEW o, Pushes(q, s, AccessUnit(b), o), NEW z, z = Append(out, o)
  PROVE  SentBy(z, q, D, T, i, m, c)
<1>1. /\ hd = b.data[1].at /\ hd \in Heads /\ hd \in D /\ MpuOf(hd) = b.mpu
      /\ b.data # <<>> /\ b.data \in Seq(Cells) /\ IsWhole(b.data, hd)
      /\ b.index = IndexOf(hd) \/ Spoiled(b.mpu, T, i)
      /\ hd[1] .. i \subseteq T
      /\ b.data[Len(b.data)].at \in Prior(w) /\ ~ Before(b.data[Len(b.data)].at, hd)
  BY DEF Completes
<1>2. /\ BehindOpen(b, out) /\ IsMarks(s) /\ Marks(s, out, T, i + 1, m)
      /\ IsSeq(out) /\ Sends(out, D, T, i, m)
      /\ Carried(out) \in Nat /\ Carried(out) + s.carry = c
  BY DEF Goes
<1>3. /\ o.mpu = b.mpu /\ o.index = b.index /\ o.data = b.data /\ o.carry = s.carry
      /\ (s.disc => o.disc)
      /\ Kind = "video" /\ s.awaitIRAP => Somewhere(Irap, o.data) \/ stream.resume
      /\ IsMarks(q.s) /\ q.s.carry = 0
  BY DEF Pushes, AccessUnit
<1>4. Right(o, D, T, i)
  BY <1>1, <1>3 DEF Right
<1>5. hd[1] \in Nat /\ hd[1] <= i /\ i \in Nat /\ Length \in Nat /\ DOMAIN Packets = 1 .. Length
  <2>1. hd \in Media /\ w \in Media /\ Before(hd, w)
    BY <1>1 DEF Prior, Heads
  <2>2. hd[1] \in Nat /\ w[1] \in Nat /\ hd[1] <= w[1]
    BY <2>1, PlaceShape, PlaceOrder
  <2>3. QED
    BY <2>2, LengthType
<1>6. Warns(o, T, EndOf(out, Len(out), m))
  <2>1. PICK e : e = EndOf(out, Len(out), m)
    OBVIOUS
  <2>2. SUFFICES ASSUME Missing(T, e, hd[1]) # {}
                 PROVE  s.disc /\ (Kind = "video" => s.awaitIRAP)
    BY <1>1, <1>3, <2>1 DEF Warns
  <2>3. PICK j \in 1 .. Length : e < j /\ j < hd[1] /\ j \notin T
    BY <1>5, <2>2 DEF Missing
  <2>4. j < i + 1
    BY <1>5, <2>3
  <2>5. Missing(T, e, i + 1) # {}
    BY <1>5, <2>3, <2>4 DEF Missing
  <2>6. QED
    BY <1>2, <2>1, <2>5 DEF Marks
<1>7. \A j \in 1 .. Len(out) : Before(out[j].data[1].at, o.data[1].at)
  BY <1>2, <1>3 DEF BehindOpen
<1>8. D \subseteq D
  OBVIOUS
<1>9. Sends(z, D, T, i, m)
  BY <1>2, <1>4, <1>6, <1>7, <1>8, SendsMore
<1>15. /\ Len(out) \in Nat /\ Len(z) = Len(out) + 1 /\ z[Len(out) + 1] = o /\ IsSeq(z)
  <2>1. IsSeq(out)
    BY <1>2
  <2>2. IsSeq(z)
    BY <2>1, Appended
  <2>3. Len(out) \in Nat
    BY <2>1, Appended
  <2>4. Len(z) = Len(out) + 1
    BY <2>1, Appended
  <2>5. z[Len(out) + 1] = o
    BY <2>1, Appended
  <2>6. QED
    BY <2>2, <2>3, <2>4, <2>5
<1>10. PICK n \in Nat : n = Len(out) /\ Len(z) = n + 1 /\ z[n + 1] = o /\ IsSeq(z)
  BY <1>15
<1>11. Marks(q.s, z, T, i + 1, m)
  <2>1. PICK l : l = b.data[Len(b.data)].at
    OBVIOUS
  <2>2. l \in Media /\ hd \in Media /\ ~ Before(l, hd)
    BY <1>1, <2>1 DEF Prior, Heads
  <2>3. l[1] \in Nat /\ hd[1] \in Nat
    BY <2>2, PlaceShape
  <2>4. hd[1] <= l[1]
    BY <2>2, <2>3 DEF Before
  <2>5. EndOf(z, Len(z), m) = l[1]
    <3>1. n + 1 # 0
      OBVIOUS
    <3>2. QED
      BY <1>3, <1>10, <2>1, <3>1 DEF EndOf
  <2>6. Missing(T, l[1], i + 1) = {}
    <3>1. SUFFICES ASSUME NEW j \in 1 .. Length, l[1] < j, j < i + 1, j \notin T
                   PROVE  FALSE
      BY <1>5 DEF Missing
    <3>2. j \in hd[1] .. i
      BY <1>5, <2>3, <2>4, <3>1
    <3>3. QED
      BY <1>1, <3>1, <3>2
  <2>7. QED
    BY <2>5, <2>6 DEF Marks
<1>12. Carried(z) \in Nat /\ Carried(z) + q.s.carry = c
  <2>1. Carried(z) = Carried(out) + s.carry
    BY <1>2, <1>3, CarriedMore
  <2>2. s.carry \in Nat
    BY <1>2 DEF IsMarks
  <2>3. QED
    BY <1>2, <1>3, <2>1, <2>2
<1>13. \A j \in 1 .. Len(z) : z[j].data[1].at \in D
  BY <1>9 DEF Sends, Right
<1>14. QED
  BY <1>3, <1>9, <1>10, <1>11, <1>12, <1>13 DEF SentBy

\* an access unit completed that is not sent leaves the marks
LEMMA UnsentMarks ==
  ASSUME NEW s, NEW q, IsMarks(s), Drops(q, s) \/ Waits(q, s), NEW out, NEW T, NEW e, NEW m,
         Marks(s, out, T, e, m), NEW c, Carried(out) + s.carry = c
  PROVE  IsMarks(q.s) /\ Marks(q.s, out, T, e, m) /\ Carried(out) + q.s.carry = c /\ q.out = <<>>
BY DEF Drops, Waits, Marks

LEMMA SendsWider ==
  ASSUME NEW out, NEW D, NEW E, D \subseteq E, NEW T, NEW i, NEW m, Sends(out, D, T, i, m)
  PROVE  Sends(out, E, T, i, m)
BY DEF Sends, Right

\* a unit is used, and the access unit that it completes is sent or not
DataStepped(r, q, s, out, E, T, i, m, c, b) ==
  \/ r.out = <<>> /\ Goes(r.b, s, out, E, T, i, m, c)
  \/ r.out = <<AccessUnit(b)>> /\ q.out = <<>> /\ Goes(r.b, q.s, out, E, T, i, m, c)
  \/ /\ r.out = <<AccessUnit(b)>>
     /\ \E o, z : q.out = <<o>> /\ z = Append(out, o) /\ Goes(r.b, q.s, z, E, T, i, m, c)

DataReady(b, s, out, D, E, u, w, v, T, i, m, c, r, q, dts) ==
  /\ IsGiven(u, w, v, i, T) /\ D = Prior(w) /\ E = D \cup Within(w, v)
  /\ Goes(b, s, out, D, T, i, m, c) /\ Fresh(b, u, w, T, i)
  /\ r = PushUnit(Kind, b, u)
  /\ q = HandleAU(Kind, s, mtimes, r.out[1], dts, DTSGap, stream.resume)

LEMMA DataStep ==
  ASSUME TypeOK, Delimited, AV, NEW i \in 1 .. Length, NEW T, NEW u, NEW w, NEW v,
         NEW D, NEW E, NEW b, NEW s, NEW out, NEW m, NEW c, NEW r, NEW q, NEW dts,
         DataReady(b, s, out, D, E, u, w, v, T, i, m, c, r, q, dts)
  PROVE  DataStepped(r, q, s, out, E, T, i, m, c, b) /\ r.b.haveMPU /\ r.b.mpu = u.mpu
<1>0. /\ IsGiven(u, w, v, i, T) /\ D = Prior(w) /\ E = D \cup Within(w, v)
      /\ Goes(b, s, out, D, T, i, m, c) /\ Fresh(b, u, w, T, i)
      /\ r = PushUnit(Kind, b, u)
      /\ q = HandleAU(Kind, s, mtimes, r.out[1], dts, DTSGap, stream.resume)
  BY Zenon DEF DataReady
<1>1. /\ b \in Builders /\ Builds(b, D, T, i) /\ BehindOpen(b, out)
      /\ IsMarks(s) /\ Marks(s, out, T, i + 1, m)
      /\ IsSeq(out) /\ Sends(out, D, T, i, m)
      /\ Carried(out) \in Nat /\ Carried(out) + s.carry = c
  BY <1>0 DEF Goes
<1>2. /\ Used(r.b, u, w, v, T, i)
      /\ r.out = <<>> \/ (b.open /\ r.out = <<AccessUnit(b)>> /\ w \in Heads)
      /\ r.b.open => \/ r.b.data[1].at = w
                     \/ r.out = <<>> /\ b.open /\ r.b.data[1].at = b.data[1].at
  BY <1>0, <1>1, UnitBuilds
<1>3. /\ r.b \in Builders /\ Builds(r.b, E, T, i) /\ r.b.haveMPU /\ r.b.mpu = u.mpu
  BY <1>0, <1>2 DEF Used
<1>4. w[1] <= i /\ w \in Media
  <2>1. w \in Media /\ v \in Media /\ v[1] = i /\ ~ Before(v, w)
    BY <1>0 DEF IsGiven
  <2>2. w[1] \in Nat /\ v[1] \in Nat
    BY <1>0, <2>1, PlaceShape
  <2>3. QED
    BY <1>0, <2>1, <2>2 DEF Before
<1>5. D \subseteq E
  BY <1>0
<1>6. Sends(out, E, T, i, m) /\ \A j \in 1 .. Len(out) : out[j].data[1].at \in D
  <2>1. \A j \in 1 .. Len(out) : out[j].data[1].at \in D
    BY <1>0, <1>1 DEF Sends, Right
  <2>2. QED
    BY <1>0, <1>1, <1>5, <2>1, SendsWider
<1>7. ASSUME NEW y, \A j \in 1 .. Len(y) : y[j].data[1].at \in D, r.b.open => r.b.data[1].at = w
      PROVE  BehindOpen(r.b, y)
  BY <1>0, <1>7 DEF BehindOpen, Prior
<1>8. CASE r.out = <<>>
  <2>1. BehindOpen(r.b, out)
    <3>1. CASE r.b.open => r.b.data[1].at = w
      BY <1>0, <1>6, <1>7, <3>1
    <3>2. CASE b.open /\ r.b.data[1].at = b.data[1].at
      BY <1>0, <1>1, <3>2 DEF BehindOpen
    <3>3. QED
      BY <1>0, <1>2, <3>1, <3>2
  <2>2. Goes(r.b, s, out, E, T, i, m, c)
    BY <1>0, <1>1, <1>3, <1>6, <2>1 DEF Goes
  <2>3. QED
    BY <1>0, <1>3, <1>8, <2>2 DEF DataStepped
<1>9. CASE b.open /\ r.out = <<AccessUnit(b)>> /\ w \in Heads
  <2>1. r.b.open => r.b.data[1].at = w
    BY <1>0, <1>2, <1>9
  <2>2. PICK au : au = AccessUnit(b)
    OBVIOUS
  <2>3. r.out[1] = au
    BY <1>0, <1>9, <2>2
  <2>4. q = HandleAU(Kind, s, mtimes, au, dts, DTSGap, stream.resume)
    BY <1>0, <2>3
  <2>5. Drops(q, s) \/ Waits(q, s) \/ \E o : Pushes(q, s, au, o)
    BY <1>0, <1>1, <2>4, HandledIs
  <2>6. CASE Drops(q, s) \/ Waits(q, s)
    <3>1. /\ IsMarks(q.s) /\ Marks(q.s, out, T, i + 1, m) /\ Carried(out) + q.s.carry = c
          /\ q.out = <<>>
      BY <1>0, <1>1, <2>6, UnsentMarks
    <3>2. BehindOpen(r.b, out)
      BY <1>0, <1>6, <1>7, <2>1
    <3>3. Goes(r.b, q.s, out, E, T, i, m, c)
      BY <1>0, <1>1, <1>3, <1>6, <3>1, <3>2 DEF Goes
    <3>4. QED
      BY <1>0, <1>3, <1>9, <3>1, <3>3 DEF DataStepped
  <2>7. ASSUME NEW o, Pushes(q, s, au, o)
        PROVE  DataStepped(r, q, s, out, E, T, i, m, c, b)
    <3>1. PICK hd : Completes(b, w, T, i, hd)
      BY <1>0, <1>1, <1>9, UnitCompletes
    <3>2. PICK z : z = Append(out, o)
      OBVIOUS
    <3>3. /\ Sends(z, D, T, i, m) /\ Marks(q.s, z, T, i + 1, m) /\ IsMarks(q.s) /\ IsSeq(z)
          /\ Carried(z) \in Nat /\ Carried(z) + q.s.carry = c
          /\ \A j \in 1 .. Len(z) : z[j].data[1].at \in D
      <4>1. Pushes(q, s, AccessUnit(b), o)
        BY <1>0, <2>2, <2>7
      <4>2. b \in Builders /\ b.open /\ w \in Heads /\ w[1] <= i
        BY <1>0, <1>1, <1>4, <1>9
      <4>3. SentBy(z, q, D, T, i, m, c)
        BY <1>0, <3>1, <3>2, <4>1, <4>2, CompletedSends, Zenon
      <4>4. QED
        BY <1>0, <4>3 DEF SentBy
    <3>4. BehindOpen(r.b, z)
      BY <1>0, <1>7, <2>1, <3>3
    <3>5. Sends(z, E, T, i, m)
      BY <1>0, <1>5, <3>3, SendsWider
    <3>6. Goes(r.b, q.s, z, E, T, i, m, c)
      BY <1>0, <1>3, <3>3, <3>4, <3>5 DEF Goes
    <3>7. q.out = <<o>>
      BY <1>0, <2>7 DEF Pushes
    <3>8. QED
      BY <1>0, <1>9, <3>2, <3>6, <3>7 DEF DataStepped
  <2>8. QED
    BY <1>0, <1>3, <2>5, <2>6, <2>7
<1>10. QED
  BY <1>0, <1>2, <1>8, <1>9
-----------------------------------------------------------------------------
(* From one packet to the next: i is heard after h, and S is T with i if it *)
(* is good; n is the first packet heard.                                    *)
Onward(T, S, h, i, out, m, n) ==
  /\ h < i /\ T \subseteq S /\ S \ T \subseteq {i}
  /\ h = 0 => out = <<>>
  /\ h # 0 => n = m

LEMMA SpoiledLater ==
  ASSUME TypeOK, NEW h \in 0 .. Length, NEW i \in 1 .. Length, h < i,
         NEW T, NEW S, T \subseteq S, S \ T \subseteq {i}, NEW mpu, Spoiled(mpu, T, h)
  PROVE  Spoiled(mpu, S, i)
<1>1. PICK F : F = FragmentsOf(FirstOf(mpu))
  OBVIOUS
<1>2. F \subseteq 1 .. Length /\ Length \in Nat
  BY <1>1, LengthType DEF FragmentsOf
<1>3. PICK x \in F, y \in F : y - x >= MaxFragment \/ (y <= h /\ y \notin T)
  BY <1>1 DEF Spoiled
<1>4. y \in Nat /\ h \in Nat /\ i \in Nat
  BY <1>2
<1>5. y <= h => y <= i /\ y # i
  BY <1>4
<1>6. y - x >= MaxFragment \/ (y <= i /\ y \notin S)
  BY <1>3, <1>5
<1>7. QED
  BY <1>1, <1>6 DEF Spoiled

LEMMA SendsLater ==
  ASSUME TypeOK, NEW h \in 0 .. Length, NEW i \in 1 .. Length, NEW T, NEW S, NEW out, NEW m, NEW n,
         Onward(T, S, h, i, out, m, n), NEW D, NEW E, D \subseteq E, Sends(out, D, T, h, m)
  PROVE  Sends(out, E, S, i, n)
<1>1. /\ h < i /\ T \subseteq S /\ S \ T \subseteq {i} /\ (h = 0 => out = <<>>) /\ (h # 0 => n = m)
  BY DEF Onward
<1>2. CASE h = 0
  <2>1. Len(<<>>) = 0
    OBVIOUS
  <2>2. 1 .. Len(out) = {}
    BY <1>1, <1>2, <2>1
  <2>3. QED
    BY <2>2 DEF Sends
<1>3. CASE h # 0
  <2>1. SUFFICES ASSUME NEW j \in 1 .. Len(out)
                 PROVE  /\ Right(out[j], E, S, i)
                        /\ Warns(out[j], S, EndOf(out, j - 1, n))
                        /\ j > 1 => Before(out[j - 1].data[1].at, out[j].data[1].at)
    BY DEF Sends
  <2>2. /\ Right(out[j], D, T, h)
        /\ Warns(out[j], T, EndOf(out, j - 1, m))
        /\ j > 1 => Before(out[j - 1].data[1].at, out[j].data[1].at)
    BY DEF Sends
  <2>3. Right(out[j], E, S, i)
    <3>1. Spoiled(out[j].mpu, T, h) => Spoiled(out[j].mpu, S, i)
      BY <1>1, SpoiledLater
    <3>2. QED
      BY <2>2, <3>1 DEF Right
  <2>4. Warns(out[j], S, EndOf(out, j - 1, m))
    BY <1>1, <2>2 DEF Warns, Missing
  <2>5. QED
    BY <1>1, <1>3, <2>2, <2>3, <2>4
<1>4. QED
  BY <1>2, <1>3

\* a loss: what is open is dropped, the builder trusts nothing until the next
\* MPU, and the next access unit is marked
LossReady(b, s, out, D, E, T, S, h, i, m, n, c, l, r, z) ==
  /\ Onward(T, S, h, i, out, m, n) /\ D \subseteq E /\ Goes(b, s, out, D, T, h, m, c) /\ l \in Nat
  /\ r = PushUnit(Kind, b, LossUnit(l)) /\ z = Suffers(Kind, s, l)

LEMMA LossGoes ==
  ASSUME TypeOK, NEW h \in 0 .. Length, NEW i \in 1 .. Length, NEW T, NEW S, NEW out, NEW m, NEW n,
         NEW D, NEW E, NEW b, NEW s, NEW c, NEW l, NEW r, NEW z,
         LossReady(b, s, out, D, E, T, S, h, i, m, n, c, l, r, z)
  PROVE  /\ Goes(r.b, z, out, E, S, i, n, c + l) /\ r.out = <<>>
         /\ r.b.haveMPU = b.haveMPU /\ r.b.mpu = b.mpu /\ ~ r.b.trusted
<1>0. /\ Onward(T, S, h, i, out, m, n) /\ D \subseteq E /\ Goes(b, s, out, D, T, h, m, c) /\ l \in Nat
      /\ r = PushUnit(Kind, b, LossUnit(l)) /\ z = Suffers(Kind, s, l)
  BY Zenon DEF LossReady
<1>1. /\ b \in Builders /\ Builds(b, D, T, h)
      /\ IsMarks(s) /\ IsSeq(out) /\ Sends(out, D, T, h, m)
      /\ Carried(out) \in Nat /\ Carried(out) + s.carry = c
  BY <1>0 DEF Goes
<1>2. PICK C : C = Seq(Cells)
  OBVIOUS
<1>3. b \in [ haveMPU : BOOLEAN, mpu : Nat, trusted : BOOLEAN, index : Nat, open : BOOLEAN,
              rap : BOOLEAN, data : C ]
  BY <1>0, <1>1, <1>2 DEF Builders
<1>4. PICK y : y = [[b EXCEPT !.open = FALSE] EXCEPT !.trusted = FALSE]
  OBVIOUS
<1>5. r.b = y /\ r.out = <<>>
  BY <1>0, <1>4 DEF PushUnit, LossUnit, Shut
<1>6. /\ y \in [ haveMPU : BOOLEAN, mpu : Nat, trusted : BOOLEAN, index : Nat, open : BOOLEAN,
                 rap : BOOLEAN, data : C ]
      /\ y.haveMPU = b.haveMPU /\ y.mpu = b.mpu /\ ~ y.open /\ ~ y.trusted
  BY <1>0, <1>3, <1>4
<1>7. y \in Builders
  BY <1>0, <1>2, <1>6, Zenon DEF Builders
<1>8. Builds(y, E, S, i) /\ BehindOpen(y, out)
  <2>1. b.haveMPU => \E x \in D : MpuOf(x) = b.mpu
    BY <1>0, <1>1 DEF Builds
  <2>2. y.haveMPU => \E x \in E : MpuOf(x) = y.mpu
    BY <1>0, <1>6, <2>1
  <2>3. QED
    BY <1>0, <1>6, <2>2 DEF Builds, BehindOpen
<1>9. z = [s EXCEPT !.carry = s.carry + l, !.disc = TRUE, !.awaitIRAP = s.awaitIRAP \/ Kind = "video"]
  BY <1>0 DEF Suffers
<1>10. IsMarks(z) /\ z.disc /\ (Kind = "video" => z.awaitIRAP) /\ z.carry = s.carry + l
  <2>1. PICK x \in Nat : x = s.carry + l
    BY <1>0, <1>1 DEF IsMarks
  <2>2. z = [s EXCEPT !.carry = x, !.disc = TRUE, !.awaitIRAP = s.awaitIRAP \/ Kind = "video"]
    BY <1>0, <1>9, <2>1
  <2>3. QED
    BY <1>0, <1>1, <2>1, <2>2 DEF IsMarks
<1>11. Sends(out, E, S, i, n)
  BY <1>0, <1>1, SendsLater
<1>12. Carried(out) + z.carry = c + l
  <2>1. s.carry \in Nat
    BY <1>0, <1>1 DEF IsMarks
  <2>2. QED
    BY <1>0, <1>1, <1>10, <2>1
<1>13. Marks(z, out, S, i + 1, n)
  BY <1>0, <1>10 DEF Marks
<1>14. Goes(y, z, out, E, S, i, n, c + l)
  BY <1>0, <1>1, <1>7, <1>8, <1>10, <1>11, <1>12, <1>13 DEF Goes
<1>15. QED
  BY <1>0, <1>5, <1>6, <1>14

\* no loss: the packet follows the one before it, or is the first
LEMMA GoodGoes ==
  ASSUME TypeOK, NEW h \in 0 .. Length, NEW i \in 1 .. Length, NEW T, NEW S, NEW out, NEW m, NEW n,
         Onward(T, S, h, i, out, m, n), NEW D, NEW E, D \subseteq E, NEW b, NEW s, NEW c,
         Goes(b, s, out, D, T, h, m, c), i \in S, h = 0 \/ h = i - 1, h = 0 => n = i,
         h = 0 => D = {}, h # 0 => D = E \/ ~ b.trusted
  PROVE  Goes(b, s, out, E, S, i, n, c)
<1>1. /\ b \in Builders /\ Builds(b, D, T, h) /\ BehindOpen(b, out)
      /\ IsMarks(s) /\ Marks(s, out, T, h + 1, m) /\ IsSeq(out) /\ Sends(out, D, T, h, m)
      /\ Carried(out) \in Nat /\ Carried(out) + s.carry = c
  BY DEF Goes
<1>2. /\ h < i /\ T \subseteq S /\ S \ T \subseteq {i} /\ (h = 0 => out = <<>>) /\ (h # 0 => n = m)
      /\ h \in Nat /\ i \in Nat /\ Length \in Nat /\ DOMAIN Packets = 1 .. Length
  BY LengthType DEF Onward
<1>3. Sends(out, E, S, i, n)
  BY <1>1, SendsLater
<1>4. Builds(b, E, S, i)
  <2>1. /\ b.open => b.trusted /\ Opened(b, D, T, h)
        /\ b.trusted => b.haveMPU
        /\ b.haveMPU => \E x \in D : MpuOf(x) = b.mpu
        /\ b.trusted => b.index = Cardinality(HeadsOf(D, b.mpu)) \/ Spoiled(b.mpu, T, h)
    BY <1>1 DEF Builds
  <2>2. b.haveMPU => \E x \in E : MpuOf(x) = b.mpu
    BY <2>1
  <2>3. b.trusted => b.index = Cardinality(HeadsOf(E, b.mpu)) \/ Spoiled(b.mpu, S, i)
    <3>1. Spoiled(b.mpu, T, h) => Spoiled(b.mpu, S, i)
      BY <1>2, SpoiledLater
    <3>2. b.trusted => D = E
      BY <2>1
    <3>3. QED
      BY <2>1, <3>1, <3>2
  <2>4. ASSUME b.open
        PROVE  Opened(b, E, S, i)
    <3>1. /\ D = E /\ b.haveMPU /\ Opened(b, D, T, h) /\ h # 0
      BY <2>1, <2>4
    <3>2. /\ b.data # <<>> /\ b.data[1].at \in Heads
          /\ Ats(b.data) = {x \in D : ~ Before(x, b.data[1].at)}
          /\ Increasing(b.data)
          /\ \A x \in Ats(b.data) : MpuOf(x) = b.mpu /\ (x \in Heads => x = b.data[1].at)
          /\ b.data[1].at[1] .. h \subseteq T
      BY <3>1 DEF Opened
    <3>3. b.data[1].at[1] \in Nat
      BY <3>2, PlaceShape DEF Heads
    <3>4. b.data[1].at[1] .. i \subseteq S
      <4>1. SUFFICES ASSUME NEW x \in b.data[1].at[1] .. i
                     PROVE  x \in S
        OBVIOUS
      <4>2. CASE x = i
        BY <4>2
      <4>3. CASE x # i
        <5>1. x \in b.data[1].at[1] .. h
          BY <1>2, <3>1, <3>3, <4>3
        <5>2. QED
          BY <1>2, <3>2, <5>1
      <4>4. QED
        BY <4>2, <4>3
    <3>5. QED
      BY <3>1, <3>2, <3>4 DEF Opened
  <2>5. QED
    BY <2>1, <2>2, <2>3, <2>4 DEF Builds
<1>5. Marks(s, out, S, i + 1, n)
  <2>1. PICK e : e = EndOf(out, Len(out), n)
    OBVIOUS
  <2>2. CASE h = 0
    <3>1. Len(<<>>) = 0
      OBVIOUS
    <3>2. e = i
      BY <1>2, <2>1, <2>2, <3>1 DEF EndOf
    <3>3. Missing(S, e, i + 1) = {}
      BY <1>2, <3>2 DEF Missing
    <3>4. QED
      BY <2>1, <3>3 DEF Marks
  <2>3. CASE h = i - 1 /\ h # 0
    <3>1. e = EndOf(out, Len(out), m)
      BY <1>2, <2>1, <2>3
    <3>2. \A j \in 1 .. Length : j < i + 1 /\ j \notin S => j < h + 1 /\ j \notin T
      BY <1>2, <2>3
    <3>3. Missing(S, e, i + 1) # {} => Missing(T, e, h + 1) # {}
      BY <1>2, <3>2 DEF Missing
    <3>4. QED
      BY <1>1, <2>1, <3>1, <3>3 DEF Marks
  <2>4. QED
    BY <2>2, <2>3
<1>6. QED
  BY <1>1, <1>3, <1>4, <1>5 DEF Goes
-----------------------------------------------------------------------------
(* handleMedia for the units of one packet: o was sent before, a is what is *)
(* reached.                                                                 *)
IsAcc(a) == a = [b |-> a.b, s |-> a.s, out |-> a.out] /\ IsSeq(a.out)

Going(a, o, D, T, i, m, c) == IsAcc(a) /\ Goes(a.b, a.s, o \o a.out, D, T, i, m, c)

LEMMA ConcatMore ==
  ASSUME NEW y, IsSeq(y), NEW z, IsSeq(z), NEW x
  PROVE  /\ IsSeq(z \o <<x>>) /\ y \o (z \o <<x>>) = Append(y \o z, x)
         /\ z \o <<>> = z /\ IsSeq(y \o z)
<1>1. PICK S, R : y \in Seq(S) /\ z \in Seq(R)
  BY DEF IsSeq
<1>2. PICK Q : Q = S \cup R \cup {x}
  OBVIOUS
<1>3. y \in Seq(Q) /\ z \in Seq(Q) /\ x \in Q
  BY <1>1, <1>2
<1>4. z \o <<x>> \in Seq(Q) /\ y \o z \in Seq(Q)
  BY <1>3
<1>5. y \o (z \o <<x>>) = Append(y \o z, x)
  BY <1>3
<1>6. z \o <<>> = z
  BY <1>3
<1>7. QED
  BY <1>4, <1>5, <1>6 DEF IsSeq

LEMMA ConcatNone ==
  ASSUME NEW y, IsSeq(y)
  PROVE  y \o <<>> = y /\ IsSeq(<<>>)
<1>1. PICK S : y \in Seq(S)
  BY DEF IsSeq
<1>2. <<>> \in Seq(S)
  OBVIOUS
<1>3. QED
  BY <1>1, <1>2 DEF IsSeq

LEMMA UnitStep ==
  ASSUME TypeOK, Delimited, AV, NEW i \in 1 .. Length, NEW T, NEW u, NEW w, NEW v,
         IsGiven(u, w, v, i, T), NEW D, D = Prior(w), NEW E, E = D \cup Within(w, v),
         NEW o, IsSeq(o), NEW a, NEW m, NEW c, Going(a, o, D, T, i, m, c),
         Fresh(a.b, u, w, T, i), NEW x, x = MediaUnit(a, u)
  PROVE  Going(x, o, E, T, i, m, c) /\ x.b.haveMPU /\ x.b.mpu = u.mpu
<1>1. IsAcc(a) /\ IsSeq(a.out)
  BY DEF Going, IsAcc
<1>2. PICK out : out = o \o a.out
  OBVIOUS
<1>3. Goes(a.b, a.s, out, D, T, i, m, c)
  BY <1>2 DEF Going
<1>4. PICK r : r = PushUnit(Kind, a.b, u)
  OBVIOUS
<1>5. PICK dts : dts = DecodingTime(r.out[1].mpu, r.out[1].index)
  OBVIOUS
<1>6. PICK q : q = HandleAU(Kind, a.s, mtimes, r.out[1], dts, DTSGap, stream.resume)
  OBVIOUS
<1>7. ~ u.loss
  BY DEF IsGiven
<1>8. x = IF r.out = <<>> THEN [b |-> r.b, s |-> a.s, out |-> a.out]
          ELSE [b |-> r.b, s |-> q.s, out |-> a.out \o q.out]
  BY <1>4, <1>5, <1>6, <1>7 DEF MediaUnit
<1>9. DataStepped(r, q, a.s, out, E, T, i, m, c, a.b) /\ r.b.haveMPU /\ r.b.mpu = u.mpu
  <2>1. PICK b : b = a.b
    OBVIOUS
  <2>2. PICK s : s = a.s
    OBVIOUS
  <2>3. Goes(b, s, out, D, T, i, m, c) /\ Fresh(b, u, w, T, i) /\ r = PushUnit(Kind, b, u)
    BY <1>3, <1>4, <2>1, <2>2
  <2>4. q = HandleAU(Kind, s, mtimes, r.out[1], dts, DTSGap, stream.resume)
    BY <1>6, <2>2
  <2>7. DataReady(b, s, out, D, E, u, w, v, T, i, m, c, r, q, dts)
    BY <2>3, <2>4, Zenon DEF DataReady
  <2>5. DataStepped(r, q, s, out, E, T, i, m, c, b) /\ r.b.haveMPU /\ r.b.mpu = u.mpu
    BY <2>7, DataStep
  <2>6. QED
    BY <2>1, <2>2, <2>5
<1>10. CASE r.out = <<>> /\ Goes(r.b, a.s, out, E, T, i, m, c)
  BY <1>1, <1>2, <1>8, <1>9, <1>10 DEF Going, IsAcc
<1>11. PICK au : au = AccessUnit(a.b)
  OBVIOUS
<1>12. <<au>> # <<>>
  OBVIOUS
<1>13. CASE r.out = <<AccessUnit(a.b)>> /\ q.out = <<>> /\ Goes(r.b, q.s, out, E, T, i, m, c)
  <2>1. x = [b |-> r.b, s |-> q.s, out |-> a.out \o q.out]
    BY <1>8, <1>11, <1>12, <1>13
  <2>2. a.out \o q.out = a.out
    BY <1>1, <1>13, ConcatNone
  <2>3. QED
    BY <1>1, <1>2, <1>9, <1>13, <2>1, <2>2 DEF Going, IsAcc
<1>14. ASSUME NEW y, NEW z, r.out = <<AccessUnit(a.b)>>, q.out = <<y>>, z = Append(out, y),
              Goes(r.b, q.s, z, E, T, i, m, c)
       PROVE  Going(x, o, E, T, i, m, c) /\ x.b.haveMPU /\ x.b.mpu = u.mpu
  <2>1. x = [b |-> r.b, s |-> q.s, out |-> a.out \o q.out]
    BY <1>8, <1>11, <1>12, <1>14
  <2>2. PICK e : e = a.out \o <<y>>
    OBVIOUS
  <2>3. IsSeq(e) /\ o \o e = z
    BY <1>1, <1>2, <1>14, <2>2, ConcatMore, SMTT(30)
  <2>4. x = [b |-> r.b, s |-> q.s, out |-> e]
    BY <1>14, <2>1, <2>2
  <2>5. x.b = r.b /\ x.s = q.s /\ x.out = e
    BY <2>4
  <2>6. IsAcc(x)
    BY <2>3, <2>4, <2>5 DEF IsAcc
  <2>7. Goes(x.b, x.s, o \o x.out, E, T, i, m, c)
    BY <1>14, <2>3, <2>5
  <2>8. QED
    BY <1>9, <2>5, <2>6, <2>7 DEF Going
<1>15. QED
  BY <1>9, <1>10, <1>13, <1>14 DEF DataStepped

LEMMA LossStep ==
  ASSUME TypeOK, NEW h \in 0 .. Length, NEW i \in 1 .. Length, NEW T, NEW S, NEW out, NEW m, NEW n,
         Onward(T, S, h, i, out, m, n), NEW D, NEW E, D \subseteq E, NEW b, NEW s, NEW c,
         Goes(b, s, out, D, T, h, m, c), NEW l \in Nat,
         NEW a, a = [b |-> b, s |-> s, out |-> <<>>], NEW x, x = MediaUnit(a, LossUnit(l))
  PROVE  /\ Going(x, out, E, S, i, n, c + l)
         /\ x.b.haveMPU = b.haveMPU /\ x.b.mpu = b.mpu /\ ~ x.b.trusted
<1>1. PICK r : r = PushUnit(Kind, b, LossUnit(l))
  OBVIOUS
<1>2. PICK z : z = Suffers(Kind, s, l)
  OBVIOUS
<1>3. /\ Goes(r.b, z, out, E, S, i, n, c + l) /\ r.out = <<>>
      /\ r.b.haveMPU = b.haveMPU /\ r.b.mpu = b.mpu /\ ~ r.b.trusted
  <2>1. LossReady(b, s, out, D, E, T, S, h, i, m, n, c, l, r, z)
    BY <1>1, <1>2, Zenon DEF LossReady
  <2>2. QED
    BY <2>1, LossGoes
<1>4. LossUnit(l).loss /\ LossUnit(l).lost = l
  BY DEF LossUnit
<1>5. a.b = b /\ a.s = s /\ a.out = <<>>
  OBVIOUS
<1>6. x = [b |-> r.b, s |-> z, out |-> <<>>]
  BY <1>1, <1>2, <1>3, <1>4, <1>5 DEF MediaUnit
<1>7. IsSeq(out)
  BY <1>3 DEF Goes
<1>8. out \o <<>> = out /\ IsSeq(<<>>)
  BY <1>7, ConcatNone
<1>9. x.b = r.b /\ x.s = z /\ x.out = <<>>
  BY <1>6
<1>10. IsAcc(x)
  BY <1>6, <1>8, <1>9 DEF IsAcc
<1>11. Goes(x.b, x.s, out \o x.out, E, S, i, n, c + l)
  BY <1>3, <1>8, <1>9
<1>12. QED
  BY <1>3, <1>9, <1>10, <1>11 DEF Going

\* the loop over the units of a packet: p names what it is given, the units told
\* of first, the places given by each that follows, and what is reached before
ReachedAt(p, k, a) ==
  IF k < 0 THEN a = p.a
  ELSE /\ Going(a, p.o, p.D[k], p.T, p.i, p.m, p.c)
       /\ k = 0 => a.b.haveMPU = p.a.b.haveMPU /\ a.b.mpu = p.a.b.mpu
       /\ k > 0 => a.b.haveMPU /\ a.b.mpu = p.mpu

MediaStep(p, a, u) == MediaUnit(a, u)
MediaKeeps(p, t, a) == ReachedAt(p, Cardinality(t) - p.told, a)
MF == INSTANCE FoldFacts WITH Step <- MediaStep, Keeps <- MediaKeeps

LEMMA MediaFold ==
  ASSUME NEW p, NEW r, NEW s
  PROVE  MF!Fold(p, r, s) = FoldLeft(MediaUnit, r, s)
BY DEF MF!Fold, MF!FoldLeft, FoldLeft, MapThenFoldSet, MF!MapThenFoldSet, MF!Max, Max, MediaStep

LEMMA MediaFoldKeeps ==
  ASSUME NEW p, NEW r, NEW s, NEW n \in Nat, DOMAIN s = 1 .. n,
         MediaKeeps(p, 1 .. 0, r),
         \A i \in 1 .. n : \A acc :
           MediaKeeps(p, 1 .. (i - 1), acc) => MediaKeeps(p, 1 .. i, MediaStep(p, acc, s[i]))
  PROVE  MediaKeeps(p, 1 .. n, MF!Fold(p, r, s))
BY MF!FoldKeeps

LEMMA UpToIs ==
  ASSUME NEW n \in Nat
  PROVE  Cardinality(1 .. n) = n
BY FS_Interval

\* what a packet hands over: perhaps a loss, then the units us, of MPU mpu, the
\* k-th of which has the places from D[k - 1] to D[k]
Hands(s, us, D, mpu, i, T) ==
  /\ \E l \in 0 .. 1 : Len(s) = l + Len(us)
  /\ DOMAIN s = 1 .. Len(s) /\ Len(us) \in Nat
  /\ \A k \in 1 .. Len(us) :
       /\ s[Len(s) - Len(us) + k] = us[k]
       /\ \E w, v : /\ IsGiven(us[k], w, v, i, T) /\ us[k].mpu = mpu
                    /\ D[k - 1] = Prior(w) /\ D[k] = D[k - 1] \cup Within(w, v)

\* and the first of which begins an MPU of which nothing, or not all, was handed
\* over before
BeginsAnew(b, mpu, D, T, i) ==
  b.haveMPU /\ b.mpu # mpu => (\A y \in D : MpuOf(y) # mpu) \/ Spoiled(mpu, T, i)

LoopReady(a, s, us, D, mpu, o, T, i, m, c) ==
  /\ Hands(s, us, D, mpu, i, T) /\ IsSeq(o)
  /\ Len(s) = Len(us) => Going(a, o, D[0], T, i, m, c)
  /\ Len(s) # Len(us) =>
       LET x == MediaUnit(a, s[1]) IN
       Going(x, o, D[0], T, i, m, c) /\ x.b.haveMPU = a.b.haveMPU /\ x.b.mpu = a.b.mpu
  /\ Len(us) > 0 => BeginsAnew(a.b, mpu, D[0], T, i)

LoopDone(a, x, us, D, mpu, o, T, i, m, c) ==
  /\ Going(x, o, D[Len(us)], T, i, m, c)
  /\ Len(us) = 0 => x.b.haveMPU = a.b.haveMPU /\ x.b.mpu = a.b.mpu
  /\ Len(us) > 0 => x.b.haveMPU /\ x.b.mpu = mpu

LEMMA LoopIs ==
  ASSUME TypeOK, Delimited, AV, NEW i \in 1 .. Length, NEW T, NEW a, NEW s, NEW us, NEW D, NEW mpu,
         NEW o, NEW m, NEW c, LoopReady(a, s, us, D, mpu, o, T, i, m, c)
  PROVE  LoopDone(a, FoldLeft(MediaUnit, a, s), us, D, mpu, o, T, i, m, c)
<1>1. /\ Hands(s, us, D, mpu, i, T) /\ IsSeq(o)
      /\ Len(s) = Len(us) => Going(a, o, D[0], T, i, m, c)
      /\ Len(us) > 0 => BeginsAnew(a.b, mpu, D[0], T, i)
  BY DEF LoopReady
<1>2. PICK n \in Nat : n = Len(us)
  BY <1>1 DEF Hands
<1>3. PICK l \in 0 .. 1 : Len(s) = l + n /\ DOMAIN s = 1 .. l + n
  BY <1>1, <1>2 DEF Hands
<1>4. ASSUME NEW k \in 1 .. n
      PROVE  /\ s[l + k] = us[k]
             /\ \E w, v : /\ IsGiven(us[k], w, v, i, T) /\ us[k].mpu = mpu
                          /\ D[k - 1] = Prior(w) /\ D[k] = D[k - 1] \cup Within(w, v)
  <2>1. Len(s) - Len(us) + k = l + k
    BY <1>2, <1>3
  <2>2. QED
    BY <1>1, <1>2, <2>1 DEF Hands
<1>5. PICK p : p = [ a |-> a, o |-> o, D |-> D, T |-> T, i |-> i, m |-> m, c |-> c, mpu |-> mpu,
                     told |-> l ]
  OBVIOUS
<1>6. /\ p.a = a /\ p.o = o /\ p.D = D /\ p.T = T /\ p.i = i /\ p.m = m /\ p.c = c
      /\ p.mpu = mpu /\ p.told = l
  BY <1>5
<1>7. ASSUME NEW k, NEW x
      PROVE  ReachedAt(p, k, x) <=>
               IF k < 0 THEN x = a
               ELSE /\ Going(x, o, D[k], T, i, m, c)
                    /\ k = 0 => x.b.haveMPU = a.b.haveMPU /\ x.b.mpu = a.b.mpu
                    /\ k > 0 => x.b.haveMPU /\ x.b.mpu = mpu
  BY <1>6 DEF ReachedAt
<1>8. ASSUME NEW j \in Nat, NEW x
      PROVE  MediaKeeps(p, 1 .. j, x) <=> ReachedAt(p, j - l, x)
  BY <1>6, UpToIs DEF MediaKeeps
<1>9. MediaKeeps(p, 1 .. 0, a)
  <2>1. l = 0 \/ 0 - l < 0
    OBVIOUS
  <2>2. CASE l = 0
    <3>1. Going(a, o, D[0], T, i, m, c)
      BY <1>1, <1>2, <1>3, <2>2
    <3>2. ReachedAt(p, 0, a)
      BY <1>7, <3>1
    <3>3. QED
      BY <1>8, <2>2, <3>2
  <2>3. CASE 0 - l < 0
    <3>1. ReachedAt(p, 0 - l, a)
      BY <1>7, <2>3
    <3>2. QED
      BY <1>8, <3>1
  <2>4. QED
    BY <2>1, <2>2, <2>3
<1>10. ASSUME NEW j \in 1 .. l + n, NEW x, MediaKeeps(p, 1 .. (j - 1), x)
       PROVE  MediaKeeps(p, 1 .. j, MediaStep(p, x, s[j]))
  <2>1. PICK y : y = MediaUnit(x, s[j])
    OBVIOUS
  <2>2. PICK k : k = j - l
    OBVIOUS
  <2>3. j \in Nat /\ j - 1 \in Nat /\ j - 1 - l = k - 1 /\ k \in Int /\ j = l + k
    BY <2>2
  <2>4. ReachedAt(p, k - 1, x)
    BY <1>8, <1>10, <2>3
  <2>5. CASE k = 0
    <3>1. l = 1 /\ j = 1 /\ k - 1 < 0
      BY <2>3, <2>5
    <3>2. x = a
      BY <1>7, <2>4, <3>1
    <3>3. Len(s) # Len(us)
      BY <1>2, <1>3, <3>1
    <3>4. Going(y, o, D[0], T, i, m, c) /\ y.b.haveMPU = a.b.haveMPU /\ y.b.mpu = a.b.mpu
      BY <2>1, <3>1, <3>2, <3>3 DEF LoopReady
    <3>5. ReachedAt(p, 0, y)
      BY <1>7, <3>4
    <3>6. QED
      BY <1>8, <2>1, <2>2, <2>3, <2>5, <3>5 DEF MediaStep
  <2>6. CASE k # 0
    <3>1. k \in 1 .. n /\ ~ (k - 1 < 0)
      BY <2>3, <2>6
    <3>2. /\ Going(x, o, D[k - 1], T, i, m, c)
          /\ k - 1 = 0 => x.b.haveMPU = a.b.haveMPU /\ x.b.mpu = a.b.mpu
          /\ k - 1 > 0 => x.b.haveMPU /\ x.b.mpu = mpu
      BY <1>7, <2>4, <3>1
    <3>3. PICK w, v : /\ IsGiven(us[k], w, v, i, T) /\ us[k].mpu = mpu
                      /\ D[k - 1] = Prior(w) /\ D[k] = D[k - 1] \cup Within(w, v)
      BY <1>4, <3>1
    <3>4. PICK u : u = us[k] /\ u = s[j]
      BY <1>4, <2>3, <3>1
    <3>5. Fresh(x.b, u, w, T, i)
      <4>1. CASE k = 1
        <5>1. BeginsAnew(a.b, mpu, D[0], T, i)
          BY <1>1, <1>2, <3>1
        <5>2. D[0] = Prior(w) /\ k - 1 = 0
          BY <3>3, <4>1
        <5>3. QED
          BY <3>2, <3>3, <3>4, <5>1, <5>2 DEF Fresh, BeginsAnew
      <4>2. CASE k # 1
        <5>1. k - 1 > 0
          BY <3>1, <4>2
        <5>2. QED
          BY <3>2, <3>3, <3>4, <5>1 DEF Fresh
      <4>3. QED
        BY <4>1, <4>2
    <3>6. PICK F : F = D[k - 1]
      OBVIOUS
    <3>7. PICK E : E = D[k]
      OBVIOUS
    <3>8. /\ IsGiven(u, w, v, i, T) /\ F = Prior(w) /\ E = F \cup Within(w, v)
          /\ Going(x, o, F, T, i, m, c) /\ y = MediaUnit(x, u)
      BY <2>1, <3>2, <3>3, <3>4, <3>6, <3>7
    <3>9. Going(y, o, E, T, i, m, c) /\ y.b.haveMPU /\ y.b.mpu = u.mpu
      BY <1>1, <3>5, <3>8, UnitStep
    <3>10. k > 0 /\ ~ (k < 0) /\ k # 0
      BY <3>1
    <3>11. ReachedAt(p, k, y)
      BY <1>7, <3>3, <3>4, <3>7, <3>9, <3>10
    <3>12. QED
      BY <1>8, <2>1, <2>2, <2>3, <3>11 DEF MediaStep
  <2>7. QED
    BY <2>5, <2>6
<1>11. PICK x : x = FoldLeft(MediaUnit, a, s)
  OBVIOUS
<1>12. MediaKeeps(p, 1 .. l + n, x)
  <2>1. l + n \in Nat
    OBVIOUS
  <2>2. MediaKeeps(p, 1 .. l + n, MF!Fold(p, a, s))
    BY <1>3, <1>9, <1>10, <2>1, MediaFoldKeeps
  <2>3. QED
    BY <1>11, <2>2, MediaFold
<1>13. ReachedAt(p, n, x)
  <2>1. l + n \in Nat /\ l + n - l = n
    OBVIOUS
  <2>2. QED
    BY <1>8, <1>12, <2>1
<1>14. ~ (n < 0)
  OBVIOUS
<1>15. LoopDone(a, x, us, D, mpu, o, T, i, m, c)
  BY <1>2, <1>7, <1>13, <1>14 DEF LoopDone
<1>16. QED
  BY <1>11, <1>15

-----------------------------------------------------------------------------
(* From packet to packet.                                                   *)
Reach(st, h) == IF st.active THEN h - Len(st.buf) ELSE h

\* what is being joined was received, and it is joined while it can be
Heeds(st, T, h) ==
  /\ st.active => /\ ~ st.orphan
                  /\ \A x \in h - Len(st.buf) + 1 .. h : x \in T /\ Packets[x].mpu = st.mpu
  /\ h # 0 /\ Unfinished(h) /\ (\A x \in FragmentsOf(h) : x <= h => x \in T /\ h - x < MaxFragment)
       => st.active

\* the builder has come to the MPU of each unit that was received entire
Knows(b, T, h) ==
  \A e \in 1 .. h :
    Packets[e].mfu /\ ~ Unfinished(e) /\ (\A x \in FragmentsOf(e) : x \in T /\ e - x < MaxFragment)
      => b.haveMPU /\ Packets[e].mpu <= b.mpu

\* the fragments of a unit
LEMMA FragmentIs ==
  ASSUME TypeOK, NEW i \in 1 .. Length
  PROVE  /\ FragmentsOf(i) \subseteq 1 .. Length /\ i \in FragmentsOf(i)
         /\ \A x \in 1 .. Length :
              /\ x <= i => (x \in FragmentsOf(i) <=> \A y \in x + 1 .. i : Continues(y))
              /\ x > i => (x \in FragmentsOf(i) <=> \A y \in i + 1 .. x : Continues(y))
<1>1. DOMAIN Packets = 1 .. Length /\ Length \in Nat
  BY LengthType
<1>2. i <= i /\ i + 1 .. i = {}
  OBVIOUS
<1>3. i \in FragmentsOf(i)
  BY <1>1, <1>2 DEF FragmentsOf
<1>4. \A x \in 1 .. Length : (x <= i /\ ~ x > i) \/ (x > i /\ ~ x <= i)
  OBVIOUS
<1>5. QED
  BY <1>1, <1>3, <1>4 DEF FragmentsOf, Continues

LEMMA Continued ==
  ASSUME TypeOK, Delimited, AV, NEW h \in 0 .. Length, NEW i \in 1 .. Length, h < i,
         NEW T, T \subseteq 1 .. h, NEW st \in States, Listens(st, h), Heeds(st, T, h), Continues(i),
         NEW S, S \subseteq T \cup {i},
         \A x \in FragmentsOf(i) : x <= i => x \in S /\ i - x < MaxFragment
  PROVE  st.active /\ Gap(h, i) = 0 /\ Fits(st.buf)
<1>1. Length \in Nat /\ h \in Nat /\ i \in Nat
  BY LengthType
<1>2. Packets[i].mfu
  BY PacketType DEF Continues
<1>3. i - 1 \in 1 .. Length
  BY <1>2, PacketOfKind
<1>4. i - 1 \in FragmentsOf(i)
  <2>1. \A y \in i - 1 + 1 .. i : y = i
    BY <1>1
  <2>2. \A y \in i - 1 + 1 .. i : Continues(y)
    BY <2>1
  <2>3. i - 1 <= i
    BY <1>1
  <2>4. QED
    BY <1>3, <2>2, <2>3, FragmentIs
<1>5. h = i - 1
  <2>1. i - 1 \in S /\ i - 1 # i
    BY <1>1, <1>4
  <2>2. i - 1 \in 1 .. h
    BY <2>1
  <2>3. QED
    BY <1>1, <2>2
<1>6. h \in 1 .. Length /\ h # 0 /\ Unfinished(h)
  <2>1. h < Length /\ h + 1 = i /\ h \in 1 .. Length
    BY <1>1, <1>3, <1>5
  <2>2. Unfinished(h) <=> Continues(h + 1)
    BY <2>1, PacketType
  <2>3. QED
    BY <2>1, <2>2
<1>7. \A x \in FragmentsOf(h) : x <= h => x \in T /\ h - x < MaxFragment
  <2>1. SUFFICES ASSUME NEW x \in FragmentsOf(h), x <= h
                 PROVE  x \in T /\ h - x < MaxFragment
    OBVIOUS
  <2>2. x \in 1 .. Length /\ x <= i /\ x # i
    BY <1>1, <1>5, <1>6, <2>1, FragmentIs
  <2>3. \A y \in x + 1 .. h : Continues(y)
    BY <1>6, <2>1, <2>2, FragmentIs
  <2>4. \A y \in x + 1 .. i : y \in x + 1 .. h \/ y = i
    BY <1>1, <1>5, <2>2
  <2>5. x \in FragmentsOf(i)
    BY <2>2, <2>3, <2>4, FragmentIs
  <2>6. x \in S /\ i - x < MaxFragment
    BY <2>2, <2>5
  <2>7. QED
    BY <1>1, <1>5, <2>2, <2>6, MaxFragmentAssumption
<1>8. st.active
  BY <1>6, <1>7 DEF Heeds
<1>9. Fits(st.buf)
  <2>1. Joining(st, h)
    BY <1>8 DEF Listens
  <2>2. PICK n \in 1 .. h : n = Len(st.buf) /\ \A k \in 2 .. n : Packets[h - n + k].frag = "middle"
    BY <2>1 DEF Joining
  <2>3. PICK x \in 1 .. Length : x = i - n
    BY <1>1, <1>5, <2>2, SMTT(30)
  <2>4. \A y \in x + 1 .. i : Continues(y)
    <3>1. SUFFICES ASSUME NEW y \in x + 1 .. i, y # i
                   PROVE  Continues(y)
      OBVIOUS
    <3>2. y - (h - n) \in 2 .. n /\ h - n + (y - (h - n)) = y
      <4>1. y \in Int /\ y >= x + 1 /\ y <= i /\ n \in Int /\ h \in Int /\ i \in Int /\ x \in Int
        BY <1>1, <2>2, <3>1
      <4>2. x = i - n /\ h = i - 1 /\ y # i
        BY <1>5, <2>3, <3>1
      <4>3. y - (h - n) \in Int /\ y - (h - n) >= 2 /\ y - (h - n) <= n
        BY <4>1, <4>2
      <4>4. QED
        BY <4>1, <4>3
    <3>3. Packets[y].frag = "middle"
      BY <2>2, <3>2
    <3>4. QED
      BY <3>3 DEF Continues
  <2>5. x <= i
    BY <1>1, <2>2, <2>3
  <2>6. x \in FragmentsOf(i)
    BY <2>4, <2>5, FragmentIs
  <2>7. i - x < MaxFragment
    BY <2>5, <2>6
  <2>8. n < MaxFragment
    BY <1>1, <2>2, <2>3, <2>7
  <2>9. QED
    BY <2>2, <2>8 DEF Fits
<1>10. QED
  BY <1>1, <1>5, <1>8, <1>9 DEF Gap

\* the packet, taken
Took(T, S, i, good) == S = IF good THEN T \cup {i} ELSE T

LEMMA HeedsStep ==
  ASSUME TypeOK, Delimited, AV, NEW h \in 0 .. Length, NEW i \in 1 .. Length, h < i,
         NEW T, T \subseteq 1 .. h, NEW st \in States, Listens(st, h), Heeds(st, T, h),
         NEW p, NEW q, NEW good \in BOOLEAN, Outcome(q, st, p, i, h, good), NEW S, Took(T, S, i, good)
  PROVE  Heeds(q.st, S, i)
<1>1. S \subseteq T \cup {i} /\ (good => i \in S /\ T \subseteq S) /\ (~ good => i \notin S)
  <2>1. i \notin T
    BY LengthType
  <2>2. QED
    BY <2>1 DEF Took
<1>2. Length \in Nat /\ h \in Nat /\ i \in Nat
  BY LengthType
<1>3. ASSUME q.st.active
      PROVE  ~ q.st.orphan /\ \A x \in i - Len(q.st.buf) + 1 .. i : x \in S /\ Packets[x].mpu = q.st.mpu
  <2>1. good /\ (Opening(q, i, h) \/ More(q, st, i, h))
    BY <1>3 DEF Outcome, OnlyLoss, NoUnit, WholeGiven, Ignored, LastJoined
  <2>2. CASE Opening(q, i, h)
    <3>1. ~ q.st.orphan /\ Len(q.st.buf) = 1 /\ q.st.mpu = Packets[i].mpu
      BY <2>2 DEF Opening
    <3>2. \A x \in i - 1 + 1 .. i : x = i
      BY <1>2
    <3>3. QED
      BY <1>1, <2>1, <3>1, <3>2
  <2>3. CASE More(q, st, i, h)
    <3>1. /\ h = i - 1 /\ st.active /\ q.st.orphan = st.orphan
          /\ Len(q.st.buf) = Len(st.buf) + 1 /\ q.st.mpu = st.mpu /\ Packets[i].frag = "middle"
      BY <2>3 DEF More
    <3>2. ~ st.orphan /\ \A x \in h - Len(st.buf) + 1 .. h : x \in T /\ Packets[x].mpu = st.mpu
      BY <3>1 DEF Heeds
    <3>3. Packets[i].mpu = Packets[h].mpu
      <4>1. Continues(i) /\ Packets[i].mfu
        BY <3>1, PacketType DEF Continues
      <4>2. QED
        BY <3>1, <4>1, PacketOfKind
    <3>4. PICK n \in 1 .. h : n = Len(st.buf)
      BY <3>1 DEF Listens, Joining
    <3>5. h \in h - n + 1 .. h
      BY <1>2, <3>4
    <3>6. Packets[i].mpu = st.mpu
      BY <3>2, <3>3, <3>4, <3>5
    <3>7. \A x \in i - (n + 1) + 1 .. i : x \in h - n + 1 .. h \/ x = i
      BY <1>2, <3>1
    <3>8. QED
      BY <1>1, <2>1, <3>1, <3>2, <3>4, <3>6, <3>7
  <2>4. QED
    BY <2>1, <2>2, <2>3
<1>4. ASSUME Unfinished(i), \A x \in FragmentsOf(i) : x <= i => x \in S /\ i - x < MaxFragment
      PROVE  q.st.active
  <2>1. i \in S /\ 0 < MaxFragment
    <3>1. i \in FragmentsOf(i) /\ i <= i /\ i - i = 0
      BY <1>2, FragmentIs
    <3>2. QED
      BY <1>4, <3>1
  <2>2. good
    BY <1>1, <2>1
  <2>3. Continues(i) => st.active /\ Gap(h, i) = 0 /\ Fits(st.buf)
    BY <1>1, <1>4, Continued
  <2>4. CASE OnlyLoss(q, st, i, h, good)
    <3>1. Fits(<<>>)
      <4>1. Len(<<>>) = 0
        OBVIOUS
      <4>2. QED
        BY <2>1, <4>1 DEF Fits
    <3>2. QED
      BY <2>2, <2>3, <2>4, <3>1 DEF OnlyLoss
  <2>5. CASE NoUnit(q, st, i, h)
    BY <1>4, <2>5, PacketType DEF NoUnit, Unfinished
  <2>6. CASE WholeGiven(q, p, i, h) \/ LastJoined(q, st, p, i, h)
    BY <1>4, <2>6 DEF WholeGiven, LastJoined, Unfinished
  <2>7. CASE Opening(q, i, h) \/ More(q, st, i, h)
    BY <2>7 DEF Opening, More
  <2>8. CASE Ignored(q, st, i, h)
    BY <2>3, <2>8 DEF Ignored, Heeds
  <2>9. QED
    BY <2>4, <2>5, <2>6, <2>7, <2>8 DEF Outcome
<1>5. QED
  BY <1>3, <1>4 DEF Heeds

-----------------------------------------------------------------------------
(* What the builder knows of the MPUs.                                      *)
LEMMA Least ==
  ASSUME NEW P, P \subseteq Nat, P # {}
  PROVE  \E x \in P : \A y \in P : x <= y
BY MF!LeastMember

LEMMA PriorIs ==
  ASSUME TypeOK, NEW i \in Nat
  PROVE  Prior(<<i, 1>>) = Upto(i - 1)
<1>1. ASSUME NEW x \in Media
      PROVE  Before(x, <<i, 1>>) <=> x[1] <= i - 1
  <2>1. x[1] \in Nat /\ x[2] \in Nat /\ x[2] >= 1
    BY PlaceShape
  <2>2. PICK a \in Nat : a = x[1]
    BY <2>1
  <2>3. a < i <=> a <= i - 1
    OBVIOUS
  <2>4. <<i, 1>>[1] = i /\ <<i, 1>>[2] = 1 /\ ~ x[2] < 1
    BY <2>1
  <2>5. QED
    BY <2>2, <2>3, <2>4 DEF Before
<1>2. QED
  BY <1>1 DEF Prior, Upto

\* the packet that an MPU begins with
LEMMA FirstIs ==
  ASSUME TypeOK, NEW y \in Media, NEW f, f = FirstOf(MpuOf(y))
  PROVE  /\ f \in 1 .. Length /\ f <= y[1] /\ Packets[f].mfu /\ Packets[f].mpu = MpuOf(y)
         /\ y[1] \in 1 .. Length
<1>1. PICK P : P = {x[1] : x \in {z \in Media : MpuOf(z) = MpuOf(y)}}
  OBVIOUS
<1>2. y[1] \in P /\ P \subseteq Nat
  BY <1>1, PlaceShape
<1>3. PICK g \in P : \A z \in P : g <= z
  BY <1>2, Least
<1>4. Min(P) \in P /\ \A z \in P : Min(P) <= z
  BY <1>3 DEF Min
<1>5. f \in P /\ f <= y[1]
  BY <1>1, <1>2, <1>4 DEF FirstOf
<1>6. PICK x \in Media : MpuOf(x) = MpuOf(y) /\ f = x[1]
  BY <1>1, <1>5
<1>7. QED
  BY <1>5, <1>6, PlaceShape DEF MpuOf

\* the last packet of the unit of packet f, which ends before packet w
LEMMA LastOf ==
  ASSUME TypeOK, NEW f \in 1 .. Length, NEW w \in 1 .. Length, f < w, ~ Continues(w)
  PROVE  \E e \in FragmentsOf(f) : /\ f <= e /\ e < w /\ ~ Unfinished(e)
                                   /\ FragmentsOf(e) \subseteq FragmentsOf(f)
                                   /\ \A x \in FragmentsOf(f) : x <= e
                                   /\ e = f \/ Continues(e)
<1>1. Length \in Nat /\ f \in Nat /\ w \in Nat
  BY LengthType
<1>2. \A x \in 1 .. Length : x < Length => x + 1 \in 1 .. Length /\ (Unfinished(x) <=> Continues(x + 1))
  BY <1>1, PacketType
<1>3. PICK P : P = {x \in f .. w - 1 : ~ Unfinished(x)}
  OBVIOUS
<1>4. w - 1 \in P
  <2>1. w - 1 \in 1 .. Length /\ w - 1 < Length /\ w - 1 + 1 = w /\ w - 1 \in f .. w - 1
    BY <1>1
  <2>2. QED
    BY <1>2, <1>3, <2>1
<1>5. PICK e \in P : \A y \in P : e <= y
  <2>1. P \subseteq Nat
    BY <1>1, <1>3
  <2>2. QED
    BY <1>4, <2>1, Least
<1>6. e \in 1 .. Length /\ f <= e /\ e < w /\ ~ Unfinished(e) /\ e < Length
  BY <1>1, <1>3, <1>5
<1>7. \A y \in f + 1 .. e : Continues(y)
  <2>1. SUFFICES ASSUME NEW y \in f + 1 .. e
                 PROVE  Continues(y)
    OBVIOUS
  <2>2. PICK z \in f .. e - 1 : z = y - 1
    BY <1>1, <1>6
  <2>3. z \in f .. w - 1 /\ z \in 1 .. Length /\ z < Length /\ z + 1 = y /\ ~ e <= z
    BY <1>1, <1>6, <2>2
  <2>4. Unfinished(z)
    BY <1>3, <1>5, <2>3
  <2>5. QED
    BY <1>2, <2>3, <2>4
<1>8. ~ Continues(e + 1) /\ e + 1 \in 1 .. Length
  BY <1>2, <1>6
<1>9. e \in FragmentsOf(f)
  <2>1. e = f \/ e > f
    BY <1>1, <1>6
  <2>2. QED
    BY <1>6, <1>7, <2>1, FragmentIs
<1>10. \A x \in FragmentsOf(f) : x <= e
  <2>1. SUFFICES ASSUME NEW x \in FragmentsOf(f), ~ x <= e
                 PROVE  FALSE
    OBVIOUS
  <2>2. x \in 1 .. Length
    BY FragmentIs
  <2>3. x > f /\ e + 1 \in f + 1 .. x
    BY <1>1, <1>6, <2>1, <2>2
  <2>4. QED
    BY <1>8, <2>1, <2>2, <2>3, FragmentIs
<1>11. FragmentsOf(e) \subseteq FragmentsOf(f)
  <2>1. SUFFICES ASSUME NEW x \in FragmentsOf(e)
                 PROVE  x \in FragmentsOf(f)
    OBVIOUS
  <2>2. x \in 1 .. Length
    BY <1>6, FragmentIs
  <2>3. x <= e
    <3>1. SUFFICES ASSUME ~ x <= e
                   PROVE  FALSE
      OBVIOUS
    <3>2. x > e /\ e + 1 \in e + 1 .. x
      BY <1>6, <2>2, <3>1
    <3>3. QED
      BY <1>6, <1>8, <2>1, <2>2, <3>2, FragmentIs
  <2>4. \A y \in x + 1 .. e : Continues(y)
    BY <1>6, <2>1, <2>2, <2>3, FragmentIs
  <2>5. CASE x <= f
    <3>1. \A y \in x + 1 .. f : y \in x + 1 .. e
      BY <1>1, <1>6, <2>2
    <3>2. QED
      BY <2>2, <2>4, <2>5, <3>1, FragmentIs
  <2>6. CASE x > f
    <3>1. \A y \in f + 1 .. x : y \in f + 1 .. e
      BY <1>1, <1>6, <2>2, <2>3
    <3>2. QED
      BY <1>7, <2>2, <2>6, <3>1, FragmentIs
  <2>7. QED
    BY <1>1, <2>2, <2>5, <2>6
<1>12. e = f \/ Continues(e)
  <2>1. e = f \/ e \in f + 1 .. e
    BY <1>1, <1>6
  <2>2. QED
    BY <1>7, <2>1
<1>13. QED
  BY <1>6, <1>9, <1>10, <1>11, <1>12

\* where a unit begins an MPU for the builder, nothing of that MPU came before it
LEMMA KnownBegins ==
  ASSUME TypeOK, Delimited, AV, NEW h \in 0 .. Length, NEW i \in 1 .. Length, h < i,
         NEW T, T \subseteq 1 .. h, NEW S, S \subseteq T \cup {i}, NEW b \in Builders, Knows(b, T, h),
         NEW w \in Media, ~ Continues(w[1]), w[1] <= i, NEW E, E = Upto(w[1] - 1),
         b.haveMPU => \E x \in E : MpuOf(x) = b.mpu
  PROVE  BeginsAnew(b, MpuOf(w), E, S, i)
<1>1. PICK mpu : mpu = MpuOf(w)
  OBVIOUS
<1>2. SUFFICES ASSUME b.haveMPU, b.mpu # mpu, NEW y \in E, MpuOf(y) = mpu, ~ Spoiled(mpu, S, i)
               PROVE  FALSE
  BY <1>1 DEF BeginsAnew
<1>3. PICK f : f = FirstOf(mpu)
  OBVIOUS
<1>4. y \in Media /\ y[1] <= w[1] - 1 /\ w[1] \in 1 .. Length
  BY <1>2, PlaceShape DEF Upto
<1>5. f \in 1 .. Length /\ f <= y[1] /\ Packets[f].mfu /\ Packets[f].mpu = mpu /\ y[1] \in 1 .. Length
  BY <1>2, <1>3, <1>4, FirstIs
<1>6. Length \in Nat /\ h \in Nat /\ i \in Nat /\ f < w[1] /\ w[1] \in Nat
  BY <1>4, <1>5, LengthType
<1>7. PICK e \in FragmentsOf(f) : /\ f <= e /\ e < w[1] /\ ~ Unfinished(e)
                                  /\ FragmentsOf(e) \subseteq FragmentsOf(f)
                                  /\ \A x \in FragmentsOf(f) : x <= e
                                  /\ e = f \/ Continues(e)
  BY <1>4, <1>5, <1>6, LastOf
<1>8. e \in 1 .. Length
  BY <1>5, <1>7, FragmentIs
<1>9. \A x \in FragmentsOf(f) : x \in T /\ e - x < MaxFragment
  <2>1. SUFFICES ASSUME NEW x \in FragmentsOf(f)
                 PROVE  x \in T /\ e - x < MaxFragment
    OBVIOUS
  <2>2. x \in 1 .. Length /\ x <= e
    BY <1>5, <1>7, <2>1, FragmentIs
  <2>3. x <= i /\ x # i
    BY <1>6, <1>7, <1>8, <2>2
  <2>4. ~ (e - x >= MaxFragment) /\ x \in S
    BY <1>2, <1>3, <1>7, <2>1, <2>3 DEF Spoiled
  <2>5. QED
    BY <1>8, <2>2, <2>3, <2>4, MaxFragmentAssumption
<1>10. Packets[e].mfu
  BY <1>5, <1>7, <1>8, PacketType DEF Continues
<1>11. e \in 1 .. h
  <2>1. e \in T
    BY <1>7, <1>9
  <2>2. QED
    BY <2>1
<1>12. Packets[e].mpu <= b.mpu
  BY <1>7, <1>9, <1>10, <1>11 DEF Knows
<1>13. mpu <= Packets[e].mpu
  <2>1. f \in 1 .. e
    BY <1>5, <1>7, <1>8
  <2>2. QED
    BY <1>5, <1>8, <1>10, <2>1, PacketOfKind
<1>14. b.mpu <= mpu
  <2>1. PICK x \in E : MpuOf(x) = b.mpu
    BY <1>2
  <2>2. x \in Media /\ x[1] <= w[1] - 1 /\ x[1] \in Nat
    BY <2>1, PlaceShape DEF Upto
  <2>3. x[1] <= w[1]
    BY <1>6, <2>2
  <2>4. QED
    BY <1>1, <2>1, <2>2, <2>3, MpuOrder
<1>15. mpu \in Nat /\ b.mpu \in Nat /\ Packets[e].mpu \in Nat
  <2>1. mpu \in Nat
    BY <1>5, PacketType
  <2>2. Packets[e].mpu \in Nat
    BY <1>8, PacketType
  <2>3. QED
    BY <2>1, <2>2 DEF Builders
<1>16. QED
  BY <1>2, <1>12, <1>13, <1>14, <1>15

\* what is known once packet i was taken
LEMMA KnowsStep ==
  ASSUME TypeOK, NEW h \in 0 .. Length, NEW i \in 1 .. Length, h < i,
         NEW T, T \subseteq 1 .. h, NEW S, S \subseteq T \cup {i}, NEW b, Knows(b, T, h),
         NEW d, b.haveMPU => d.haveMPU /\ b.mpu <= d.mpu, b.mpu \in Nat, d.mpu \in Nat,
         Packets[i].mfu /\ ~ Unfinished(i) /\ (\A x \in FragmentsOf(i) : x \in S /\ i - x < MaxFragment)
           => d.haveMPU /\ Packets[i].mpu <= d.mpu
  PROVE  Knows(d, S, i)
<1>1. SUFFICES ASSUME NEW e \in 1 .. i, Packets[e].mfu, ~ Unfinished(e),
                      \A x \in FragmentsOf(e) : x \in S /\ e - x < MaxFragment
               PROVE  d.haveMPU /\ Packets[e].mpu <= d.mpu
  BY DEF Knows
<1>2. Length \in Nat /\ h \in Nat /\ i \in Nat /\ e \in 1 .. Length
  BY LengthType
<1>3. CASE e = i
  BY <1>1, <1>3
<1>4. CASE e # i
  <2>1. e \in S /\ e \in T
    BY <1>1, <1>2, <1>4, FragmentIs
  <2>2. e \in 1 .. h /\ e < Length
    BY <1>2, <2>1
  <2>3. ~ Continues(e + 1)
    BY <1>1, <1>2, <2>2, PacketType
  <2>4. \A x \in FragmentsOf(e) : x \in T /\ e - x < MaxFragment
    <3>1. SUFFICES ASSUME NEW x \in FragmentsOf(e)
                   PROVE  x \in T
      BY <1>1
    <3>2. x \in 1 .. Length /\ x \in S
      BY <1>1, <1>2, <3>1, FragmentIs
    <3>3. x # i
      <4>1. SUFFICES ASSUME x = i
                     PROVE  FALSE
        OBVIOUS
      <4>2. x > e /\ e + 1 \in e + 1 .. x
        BY <1>2, <2>2, <4>1
      <4>3. QED
        BY <1>2, <2>3, <3>1, <3>2, <4>2, FragmentIs
    <3>4. QED
      BY <3>2, <3>3
  <2>5. b.haveMPU /\ Packets[e].mpu <= b.mpu
    BY <1>1, <2>2, <2>4 DEF Knows
  <2>6. Packets[e].mpu \in Nat
    BY <1>2, PacketType
  <2>7. QED
    BY <2>5, <2>6
<1>5. QED
  BY <1>3, <1>4

-----------------------------------------------------------------------------
(* What the units of a packet are, with the places up to what is joined     *)
(* before, D, and after, E.                                                 *)
LEMMA FoldNone ==
  ASSUME NEW a
  PROVE  FoldLeft(MediaUnit, a, <<>>) = a
<1>1. PICK p : p = [a |-> a, told |-> 1]
  OBVIOUS
<1>2. \A x : MediaKeeps(p, 1 .. 0, x) <=> x = a
  <2>1. Cardinality(1 .. 0) - p.told < 0 /\ p.a = a
    <3>1. Cardinality(1 .. 0) = 0
      BY UpToIs
    <3>2. p.told = 1 /\ p.a = a
      BY <1>1
    <3>3. QED
      BY <3>1, <3>2
  <2>2. QED
    BY <2>1 DEF MediaKeeps, ReachedAt
<1>3. MediaKeeps(p, 1 .. 0, MF!Fold(p, a, <<>>))
  <2>1. MediaKeeps(p, 1 .. 0, a)
    BY <1>2
  <2>2. \A i \in 1 .. 0 : \A acc :
          MediaKeeps(p, 1 .. (i - 1), acc) => MediaKeeps(p, 1 .. i, MediaStep(p, acc, <<>>[i]))
    OBVIOUS
  <2>3. DOMAIN <<>> = 1 .. 0 /\ 0 \in Nat
    OBVIOUS
  <2>4. QED
    BY <2>1, <2>2, <2>3, MediaFoldKeeps
<1>4. QED
  BY <1>2, <1>3, MediaFold

LEMMA MediaAppend ==
  ASSUME NEW p, NEW r, NEW s, NEW n \in Nat, DOMAIN s = 1 .. n,
         NEW z, DOMAIN z = 1 .. n + 1, \A i \in 1 .. n : z[i] = s[i]
  PROVE  MF!Fold(p, r, z) = MediaStep(p, MF!Fold(p, r, s), z[n + 1])
BY MF!FoldAppend

LEMMA FoldOne ==
  ASSUME NEW a, NEW u, NEW z, z = <<u>>
  PROVE  FoldLeft(MediaUnit, a, z) = MediaUnit(a, u)
<1>1. DOMAIN <<>> = 1 .. 0 /\ DOMAIN z = 1 .. 0 + 1 /\ z[0 + 1] = u /\ 0 \in Nat
  OBVIOUS
<1>2. \A i \in 1 .. 0 : z[i] = <<>>[i]
  OBVIOUS
<1>3. MF!Fold(0, a, z) = MediaStep(0, MF!Fold(0, a, <<>>), z[0 + 1])
  <2>1. PICK y : y = <<>>
    OBVIOUS
  <2>2. PICK n \in Nat : n = 0
    OBVIOUS
  <2>3. DOMAIN y = 1 .. n /\ DOMAIN z = 1 .. n + 1 /\ \A i \in 1 .. n : z[i] = y[i]
    BY <1>1, <1>2, <2>1, <2>2
  <2>4. MF!Fold(0, a, z) = MediaStep(0, MF!Fold(0, a, y), z[n + 1])
    BY <2>3, MediaAppend
  <2>5. QED
    BY <2>1, <2>2, <2>4
<1>4. MF!Fold(0, a, <<>>) = a /\ MF!Fold(0, a, z) = FoldLeft(MediaUnit, a, z)
  BY MediaFold, FoldNone
<1>5. QED
  BY <1>1, <1>3, <1>4 DEF MediaStep

LEMMA UptoIs ==
  ASSUME TypeOK
  PROVE  /\ Upto(0) = {}
         /\ \A x, y \in Nat : x <= y => Upto(x) \subseteq Upto(y)
         /\ \A i \in 1 .. Length : ~ Packets[i].mfu => Upto(i) = Upto(i - 1)
<1>1. \A x \in Media : x[1] \in 1 .. Length /\ x[1] \in Nat /\ Packets[x[1]].mfu
  BY PlaceShape
<1>2. \A a, b, n \in Nat : (a <= b /\ n <= a) => n <= b
  OBVIOUS
<1>3. \A a \in 1 .. Length : ~ a <= 0
  BY LengthType
<1>4. \A a, i \in 1 .. Length : a <= i /\ a # i => a <= i - 1
  BY LengthType
<1>5. \A a, i \in 1 .. Length : a <= i - 1 => a <= i
  BY LengthType
<1>6. Upto(0) = {}
  BY <1>1, <1>3 DEF Upto
<1>7. \A x, y \in Nat : x <= y => Upto(x) \subseteq Upto(y)
  BY <1>1, <1>2 DEF Upto
<1>8. \A i \in 1 .. Length : ~ Packets[i].mfu => Upto(i) = Upto(i - 1)
  BY <1>1, <1>4, <1>5 DEF Upto
<1>9. QED
  BY <1>6, <1>7, <1>8

LEMMA ReachIs ==
  ASSUME TypeOK, NEW h \in 0 .. Length, NEW st \in States, Listens(st, h)
  PROVE  /\ Reach(st, h) \in 0 .. h
         /\ st.active => h # 0 /\ Unfinished(h) /\ Len(st.buf) \in 1 .. h
                         /\ Reach(st, h) = h - Len(st.buf)
         /\ ~ st.active => Reach(st, h) = h
<1>1. h \in Nat
  BY LengthType
<1>2. CASE st.active
  <2>1. h # 0 /\ Joining(st, h)
    BY <1>2 DEF Listens
  <2>2. Unfinished(h)
    BY <1>1, <2>1, JoiningUnfinished
  <2>3. PICK n \in 1 .. h : n = Len(st.buf)
    BY <2>1 DEF Joining
  <2>4. h - n \in 0 .. h
    BY <1>1, <2>3
  <2>5. QED
    BY <1>2, <2>1, <2>2, <2>3, <2>4 DEF Reach
<1>3. CASE ~ st.active
  BY <1>1, <1>3 DEF Reach
<1>4. QED
  BY <1>2, <1>3

\* without a gap a packet that continues nothing follows one that is complete
LEMMA Settled ==
  ASSUME TypeOK, NEW h \in 0 .. Length, NEW i \in 1 .. Length, h < i, NEW st \in States,
         Listens(st, h), ~ st.active \/ ~ Continues(i), Gap(h, i) = 0
  PROVE  h = 0 \/ (h = i - 1 /\ Reach(st, h) = i - 1)
<1>1. SUFFICES ASSUME h # 0
               PROVE  h = i - 1 /\ Reach(st, h) = i - 1
  OBVIOUS
<1>2. h \in 1 .. Length /\ Length \in Nat
  BY <1>1, LengthType
<1>3. h = i - 1
  BY <1>1, <1>2 DEF Gap
<1>4. ~ st.active
  <2>1. SUFFICES ASSUME st.active
                 PROVE  Continues(i)
    OBVIOUS
  <2>2. Unfinished(h)
    BY <2>1, ReachIs
  <2>3. h < Length /\ h + 1 = i
    BY <1>2, <1>3
  <2>4. QED
    BY <1>2, <2>2, <2>3, PacketType
<1>5. QED
  BY <1>3, <1>4, ReachIs

\* nothing is handed over, or a loss, or perhaps a loss and then the units us
Still(q, st, h, i, D, E) ==
  /\ q.out = <<>> /\ (h = 0 \/ h = i - 1) /\ D \subseteq E
  /\ h = 0 \/ D = E \/ st.orphan
  /\ q.st.orphan => st.orphan

Lost(q, h, i, D, E) == q.out = <<LossUnit(Gap(h, i))>> /\ D \subseteq E

Handed(q, h, i, D, E, S, us, G, w) ==
  /\ Hands(q.out, us, G, Packets[i].mpu, i, S) /\ Len(us) > 0
  /\ Gap(h, i) = 0 => Len(q.out) = Len(us) /\ (h = 0 \/ h = i - 1) /\ (h = 0 \/ D = G[0])
  /\ Gap(h, i) # 0 => Len(q.out) # Len(us) /\ q.out[1] = LossUnit(Gap(h, i))
  /\ D \subseteq G[0] /\ G[0] = Upto(w[1] - 1) /\ G[Len(us)] = E
  /\ w \in Media /\ ~ Continues(w[1]) /\ w[1] <= i /\ MpuOf(w) = Packets[i].mpu
  /\ ~ q.st.orphan

Shaped(q, st, h, i, D, E, S, good) ==
  \/ good /\ Still(q, st, h, i, D, E)
  \/ Lost(q, h, i, D, E)
  \/ good /\ \E us, G, w : Handed(q, h, i, D, E, S, us, G, w)

LEMMA PiecesIs ==
  ASSUME TypeOK, NEW i \in 1 .. Length, NEW s, NEW m, NEW p, p = Received(i, s, m)
  PROVE  Len(p.pieces) = Len(Packets[i].pieces) /\ Len(p.pieces) \in Nat \ {0}
<1>1. PICK n \in Nat \ {0} : n = Len(Packets[i].pieces) /\ DOMAIN Packets[i].pieces = 1 .. n
  BY PacketType
<1>2. PICK pieces : pieces = [j \in 1 .. n |-> [at |-> <<i, j>>, is |-> Packets[i].pieces[j]]]
  OBVIOUS
<1>3. p.pieces = pieces
  BY <1>1, <1>2 DEF Received
<1>4. Len(pieces) = n
  BY <1>2
<1>5. QED
  BY <1>1, <1>3, <1>4

LEMMA ConcatOne ==
  ASSUME NEW U, NEW s \in Seq(U), NEW o \in U, NEW z, z = <<o>> \o s, NEW n \in Nat, n = Len(s)
  PROVE  /\ Len(z) = 1 + n /\ DOMAIN z = 1 .. 1 + n /\ z[1] = o
         /\ \A k \in 1 .. n : z[1 + k] = s[k]
<1>1. PICK t : t = <<o>>
  OBVIOUS
<1>2. t \in Seq(U) /\ Len(t) = 1 /\ t[1] = o
  BY <1>1
<1>3. z \in Seq(U) /\ Len(z) = 1 + n
  BY <1>1, <1>2
<1>4. \A k \in 1 .. Len(t) + Len(s) : z[k] = IF k <= Len(t) THEN t[k] ELSE s[k - Len(t)]
  BY <1>1, <1>2
<1>5. z[1] = o
  BY <1>2, <1>4
<1>6. ASSUME NEW k \in 1 .. n
      PROVE  z[1 + k] = s[k]
  <2>1. 1 + k \in 1 .. 1 + n /\ ~ 1 + k <= 1 /\ 1 + k - 1 = k
    OBVIOUS
  <2>2. QED
    BY <1>2, <1>4, <2>1
<1>7. QED
  BY <1>3, <1>5, <1>6

\* a whole packet hands over its pieces one by one
LEMMA WholeHanded ==
  ASSUME TypeOK, Delimited, AV, NEW h \in 0 .. Length, NEW i \in 1 .. Length, h < i,
         NEW st \in States, Listens(st, h), NEW s \in BOOLEAN, NEW m \in BOOLEAN,
         NEW p, p = Received(i, s, m), NEW q, WholeGiven(q, p, i, h), NEW S, i \in S,
         NEW D, D = Upto(Reach(st, h)), NEW E, E = Upto(i)
  PROVE  \E us, G, w : Handed(q, h, i, D, E, S, us, G, w)
<1>1. /\ q.out = Told(Gap(h, i)) \o Singles(p) /\ ~ q.st.orphan
      /\ Packets[i].mfu /\ Packets[i].frag = "whole"
  BY DEF WholeGiven
<1>2. PICK n \in Nat \ {0} : n = Len(p.pieces) /\ n = Len(Packets[i].pieces)
  BY PiecesIs
<1>3. PICK us : us = Singles(p)
  OBVIOUS
<1>4. us = [k \in 1 .. n |-> DataUnit(p.mpu, p.rap, p.timed, <<p.pieces[k]>>)]
  BY <1>2, <1>3 DEF Singles
<1>5. PICK G : G = [k \in 0 .. n |-> {x \in Media : x[1] < i \/ (x[1] = i /\ x[2] <= k)}]
  OBVIOUS
<1>6. \A k \in 0 .. n : G[k] = {x \in Media : x[1] < i \/ (x[1] = i /\ x[2] <= k)}
  BY <1>5
<1>7. i \in Nat /\ Length \in Nat /\ h \in Nat
  BY LengthType
<1>8. \A x \in Media : x[1] \in Nat /\ x[2] \in Nat /\ x[2] >= 1 /\ x = <<x[1], x[2]>>
                       /\ x[2] <= Len(Packets[x[1]].pieces)
  BY PlaceShape
<1>9. \A U : (\A k \in 1 .. n : us[k] \in U) => us \in Seq(U) /\ Len(us) = n /\ DOMAIN us = 1 .. n
  <2>1. PICK f : f = [k \in 1 .. n |-> us[k]]
    OBVIOUS
  <2>2. us = f
    <3>1. \A k \in 1 .. n : us[k] = DataUnit(p.mpu, p.rap, p.timed, <<p.pieces[k]>>)
      BY <1>4
    <3>2. QED
      BY <1>4, <2>1, <3>1, Zenon
  <2>3. \A U : (\A k \in 1 .. n : us[k] \in U) => f \in Seq(U) /\ Len(f) = n /\ DOMAIN f = 1 .. n
    BY <2>1
  <2>4. QED
    BY <2>2, <2>3
<1>91. Len(us) = n
  <2>1. PICK U : U = {us[k] : k \in 1 .. n}
    OBVIOUS
  <2>2. \A k \in 1 .. n : us[k] \in U
    BY <2>1
  <2>3. QED
    BY <1>9, <2>2
<1>10. ASSUME NEW k \in 1 .. n
       PROVE  \E w, v : /\ IsGiven(us[k], w, v, i, S) /\ us[k].mpu = Packets[i].mpu
                        /\ G[k - 1] = Prior(w) /\ G[k] = G[k - 1] \cup Within(w, v)
  <2>1. PICK w : w = <<i, k>>
    OBVIOUS
  <2>2. us[k] = DataUnit(p.mpu, p.rap, p.timed, <<p.pieces[k]>>)
    BY <1>4
  <2>3. IsGiven(us[k], w, w, i, S)
    BY <1>1, <1>2, <2>1, <2>2, SingleGiven
  <2>4. us[k].mpu = Packets[i].mpu
    BY <2>2, ReceivedType DEF DataUnit
  <2>5. w \in Media /\ Within(w, w) = {w}
    BY <2>3, WithinOne DEF IsGiven
  <2>6. w[1] = i /\ w[2] = k /\ k - 1 \in 0 .. n /\ k \in 0 .. n /\ k \in Nat
    BY <2>1
  <2>7. \A a, b \in Nat : (a < i \/ (a = i /\ b <= k - 1)) <=> (a < i \/ (a = i /\ b < k))
    BY <2>6
  <2>8. \A x \in Media : (x[1] < i \/ (x[1] = i /\ x[2] <= k - 1)) <=> Before(x, w)
    BY <1>8, <2>6, <2>7 DEF Before
  <2>9. G[k - 1] = Prior(w)
    BY <1>6, <2>6, <2>8 DEF Prior
  <2>10. \A a, b \in Nat : (a < i \/ (a = i /\ b <= k))
                           <=> ((a < i \/ (a = i /\ b <= k - 1)) \/ (a = i /\ b = k))
    BY <2>6
  <2>11. \A x \in Media : (x[1] = i /\ x[2] = k) <=> x = w
    BY <1>8, <2>1, <2>6
  <2>12. \A x \in Media : (x[1] < i \/ (x[1] = i /\ x[2] <= k))
                          <=> ((x[1] < i \/ (x[1] = i /\ x[2] <= k - 1)) \/ x = w)
    BY <1>8, <2>10, <2>11
  <2>13. G[k] = G[k - 1] \cup {w}
    BY <1>6, <2>5, <2>6, <2>12
  <2>14. QED
    BY <2>3, <2>4, <2>5, <2>9, <2>13
<1>11. G[n] = E
  <2>1. \A x \in Media : (x[1] < i \/ (x[1] = i /\ x[2] <= n)) <=> x[1] <= i
    BY <1>2, <1>7, <1>8
  <2>2. QED
    BY <1>6, <2>1 DEF Upto
<1>12. G[0] = Upto(i - 1)
  <2>1. \A x \in Media : (x[1] < i \/ (x[1] = i /\ x[2] <= 0)) <=> x[1] <= i - 1
    BY <1>7, <1>8
  <2>2. QED
    BY <1>6, <2>1 DEF Upto
<1>13. PICK w : w = <<i, 1>>
  OBVIOUS
<1>14. w \in Media /\ w[1] = i /\ MpuOf(w) = Packets[i].mpu /\ ~ Continues(w[1])
  <2>1. 1 \in 1 .. Len(Packets[i].pieces)
    BY <1>2
  <2>2. QED
    BY <1>1, <1>13, <2>1, PlaceIn DEF MpuOf, Continues
<1>15. PICK g \in Nat : g = Gap(h, i)
  <2>1. i - h - 1 \in Nat
    BY <1>7
  <2>2. Gap(h, i) \in Nat
    BY <2>1 DEF Gap
  <2>3. QED
    BY <2>2
<1>16. D \subseteq G[0]
  <2>1. Reach(st, h) \in Nat /\ i - 1 \in Nat /\ Reach(st, h) <= i - 1
    <3>1. Reach(st, h) \in 0 .. h
      BY ReachIs
    <3>2. QED
      BY <1>7, <3>1
  <2>2. QED
    BY <1>12, <2>1, UptoIs
<1>17. PICK l \in 0 .. 1 : /\ Len(q.out) = l + n /\ DOMAIN q.out = 1 .. l + n
                           /\ \A k \in 1 .. n : q.out[l + k] = us[k]
                           /\ g = 0 => l = 0
                           /\ g # 0 => l = 1 /\ q.out[1] = LossUnit(g)
  <2>1. PICK U : U = {us[k] : k \in 1 .. n} \cup {LossUnit(g)}
    OBVIOUS
  <2>2. us \in Seq(U) /\ Len(us) = n /\ DOMAIN us = 1 .. n
    BY <1>9, <2>1
  <2>3. CASE g = 0
    <3>1. q.out = <<>> \o us
      BY <1>1, <1>3, <1>15, <2>3 DEF Told
    <3>2. q.out = us
      BY <2>2, <3>1
    <3>3. Len(q.out) = 0 + n /\ DOMAIN q.out = 1 .. 0 + n /\ \A k \in 1 .. n : q.out[0 + k] = us[k]
      BY <2>2, <3>2
    <3>4. QED
      BY <2>3, <3>3
  <2>4. CASE g # 0
    <3>1. PICK t : t = <<LossUnit(g)>>
      OBVIOUS
    <3>2. t = <<LossUnit(g)>>
      BY <3>1
    <3>3. q.out = t \o us
      BY <1>1, <1>3, <1>15, <2>4, <3>1 DEF Told
    <3>4. PICK o : o = LossUnit(g)
      OBVIOUS
    <3>5. o \in U /\ t = <<o>>
      BY <2>1, <3>1, <3>4
    <3>6. /\ Len(q.out) = 1 + n /\ DOMAIN q.out = 1 .. 1 + n /\ q.out[1] = o
          /\ \A k \in 1 .. n : q.out[1 + k] = us[k]
      BY <2>2, <3>3, <3>5, ConcatOne
    <3>7. QED
      BY <2>4, <3>4, <3>6
  <2>5. QED
    BY <2>3, <2>4
<1>18. Hands(q.out, us, G, Packets[i].mpu, i, S)
  <2>1. Len(q.out) - Len(us) = l /\ DOMAIN q.out = 1 .. Len(q.out) /\ Len(q.out) = l + Len(us)
    BY <1>91, <1>17
  <2>2. \A k \in 1 .. n : q.out[Len(q.out) - Len(us) + k] = us[k]
    BY <1>17, <2>1
  <2>3. QED
    BY <1>91, <1>10, <2>1, <2>2 DEF Hands
<1>19. g = 0 => Len(q.out) = Len(us) /\ (h = 0 \/ h = i - 1) /\ (h = 0 \/ D = G[0])
  <2>1. SUFFICES ASSUME g = 0
                 PROVE  Len(q.out) = Len(us) /\ (h = 0 \/ h = i - 1) /\ (h = 0 \/ D = G[0])
    OBVIOUS
  <2>2. h = 0 \/ (h = i - 1 /\ Reach(st, h) = i - 1)
    BY <1>14, <1>15, <2>1, Settled
  <2>3. QED
    BY <1>91, <1>12, <1>17, <2>1, <2>2
<1>20. g # 0 => Len(q.out) # Len(us) /\ q.out[1] = LossUnit(g)
  BY <1>91, <1>17
<1>21. Handed(q, h, i, D, E, S, us, G, w)
  <2>1. w[1] <= i /\ G[0] = Upto(w[1] - 1) /\ Len(us) > 0 /\ G[Len(us)] = E
    BY <1>7, <1>91, <1>11, <1>12, <1>14
  <2>2. QED
    BY <1>1, <1>14, <1>15, <1>16, <1>18, <1>19, <1>20, <2>1 DEF Handed
<1>22. QED
  BY <1>21

\* the last fragment hands over the unit that was joined
LEMMA JoinedHanded ==
  ASSUME TypeOK, Delimited, AV, NEW h \in 0 .. Length, NEW i \in 1 .. Length, h < i,
         NEW T, T \subseteq 1 .. h, NEW st \in States, Listens(st, h), Heeds(st, T, h),
         NEW s \in BOOLEAN, NEW m \in BOOLEAN, NEW p, p = Received(i, s, m),
         NEW q, LastJoined(q, st, p, i, h), NEW S, i \in S, T \subseteq S,
         NEW D, D = Upto(Reach(st, h)), NEW E, E = Upto(i)
  PROVE  \E us, G, w : Handed(q, h, i, D, E, S, us, G, w)
<1>1. /\ h = i - 1 /\ h # 0 /\ st.active /\ q.st.orphan = st.orphan
      /\ q.out = <<DataUnit(st.mpu, st.rap, TRUE, Append(st.buf, p.pieces[1]))>>
      /\ Packets[i].frag = "last"
  BY DEF LastJoined
<1>2. i \in Nat /\ Length \in Nat /\ h \in Nat /\ i > 1
  BY <1>1, LengthType
<1>3. ~ st.orphan /\ \A x \in h - Len(st.buf) + 1 .. h : x \in T /\ Packets[x].mpu = st.mpu
  BY <1>1 DEF Heeds
<1>4. Joining(st, i - 1)
  BY <1>1 DEF Listens
<1>5. PICK n \in 1 .. h : n = Len(st.buf) /\ Reach(st, h) = h - n /\ Packets[h - n + 1].frag = "first"
                          /\ st.mpu = Packets[h - n + 1].mpu
  BY <1>1, <1>4, ReachIs DEF Joining
<1>6. PICK a \in 1 .. h : a = i - n /\ a = h - n + 1
  BY <1>1, <1>2, <1>5
<1>7. \A x \in i - n .. i - 1 : x \in S /\ Packets[x].mpu = st.mpu
  BY <1>1, <1>3, <1>5, <1>6
<1>8. PICK u : u = DataUnit(st.mpu, st.rap, TRUE, Append(st.buf, p.pieces[1]))
  OBVIOUS
<1>9. PICK w : w = <<i - n, 1>>
  OBVIOUS
<1>10. PICK v : v = <<i, 1>>
  OBVIOUS
<1>11. IsGiven(u, w, v, i, S)
  <2>1. \A x \in i - Len(st.buf) .. i - 1 : x \in S /\ Packets[x].mpu = st.mpu
    BY <1>5, <1>7
  <2>2. IsGiven(u, <<i - Len(st.buf), 1>>, <<i, 1>>, i, S)
    BY <1>1, <1>2, <1>4, <1>8, <2>1, JoinedGiven
  <2>3. QED
    BY <1>5, <1>9, <1>10, <2>2
<1>12. Continues(i) /\ Packets[i].mfu
  BY <1>1, PacketType DEF Continues
<1>13. Packets[i].mpu = st.mpu /\ Len(Packets[i].pieces) = 1
  <2>1. i - 1 \in i - n .. i - 1
    BY <1>2, <1>5
  <2>2. QED
    BY <1>1, <1>7, <1>12, <2>1, PacketOfKind
<1>14. u.mpu = Packets[i].mpu
  BY <1>8, <1>13 DEF DataUnit
<1>15. w \in Media /\ v \in Media /\ w[1] = a /\ ~ Before(v, w) /\ v[1] = i /\ v[2] = 1
  BY <1>6, <1>9, <1>10, <1>11 DEF IsGiven
<1>16. MpuOf(w) = Packets[i].mpu
  BY <1>11, <1>14 DEF IsGiven
<1>17. ~ Continues(w[1])
  BY <1>5, <1>6, <1>15 DEF Continues
<1>18. Prior(w) = Upto(a - 1)
  BY <1>2, <1>6, <1>9, PriorIs
<1>19. D = Upto(a - 1)
  <2>1. a - 1 = h - n
    BY <1>2, <1>6
  <2>2. QED
    BY <1>5, <2>1
<1>20. Prior(w) \cup Within(w, v) = E
  <2>1. \A x \in Media : x[1] \in Nat /\ x[2] \in Nat /\ x[2] >= 1 /\ x = <<x[1], x[2]>>
                         /\ x[2] <= Len(Packets[x[1]].pieces)
    BY PlaceShape
  <2>2. \A x \in Media : ~ Before(v, x) <=> x[1] <= i
    <3>1. SUFFICES ASSUME NEW x \in Media
                   PROVE  ~ Before(v, x) <=> x[1] <= i
      OBVIOUS
    <3>2. x[1] = i => x[2] = 1
      <4>1. SUFFICES ASSUME x[1] = i
                     PROVE  x[2] = 1
        OBVIOUS
      <4>2. PICK y \in Nat : y = x[2] /\ y >= 1
        BY <2>1
      <4>3. x[2] <= Len(Packets[x[1]].pieces)
        BY <2>1
      <4>4. x[2] <= 1
        BY <1>13, <4>1, <4>3
      <4>5. QED
        BY <4>2, <4>4
    <3>3. PICK y \in Nat : y = x[1]
      BY <2>1
    <3>4. ~ Before(v, x) <=> ~ (i < y \/ (i = y /\ 1 < x[2]))
      BY <1>15, <3>3 DEF Before
    <3>5. (i = y /\ 1 < x[2]) => FALSE
      BY <3>2, <3>3
    <3>6. ~ i < y <=> y <= i
      BY <1>2
    <3>7. QED
      BY <3>3, <3>4, <3>5, <3>6
  <2>3. \A x \in Media : Before(x, w) => ~ Before(v, x)
    BY <1>15, PlaceOrder
  <2>4. QED
    BY <2>2, <2>3 DEF Prior, Within, Upto
<1>21. PICK G : G = [k \in 0 .. 1 |-> IF k = 0 THEN Prior(w) ELSE E]
  OBVIOUS
<1>22. G[0] = Prior(w) /\ G[1] = E
  BY <1>21
<1>23. PICK us : us = <<u>>
  OBVIOUS
<1>24. Len(us) = 1 /\ us[1] = u /\ DOMAIN us = 1 .. 1 /\ q.out = us
  BY <1>1, <1>8, <1>23
<1>25. Hands(q.out, us, G, Packets[i].mpu, i, S)
  <2>1. \A k \in 1 .. Len(us) : k = 1
    BY <1>24
  <2>2. \A k \in 1 .. Len(us) : q.out[Len(q.out) - Len(us) + k] = us[k]
    <3>1. Len(q.out) - Len(us) + 1 = 1
      BY <1>24
    <3>2. QED
      BY <1>24, <2>1, <3>1
  <2>3. /\ IsGiven(us[1], w, v, i, S) /\ us[1].mpu = Packets[i].mpu
        /\ G[1 - 1] = Prior(w) /\ G[1] = G[1 - 1] \cup Within(w, v)
    BY <1>11, <1>14, <1>20, <1>22, <1>24
  <2>4. Len(q.out) = 0 + Len(us) /\ DOMAIN q.out = 1 .. Len(q.out) /\ Len(us) \in Nat
    <3>1. PICK l : l = Len(us)
      OBVIOUS
    <3>2. l = 1 /\ Len(q.out) = l /\ DOMAIN q.out = 1 .. l
      BY <1>24, <3>1, Zenon
    <3>3. QED
      BY <3>1, <3>2
  <2>5. QED
    BY <2>1, <2>2, <2>3, <2>4 DEF Hands
<1>26. Gap(h, i) = 0
  BY <1>1, <1>2 DEF Gap
<1>27. w[1] <= i /\ G[0] = Upto(w[1] - 1) /\ G[Len(us)] = E /\ Len(us) > 0 /\ D = G[0]
  BY <1>2, <1>6, <1>15, <1>18, <1>19, <1>22, <1>24
<1>28. Handed(q, h, i, D, E, S, us, G, w)
  BY <1>1, <1>3, <1>15, <1>16, <1>17, <1>24, <1>25, <1>26, <1>27 DEF Handed
<1>29. QED
  BY <1>28

\* each outcome has one of the shapes
Packet(st, T, h, i, s, m, p, q, S, D, E) ==
  /\ Listens(st, h) /\ Heeds(st, T, h) /\ T \subseteq 1 .. h /\ Took(T, S, i, ~ s /\ ~ m)
  /\ p = Received(i, s, m) /\ q = PushPacket(st, p)
  /\ D = Upto(Reach(st, h)) /\ E = Upto(Reach(q.st, i))

LEMMA ShapeIs ==
  ASSUME TypeOK, Delimited, AV, NEW h \in 0 .. Length, NEW i \in 1 .. Length, h < i,
         NEW T, NEW st \in States, NEW s \in BOOLEAN, NEW m \in BOOLEAN,
         NEW p, NEW q, NEW S, NEW D, NEW E, Packet(st, T, h, i, s, m, p, q, S, D, E)
  PROVE  /\ Shaped(q, st, h, i, D, E, S, ~ s /\ ~ m)
         /\ Packets[i].mfu /\ ~ Unfinished(i) /\ (\A x \in FragmentsOf(i) : x \in S /\ i - x < MaxFragment)
              => \E us, G, w : Handed(q, h, i, D, E, S, us, G, w)
         /\ q.st \in States /\ Listens(q.st, i) /\ Heeds(q.st, S, i)
<1>1. /\ Listens(st, h) /\ Heeds(st, T, h) /\ T \subseteq 1 .. h /\ Took(T, S, i, ~ s /\ ~ m)
      /\ p = Received(i, s, m) /\ q = PushPacket(st, p)
      /\ D = Upto(Reach(st, h)) /\ E = Upto(Reach(q.st, i))
  BY DEF Packet
<1>2. PICK good \in BOOLEAN : good = (~ s /\ ~ m)
  OBVIOUS
<1>3. Outcome(q, st, p, i, h, good)
  <2>1. st.active => ~ st.orphan
    BY <1>1 DEF Heeds
  <2>2. Outcome(q, st, p, i, h, ~ s /\ ~ m)
    BY <1>1, <2>1, OutcomeIs
  <2>3. QED
    BY <1>2, <2>2
<1>4. q.st \in States /\ Listens(q.st, i)
  <2>1. Tracks(q, i) /\ (q.st.active => Joining(q.st, i))
    BY <1>1, PushTracks
  <2>2. i # 0
    BY LengthType
  <2>3. QED
    BY <2>1, <2>2 DEF Tracks, Listens
<1>5. Heeds(q.st, S, i)
  BY <1>1, <1>2, <1>3, HeedsStep
<1>6. S \subseteq T \cup {i} /\ (good => i \in S /\ T \subseteq S) /\ (~ good => i \notin S)
  <2>1. i \notin T
    BY <1>1, LengthType
  <2>2. QED
    BY <1>1, <1>2, <2>1 DEF Took
<1>7. Reach(st, h) \in 0 .. h /\ h \in Nat /\ i \in Nat /\ Length \in Nat
  BY <1>1, ReachIs, LengthType
<1>8. ~ q.st.active => Reach(q.st, i) = i
  BY DEF Reach
<1>9. ~ q.st.active => D \subseteq E
  <2>1. Reach(st, h) \in Nat /\ i \in Nat /\ Reach(st, h) <= i
    BY <1>7
  <2>2. QED
    BY <1>1, <1>8, <2>1, UptoIs
<1>10. Packets[i].mfu /\ ~ Unfinished(i) /\ (\A x \in FragmentsOf(i) : x \in S /\ i - x < MaxFragment)
         => \E us, G, w : Handed(q, h, i, D, E, S, us, G, w)
  <2>1. SUFFICES ASSUME Packets[i].mfu, ~ Unfinished(i),
                        \A x \in FragmentsOf(i) : x \in S /\ i - x < MaxFragment
                 PROVE  \E us, G, w : Handed(q, h, i, D, E, S, us, G, w)
    OBVIOUS
  <2>2. i \in S /\ good
    BY <1>6, <2>1, FragmentIs
  <2>3. Continues(i) => st.active /\ Gap(h, i) = 0 /\ Fits(st.buf)
    BY <1>1, <1>6, <2>1, Continued
  <2>4. ~ OnlyLoss(q, st, i, h, good)
    BY <2>1, <2>2, <2>3 DEF OnlyLoss, Unfinished
  <2>5. ~ NoUnit(q, st, i, h) /\ ~ Opening(q, i, h) /\ ~ More(q, st, i, h)
    BY <2>1 DEF NoUnit, Opening, More, Unfinished
  <2>6. ~ Ignored(q, st, i, h)
    BY <1>1, <2>3 DEF Ignored, Heeds
  <2>7. WholeGiven(q, p, i, h) \/ LastJoined(q, st, p, i, h)
    BY <1>3, <2>4, <2>5, <2>6 DEF Outcome
  <2>8. E = Upto(i)
    BY <1>1, <1>8, <2>7 DEF WholeGiven, LastJoined
  <2>9. CASE WholeGiven(q, p, i, h)
    BY <1>1, <1>6, <2>2, <2>8, <2>9, WholeHanded
  <2>10. CASE LastJoined(q, st, p, i, h)
    BY <1>1, <1>6, <2>2, <2>8, <2>10, JoinedHanded, ZenonT(40)
  <2>11. QED
    BY <2>7, <2>9, <2>10
<1>11. Shaped(q, st, h, i, D, E, S, good)
  <2>1. CASE OnlyLoss(q, st, i, h, good)
    BY <1>9, <2>1 DEF OnlyLoss, Lost, Shaped
  <2>2. CASE good /\ NoUnit(q, st, i, h)
    <3>1. q.out = Told(Gap(h, i)) /\ ~ q.st.active /\ q.st.orphan = st.orphan /\ ~ Packets[i].mfu
      BY <2>2 DEF NoUnit
    <3>2. CASE Gap(h, i) = 0
      <4>1. ~ Continues(i)
        BY <3>1, PacketType DEF Continues
      <4>2. h = 0 \/ (h = i - 1 /\ Reach(st, h) = i - 1)
        BY <1>1, <3>2, <4>1, Settled
      <4>3. E = Upto(i - 1)
        BY <1>1, <1>8, <3>1, UptoIs
      <4>4. Still(q, st, h, i, D, E)
        BY <1>1, <1>9, <3>1, <3>2, <4>2, <4>3 DEF Still, Told
      <4>5. QED
        BY <2>2, <4>4 DEF Shaped
    <3>3. CASE Gap(h, i) # 0
      BY <1>9, <3>1, <3>3 DEF Told, Lost, Shaped
    <3>4. QED
      BY <3>2, <3>3
  <2>3. CASE good /\ (WholeGiven(q, p, i, h) \/ LastJoined(q, st, p, i, h))
    <3>1. E = Upto(i)
      BY <1>1, <1>8, <2>3 DEF WholeGiven, LastJoined
    <3>5. i \in S /\ T \subseteq S
      BY <1>6, <2>3
    <3>2. WholeGiven(q, p, i, h) => \E us, G, w : Handed(q, h, i, D, E, S, us, G, w)
      BY <1>1, <3>1, <3>5, WholeHanded
    <3>4. LastJoined(q, st, p, i, h) => \E us, G, w : Handed(q, h, i, D, E, S, us, G, w)
      BY <1>1, <3>1, <3>5, JoinedHanded, ZenonT(40)
    <3>3. QED
      BY <2>3, <3>2, <3>4 DEF Shaped
  <2>4. CASE good /\ Opening(q, i, h)
    <3>1. /\ q.out = Told(Gap(h, i)) /\ q.st.active /\ ~ q.st.orphan /\ Len(q.st.buf) = 1
          /\ Packets[i].frag = "first"
      BY <2>4 DEF Opening
    <3>2. Reach(q.st, i) = i - 1 /\ E = Upto(i - 1)
      BY <1>1, <3>1 DEF Reach
    <3>3. D \subseteq E
      <4>1. Reach(st, h) \in Nat /\ i - 1 \in Nat /\ Reach(st, h) <= i - 1
        BY <1>7
      <4>2. QED
        BY <1>1, <3>2, <4>1, UptoIs
    <3>4. CASE Gap(h, i) = 0
      <4>1. ~ Continues(i)
        BY <3>1 DEF Continues
      <4>2. h = 0 \/ (h = i - 1 /\ Reach(st, h) = i - 1)
        BY <1>1, <3>4, <4>1, Settled
      <4>3. Still(q, st, h, i, D, E)
        BY <1>1, <3>1, <3>2, <3>3, <3>4, <4>2 DEF Still, Told
      <4>4. QED
        BY <2>4, <4>3 DEF Shaped
    <3>5. CASE Gap(h, i) # 0
      BY <3>1, <3>3, <3>5 DEF Told, Lost, Shaped
    <3>6. QED
      BY <3>4, <3>5
  <2>5. CASE good /\ Ignored(q, st, i, h)
    <3>1. q.out = Told(Gap(h, i)) /\ ~ q.st.active /\ st.orphan
      BY <2>5 DEF Ignored
    <3>2. CASE Gap(h, i) = 0
      <4>1. ~ st.active
        BY <1>1, <3>1 DEF Heeds
      <4>2. h = 0 \/ h = i - 1
        BY <1>1, <3>2, <4>1, Settled
      <4>3. Still(q, st, h, i, D, E)
        BY <1>9, <3>1, <3>2, <4>2 DEF Still, Told
      <4>4. QED
        BY <2>5, <4>3 DEF Shaped
    <3>3. CASE Gap(h, i) # 0
      BY <1>9, <3>1, <3>3 DEF Told, Lost, Shaped
    <3>4. QED
      BY <3>2, <3>3
  <2>6. CASE good /\ More(q, st, i, h)
    <3>1. /\ h = i - 1 /\ h # 0 /\ st.active /\ q.out = <<>> /\ q.st.active /\ q.st.orphan = st.orphan
          /\ Len(q.st.buf) = Len(st.buf) + 1
      BY <2>6 DEF More
    <3>2. Reach(st, h) = h - Len(st.buf) /\ Reach(q.st, i) = i - Len(q.st.buf) /\ Len(st.buf) \in 1 .. h
      BY <1>1, <3>1, ReachIs DEF Reach
    <3>3. Reach(q.st, i) = Reach(st, h)
      <4>1. PICK k \in Nat : k = Len(st.buf)
        BY <1>7, <3>2
      <4>2. Reach(st, h) = i - 1 - k /\ Reach(q.st, i) = i - (k + 1)
        BY <3>1, <3>2, <4>1
      <4>3. QED
        BY <1>7, <4>1, <4>2
    <3>4. Still(q, st, h, i, D, E)
      BY <1>1, <3>1, <3>3 DEF Still
    <3>5. QED
      BY <2>6, <3>4 DEF Shaped
  <2>7. QED
    BY <1>3, <2>1, <2>2, <2>3, <2>4, <2>5, <2>6 DEF Outcome
<1>12. QED
  BY <1>2, <1>4, <1>5, <1>10, <1>11

-----------------------------------------------------------------------------
(* handleMedia for a packet that is not late.                               *)
Heard(st, b, z, out, T, h, m, c) ==
  /\ Listens(st, h) /\ Heeds(st, T, h) /\ T \subseteq 1 .. h
  /\ st.orphan => ~ b.trusted
  /\ h = 0 => out = <<>>
  /\ Goes(b, z, out, Upto(Reach(st, h)), T, h, m, c)
  /\ Knows(b, T, h)

\* packet i comes to what was heard up to packet h
Comes(st, b, z, out, T, h, m, c, i, S, n, D) ==
  /\ Goes(b, z, out, D, T, h, m, c) /\ Knows(b, T, h) /\ T \subseteq 1 .. h
  /\ Onward(T, S, h, i, out, m, n) /\ S \subseteq T \cup {i} /\ h < i
  /\ h = 0 => n = i /\ D = {}
  /\ st.orphan => ~ b.trusted

LEMMA GapType ==
  ASSUME TypeOK, NEW h \in 0 .. Length, NEW i \in 1 .. Length, h < i
  PROVE  Gap(h, i) \in Nat /\ (h = 0 \/ h = i - 1 => Gap(h, i) = 0)
<1>1. i - h - 1 \in Nat
  BY LengthType
<1>2. h = i - 1 => i - h - 1 = 0
  BY LengthType
<1>3. QED
  BY <1>1, <1>2 DEF Gap

Sound(b, out, D, c) ==
  /\ c \in Nat /\ b \in Builders /\ b.mpu \in Nat /\ IsSeq(out)
  /\ b.haveMPU => \E x \in D : MpuOf(x) = b.mpu

LEMMA CountType ==
  ASSUME NEW b, NEW z, NEW out, NEW D, NEW T, NEW h, NEW m, NEW c, Goes(b, z, out, D, T, h, m, c)
  PROVE  Sound(b, out, D, c)
<1>1. Carried(out) \in Nat /\ z.carry \in Nat /\ Carried(out) + z.carry = c
  BY DEF Goes, IsMarks
<1>2. b \in Builders /\ IsSeq(out) /\ (b.haveMPU => \E x \in D : MpuOf(x) = b.mpu)
  BY DEF Goes, Builds
<1>3. b.mpu \in Nat
  BY <1>2 DEF Builders
<1>5. c \in Nat
  BY <1>1
<1>4. QED
  BY <1>2, <1>3, <1>5 DEF Sound

LEMMA StillStep ==
  ASSUME TypeOK, Delimited, AV, NEW h \in 0 .. Length, NEW i \in 1 .. Length, NEW T, NEW st, NEW b,
         NEW z, NEW out, NEW m, NEW c, NEW S, NEW n, NEW D, Comes(st, b, z, out, T, h, m, c, i, S, n, D),
         NEW q, NEW E, Still(q, st, h, i, D, E), i \in S,
         NEW a, a = [b |-> b, s |-> z, out |-> <<>>], NEW x, x = FoldLeft(MediaUnit, a, q.out)
  PROVE  Going(x, out, E, S, i, n, c + Gap(h, i)) /\ x.b = b
<1>1. /\ Goes(b, z, out, D, T, h, m, c) /\ Onward(T, S, h, i, out, m, n) /\ h < i
      /\ h = 0 => n = i /\ D = {}
      /\ st.orphan => ~ b.trusted
  BY DEF Comes
<1>2. /\ q.out = <<>> /\ (h = 0 \/ h = i - 1) /\ D \subseteq E
      /\ h = 0 \/ D = E \/ st.orphan
  BY DEF Still
<1>3. Goes(b, z, out, E, S, i, n, c)
  BY <1>1, <1>2, GoodGoes
<1>4. x = a /\ x.b = b /\ x.s = z /\ x.out = <<>>
  BY <1>2, FoldNone
<1>9. Sound(b, out, D, c)
  BY <1>1, CountType, Zenon
<1>10. IsSeq(out) /\ c \in Nat
  BY <1>9 DEF Sound
<1>11. Gap(h, i) = 0
  BY <1>1, <1>2, GapType
<1>5. out \o <<>> = out /\ IsSeq(<<>>) /\ c + Gap(h, i) = c
  <2>1. out \o <<>> = out /\ IsSeq(<<>>)
    BY <1>10, ConcatNone
  <2>2. QED
    BY <1>10, <1>11, <2>1
<1>6. Goes(x.b, x.s, out \o x.out, E, S, i, n, c + Gap(h, i))
  BY <1>3, <1>4, <1>5
<1>7. IsAcc(x)
  BY <1>4, <1>5 DEF IsAcc
<1>8. QED
  BY <1>4, <1>6, <1>7 DEF Going

LEMMA LostStep ==
  ASSUME TypeOK, Delimited, AV, NEW h \in 0 .. Length, NEW i \in 1 .. Length, NEW T, NEW st, NEW b,
         NEW z, NEW out, NEW m, NEW c, NEW S, NEW n, NEW D, Comes(st, b, z, out, T, h, m, c, i, S, n, D),
         NEW q, NEW E, Lost(q, h, i, D, E),
         NEW a, a = [b |-> b, s |-> z, out |-> <<>>], NEW x, x = FoldLeft(MediaUnit, a, q.out)
  PROVE  /\ Going(x, out, E, S, i, n, c + Gap(h, i))
         /\ x.b.haveMPU = b.haveMPU /\ x.b.mpu = b.mpu /\ ~ x.b.trusted
<1>1. Goes(b, z, out, D, T, h, m, c) /\ Onward(T, S, h, i, out, m, n) /\ h < i
  BY DEF Comes
<1>2. q.out = <<LossUnit(Gap(h, i))>> /\ D \subseteq E
  BY DEF Lost
<1>3. PICK g \in Nat : g = Gap(h, i)
  BY <1>1, GapType
<1>4. x = MediaUnit(a, LossUnit(g))
  BY <1>2, <1>3, FoldOne
<1>5. /\ Going(x, out, E, S, i, n, c + g)
      /\ x.b.haveMPU = b.haveMPU /\ x.b.mpu = b.mpu /\ ~ x.b.trusted
  BY <1>1, <1>2, <1>4, LossStep
<1>6. QED
  BY <1>3, <1>5

LEMMA HandedStep ==
  ASSUME TypeOK, Delimited, AV, NEW h \in 0 .. Length, NEW i \in 1 .. Length, NEW T, NEW st, NEW b,
         NEW z, NEW out, NEW m, NEW c, NEW S, NEW n, NEW D, Comes(st, b, z, out, T, h, m, c, i, S, n, D),
         NEW q, NEW E, NEW us, NEW G, NEW w, Handed(q, h, i, D, E, S, us, G, w),
         NEW a, a = [b |-> b, s |-> z, out |-> <<>>], NEW x, x = FoldLeft(MediaUnit, a, q.out)
  PROVE  /\ Going(x, out, E, S, i, n, c + Gap(h, i))
         /\ x.b.haveMPU /\ x.b.mpu = Packets[i].mpu /\ (b.haveMPU => b.mpu <= x.b.mpu)
<1>1. /\ Goes(b, z, out, D, T, h, m, c) /\ Onward(T, S, h, i, out, m, n) /\ h < i
      /\ Knows(b, T, h) /\ T \subseteq 1 .. h /\ S \subseteq T \cup {i}
      /\ h = 0 => n = i /\ D = {}
  BY DEF Comes
<1>2. PICK mpu : mpu = Packets[i].mpu
  OBVIOUS
<1>3. PICK g \in Nat : g = Gap(h, i)
  BY <1>1, GapType
<1>4. PICK F : F = G[0]
  OBVIOUS
<1>5. /\ Hands(q.out, us, G, mpu, i, S) /\ Len(us) > 0
      /\ g = 0 => Len(q.out) = Len(us) /\ (h = 0 \/ h = i - 1) /\ (h = 0 \/ D = F)
      /\ g # 0 => Len(q.out) # Len(us) /\ q.out[1] = LossUnit(g)
      /\ D \subseteq F /\ F = Upto(w[1] - 1) /\ G[Len(us)] = E
      /\ w \in Media /\ ~ Continues(w[1]) /\ w[1] <= i /\ MpuOf(w) = mpu
  BY <1>2, <1>3, <1>4 DEF Handed
<1>6. c \in Nat /\ b \in Builders /\ IsSeq(out) /\ b.mpu \in Nat
      /\ (b.haveMPU => \E y \in D : MpuOf(y) = b.mpu)
  <2>1. Sound(b, out, D, c)
    BY <1>1, CountType, Zenon
  <2>2. QED
    BY <2>1 DEF Sound
<1>7. i \in S
  <2>1. 1 \in 1 .. Len(us)
    BY <1>5 DEF Hands
  <2>2. PICK y, v : IsGiven(us[1], y, v, i, S)
    BY <1>5, <2>1 DEF Hands
  <2>3. y \in Media /\ v \in Media /\ v[1] = i /\ ~ Before(v, y) /\ y[1] .. i \subseteq S
    BY <2>2 DEF IsGiven
  <2>4. y[1] \in Nat /\ ~ i < y[1]
    BY <2>3, PlaceShape DEF Before
  <2>5. i \in y[1] .. i
    BY <2>4
  <2>6. QED
    BY <2>3, <2>5
<1>8. BeginsAnew(b, mpu, F, S, i)
  <2>1. b.haveMPU => \E y \in F : MpuOf(y) = b.mpu
    BY <1>5, <1>6
  <2>2. QED
    BY <1>1, <1>5, <1>6, <2>1, KnownBegins
<1>9. LoopReady(a, q.out, us, G, mpu, out, S, i, n, c + g)
  <2>1. a.b = b /\ a.s = z /\ a.out = <<>>
    OBVIOUS
  <2>2. CASE g = 0
    <3>1. Goes(b, z, out, F, S, i, n, c)
      BY <1>1, <1>5, <1>7, <2>2, GoodGoes
    <3>2. out \o <<>> = out /\ IsSeq(<<>>) /\ c + g = c
      BY <1>6, <2>2, ConcatNone
    <3>3. Goes(a.b, a.s, out \o a.out, F, S, i, n, c + g)
      BY <2>1, <3>1, <3>2
    <3>4. IsAcc(a)
      BY <2>1, <3>2 DEF IsAcc
    <3>5. Going(a, out, G[0], S, i, n, c + g)
      BY <1>4, <3>3, <3>4 DEF Going
    <3>6. QED
      BY <1>4, <1>5, <1>6, <1>8, <2>1, <2>2, <3>5 DEF LoopReady
  <2>3. CASE g # 0
    <3>1. PICK y : y = MediaUnit(a, q.out[1])
      OBVIOUS
    <3>2. y = MediaUnit(a, LossUnit(g))
      BY <1>5, <2>3, <3>1
    <3>3. Going(y, out, F, S, i, n, c + g) /\ y.b.haveMPU = b.haveMPU /\ y.b.mpu = b.mpu
      <4>1. D \subseteq F
        BY <1>5
      <4>2. QED
        BY <1>1, <3>2, <4>1, LossStep
    <3>4. QED
      BY <1>4, <1>5, <1>6, <1>8, <2>1, <2>3, <3>1, <3>3 DEF LoopReady
  <2>4. QED
    BY <2>2, <2>3
<1>10. LoopDone(a, x, us, G, mpu, out, S, i, n, c + g)
  BY <1>9, LoopIs
<1>11. Going(x, out, E, S, i, n, c + g) /\ x.b.haveMPU /\ x.b.mpu = mpu
  BY <1>5, <1>10 DEF LoopDone
<1>12. b.haveMPU => b.mpu <= mpu
  <2>1. SUFFICES ASSUME b.haveMPU
                 PROVE  b.mpu <= mpu
    OBVIOUS
  <2>2. PICK y \in F : MpuOf(y) = b.mpu
    BY <1>5, <1>6, <2>1
  <2>3. y \in Media /\ y[1] <= w[1] - 1 /\ y[1] \in Nat /\ w[1] \in Nat
    BY <1>5, <2>2, PlaceShape DEF Upto
  <2>4. y[1] <= w[1]
    BY <2>3
  <2>5. QED
    BY <1>5, <2>2, <2>3, <2>4, MpuOrder
<1>13. QED
  BY <1>2, <1>3, <1>11, <1>12

\* the last packet of a unit that was received entire
Entirely(i, S) ==
  /\ Packets[i].mfu /\ ~ Unfinished(i)
  /\ \A x \in FragmentsOf(i) : x \in S /\ i - x < MaxFragment

Came(q, x, b, out, i, E, S, n, k) ==
  /\ Going(x, out, E, S, i, n, k)
  /\ b.haveMPU => x.b.haveMPU /\ b.mpu <= x.b.mpu
  /\ q.st.orphan => ~ x.b.trusted
  /\ Entirely(i, S) => x.b.haveMPU /\ x.b.mpu = Packets[i].mpu

\* everything that is known of what was heard is so of one packet more
Given(st, b, z, out, T, h, m, c, i, s, d, S, n, p, q, x) ==
  /\ Heard(st, b, z, out, T, h, m, c) /\ h < i /\ Took(T, S, i, ~ s /\ ~ d)
  /\ p = Received(i, s, d) /\ q = PushPacket(st, p) /\ n = (IF h = 0 THEN i ELSE m)
  /\ x = FoldLeft(MediaUnit, [b |-> b, s |-> z, out |-> <<>>], q.out)

LEMMA PacketStep ==
  ASSUME TypeOK, Delimited, AV, NEW h \in 0 .. Length, NEW i \in 1 .. Length,
         NEW T, NEW st \in States, NEW s \in BOOLEAN, NEW d \in BOOLEAN,
         NEW b, NEW z, NEW out, NEW m, NEW c, NEW S, NEW n, NEW p, NEW q, NEW x,
         Given(st, b, z, out, T, h, m, c, i, s, d, S, n, p, q, x)
  PROVE  Heard(q.st, x.b, x.s, out \o x.out, S, i, n, c + Gap(h, i))
<1>1. PICK D : D = Upto(Reach(st, h))
  OBVIOUS
<1>2. PICK E : E = Upto(Reach(q.st, i))
  OBVIOUS
<1>3. PICK a : a = [b |-> b, s |-> z, out |-> <<>>]
  OBVIOUS
<1>4. /\ Listens(st, h) /\ Heeds(st, T, h) /\ T \subseteq 1 .. h
      /\ st.orphan => ~ b.trusted
      /\ h = 0 => out = <<>>
      /\ Goes(b, z, out, D, T, h, m, c) /\ Knows(b, T, h)
      /\ h < i /\ Took(T, S, i, ~ s /\ ~ d)
      /\ p = Received(i, s, d) /\ q = PushPacket(st, p) /\ n = (IF h = 0 THEN i ELSE m)
      /\ x = FoldLeft(MediaUnit, a, q.out)
  BY <1>1, <1>3, Zenon DEF Given, Heard
<1>5. /\ Shaped(q, st, h, i, D, E, S, ~ s /\ ~ d)
      /\ Packets[i].mfu /\ ~ Unfinished(i) /\ (\A y \in FragmentsOf(i) : y \in S /\ i - y < MaxFragment)
           => \E us, G, w : Handed(q, h, i, D, E, S, us, G, w)
      /\ q.st \in States /\ Listens(q.st, i) /\ Heeds(q.st, S, i)
  <2>1. Packet(st, T, h, i, s, d, p, q, S, D, E)
    BY <1>1, <1>2, <1>4, Zenon DEF Packet
  <2>2. QED
    BY <1>4, <2>1, ShapeIs
<1>6. /\ S \subseteq T \cup {i} /\ (~ s /\ ~ d => i \in S) /\ T \subseteq S /\ S \subseteq 1 .. i
      /\ S \ T \subseteq {i}
  <2>1. S \subseteq T \cup {i} /\ (~ s /\ ~ d => i \in S) /\ T \subseteq S
    BY <1>4 DEF Took
  <2>2. 1 .. h \subseteq 1 .. i /\ i \in 1 .. i
    BY <1>4, LengthType
  <2>3. QED
    BY <1>4, <2>1, <2>2
<1>7. Comes(st, b, z, out, T, h, m, c, i, S, n, D)
  <2>1. Onward(T, S, h, i, out, m, n)
    BY <1>4, <1>6 DEF Onward
  <2>2. h = 0 => D = {}
    <3>1. h = 0 => Reach(st, h) = 0
      BY <1>4, ReachIs
    <3>2. QED
      BY <1>1, <3>1, UptoIs
  <2>3. QED
    BY <1>4, <1>6, <2>1, <2>2 DEF Comes
<1>8. b \in Builders /\ b.mpu \in Nat
  <2>1. Sound(b, out, D, c)
    BY <1>4, CountType, Zenon
  <2>2. QED
    BY <2>1 DEF Sound
<1>9. PICK k : k = c + Gap(h, i)
  OBVIOUS
<1>10. Came(q, x, b, out, i, E, S, n, k)
  <2>1. ASSUME NEW us, NEW G, NEW w, Handed(q, h, i, D, E, S, us, G, w)
        PROVE  Came(q, x, b, out, i, E, S, n, k)
    <3>1. /\ Going(x, out, E, S, i, n, k)
          /\ x.b.haveMPU /\ x.b.mpu = Packets[i].mpu /\ (b.haveMPU => b.mpu <= x.b.mpu)
      BY <1>3, <1>4, <1>7, <1>9, <2>1, HandedStep
    <3>2. ~ q.st.orphan
      BY <2>1 DEF Handed
    <3>3. QED
      BY <3>1, <3>2 DEF Came
  <2>2. ASSUME ~ \E us, G, w : Handed(q, h, i, D, E, S, us, G, w)
        PROVE  Came(q, x, b, out, i, E, S, n, k)
    <3>1. ~ Entirely(i, S)
      BY <1>5, <2>2 DEF Entirely
    <3>2. b.mpu <= b.mpu
      BY <1>8
    <3>3. CASE Lost(q, h, i, D, E)
      <4>1. /\ Going(x, out, E, S, i, n, k)
            /\ x.b.haveMPU = b.haveMPU /\ x.b.mpu = b.mpu /\ ~ x.b.trusted
        BY <1>3, <1>4, <1>7, <1>9, <3>3, LostStep
      <4>2. QED
        BY <3>1, <3>2, <4>1 DEF Came
    <3>4. CASE ~ s /\ ~ d /\ Still(q, st, h, i, D, E)
      <4>1. Going(x, out, E, S, i, n, k) /\ x.b = b
        BY <1>3, <1>4, <1>6, <1>7, <1>9, <3>4, StillStep
      <4>2. q.st.orphan => ~ x.b.trusted
        BY <1>4, <3>4, <4>1 DEF Still
      <4>3. QED
        BY <3>1, <3>2, <4>1, <4>2 DEF Came
    <3>5. QED
      BY <1>5, <2>2, <3>3, <3>4 DEF Shaped
  <2>3. QED
    BY <2>1, <2>2
<1>11. /\ Going(x, out, E, S, i, n, k)
       /\ b.haveMPU => x.b.haveMPU /\ b.mpu <= x.b.mpu
       /\ q.st.orphan => ~ x.b.trusted
       /\ Entirely(i, S) => x.b.haveMPU /\ x.b.mpu = Packets[i].mpu
  BY <1>10 DEF Came
<1>12. Goes(x.b, x.s, out \o x.out, E, S, i, n, k)
  BY <1>11 DEF Going
<1>13. Knows(x.b, S, i)
  <2>1. PICK y : y = x.b
    OBVIOUS
  <2>2. y.mpu \in Nat
    <3>1. PICK o : o = out \o x.out
      OBVIOUS
    <3>2. Goes(y, x.s, o, E, S, i, n, k)
      BY <1>12, <2>1, <3>1
    <3>3. Sound(y, o, E, k)
      BY <3>2, CountType, Zenon
    <3>4. QED
      BY <3>3 DEF Sound
  <2>3. Packets[i].mfu /\ ~ Unfinished(i) /\ (\A v \in FragmentsOf(i) : v \in S /\ i - v < MaxFragment)
          => y.haveMPU /\ Packets[i].mpu <= y.mpu
    <3>1. Entirely(i, S) => y.haveMPU /\ Packets[i].mpu <= y.mpu
      BY <1>11, <2>1, <2>2
    <3>2. QED
      BY <3>1 DEF Entirely
  <2>4. b.haveMPU => y.haveMPU /\ b.mpu <= y.mpu
    BY <1>11, <2>1
  <2>5. Knows(y, S, i)
    BY <1>4, <1>6, <1>8, <2>2, <2>3, <2>4, KnowsStep
  <2>6. QED
    BY <2>1, <2>5
<1>14. i # 0
  BY LengthType
<1>15. QED
  BY <1>2, <1>5, <1>6, <1>9, <1>11, <1>12, <1>13, <1>14 DEF Heard

-----------------------------------------------------------------------------
(* The invariant: m and h are the first and the last packet heard.          *)
Hears(H, h, m) ==
  IF h = 0 THEN H = {} /\ m = 0 ELSE m \in H /\ h \in H /\ H \subseteq m .. h

\* how many packets between them were not heard
Lacks(H, h, m) == IF h = 0 THEN 0 ELSE Cardinality((m .. h) \ H)

Holds(h, m, b) ==
  /\ Hears(heard, h, m) /\ (~ done => b = builder)
  /\ Heard(asm, b, marks, output, Taken, h, m, Lacks(heard, h, m))

AVInv ==
  /\ AV => \E h \in 0 .. sent, m \in 0 .. sent : \E b : Holds(h, m, b)
  /\ ~ AV => output = <<>>

Bad == net.scrambled \cup net.malformed

LEMMA SameHeard ==
  ASSUME stream' = stream, NEW st, NEW b, NEW z, NEW out, NEW T, NEW h, NEW m, NEW c
  PROVE  Heard(st, b, z, out, T, h, m, c)' <=> Heard(st, b, z, out, T, h, m, c)
<1>1. Packets' = Packets /\ Length' = Length /\ Kind' = Kind
  BY SameStream
<1>2. Places' = Places
  BY <1>1 DEF Places
<1>3. Media' = Media
  BY <1>1, <1>2 DEF Media
<1>4. Heads' = Heads
  BY <1>1, <1>3 DEF Heads
<1>5. \A x : MpuOf(x)' = MpuOf(x)
  BY <1>1 DEF MpuOf
<1>6. \A x : UnitFrom(x)' = UnitFrom(x)
  BY <1>3, <1>4 DEF UnitFrom
<1>7. \A x : IndexOf(x)' = IndexOf(x)
  BY <1>4, <1>5 DEF IndexOf
<1>8. \A x : FragmentsOf(x)' = FragmentsOf(x)
  BY <1>1 DEF FragmentsOf
<1>9. \A x : FirstOf(x)' = FirstOf(x)
  BY <1>3, <1>5 DEF FirstOf
<1>10. \A x : Spoiled(x, T, h)' <=> Spoiled(x, T, h)
  BY <1>8, <1>9 DEF Spoiled
<1>11. \A x : Unfinished(x)' <=> Unfinished(x)
  BY <1>1 DEF Unfinished
<1>12. Cells' = Cells
  BY <1>1 DEF Cells
<1>13. \A x : Upto(x)' = Upto(x)
  BY <1>3 DEF Upto
<1>14. Listens(st, h)' <=> Listens(st, h)
  BY <1>1 DEF Listens, Joining
<1>15. Heeds(st, T, h)' <=> Heeds(st, T, h)
  BY <1>1, <1>8, <1>11 DEF Heeds
<1>16. Knows(b, T, h)' <=> Knows(b, T, h)
  BY <1>1, <1>8, <1>11 DEF Knows
<1>17. \A x, y : Missing(T, x, y)' = Missing(T, x, y)
  BY <1>1 DEF Missing
<1>18. \A x : HeadsOf(x, b.mpu)' = HeadsOf(x, b.mpu)
  BY <1>4, <1>5 DEF HeadsOf
<1>19. Builders' = Builders
  BY <1>12 DEF Builders
<1>20. \A D : Opened(b, D, T, h)' <=> Opened(b, D, T, h)
  BY <1>4, <1>5 DEF Opened
<1>21. \A D : Builds(b, D, T, h)' <=> Builds(b, D, T, h)
  BY <1>5, <1>10, <1>18, <1>20 DEF Builds
<1>22. Marks(z, out, T, h + 1, m)' <=> Marks(z, out, T, h + 1, m)
  BY <1>1, <1>17 DEF Marks, EndOf
<1>23. \A o, D : Right(o, D, T, h)' <=> Right(o, D, T, h)
  BY <1>4, <1>5, <1>6, <1>7, <1>10, <1>12 DEF Right, IsWhole
<1>24. \A o, e : Warns(o, T, e)' <=> Warns(o, T, e)
  BY <1>1, <1>17 DEF Warns
<1>25. \A D : Sends(out, D, T, h, m)' <=> Sends(out, D, T, h, m)
  BY <1>23, <1>24 DEF Sends, EndOf
<1>26. \A D : Goes(b, z, out, D, T, h, m, c)' <=> Goes(b, z, out, D, T, h, m, c)
  BY <1>19, <1>21, <1>22, <1>25 DEF Goes
<1>27. QED
  BY <1>13, <1>14, <1>15, <1>16, <1>26 DEF Heard

\* packet i is heard after packet h
Follows(L, H, h, m, i, n) ==
  /\ L \in Nat /\ h \in 0 .. L /\ m \in 0 .. L /\ Hears(H, h, m)
  /\ i \in 1 .. L /\ h < i /\ n = IF h = 0 THEN i ELSE m

LEMMA HearsMore ==
  ASSUME NEW L, NEW H, NEW h, NEW m, NEW i, NEW n, Follows(L, H, h, m, i, n)
  PROVE  /\ Hears(H \cup {i}, i, n) /\ n \in 0 .. L /\ i \notin H
         /\ Lacks(H \cup {i}, i, n) = Lacks(H, h, m) + Gap(h, i)
<1>0. /\ L \in Nat /\ h \in 0 .. L /\ m \in 0 .. L /\ Hears(H, h, m)
      /\ i \in 1 .. L /\ h < i /\ n = IF h = 0 THEN i ELSE m
  BY DEF Follows
<1> USE <1>0
<1>1. i \in Nat /\ i # 0 /\ h \in Nat /\ m \in Nat
  OBVIOUS
<1>2. CASE h = 0
  <2>1. H = {} /\ n = i
    BY <1>2 DEF Hears
  <2>2. i .. i = {i}
    BY <1>1
  <2>3. Hears(H \cup {i}, i, n) /\ n \in 0 .. L /\ i \notin H
    BY <1>1, <2>1, <2>2 DEF Hears
  <2>4. (n .. i) \ (H \cup {i}) = {}
    BY <2>1, <2>2
  <2>5. Lacks(H \cup {i}, i, n) = 0
    BY <1>1, <2>4, FS_EmptySet DEF Lacks
  <2>6. QED
    BY <1>2, <2>3, <2>5 DEF Lacks, Gap
<1>3. CASE h # 0
  <2>1. m \in H /\ h \in H /\ H \subseteq m .. h /\ n = m
    BY <1>3 DEF Hears
  <2>2. m <= h /\ i \notin H
    BY <1>1, <2>1
  <2>3. m .. h \subseteq m .. i /\ i \in m .. i
    BY <1>1, <2>2
  <2>4. Hears(H \cup {i}, i, n) /\ n \in 0 .. L
    BY <1>1, <2>1, <2>3 DEF Hears
  <2>5. PICK A : A = (m .. h) \ H
    OBVIOUS
  <2>6. PICK B : B = h + 1 .. i - 1
    OBVIOUS
  <2>7. (n .. i) \ (H \cup {i}) = A \cup B
    <3>1. \A x \in n .. i : x = i \/ x \in m .. h \/ x \in B
      BY <1>1, <2>1, <2>6
    <3>2. \A x \in B : x \in m .. i /\ x # i /\ x \notin m .. h
      BY <1>1, <2>2, <2>6
    <3>3. i \notin m .. h
      BY <1>1
    <3>4. QED
      BY <2>1, <2>3, <2>5, <3>1, <3>2, <3>3
  <2>8. A \cap B = {}
    BY <1>1, <2>5, <2>6
  <2>9. IsFiniteSet(A) /\ Cardinality(A) \in Nat
    <3>1. IsFiniteSet(m .. h)
      BY <1>1, FS_Interval
    <3>2. IsFiniteSet(A)
      BY <2>5, <3>1, FS_Difference
    <3>3. QED
      BY <3>2, FS_CardinalityType
  <2>10. IsFiniteSet(B) /\ Cardinality(B) = i - h - 1
    <3>1. h + 1 \in Int /\ i - 1 \in Int /\ (h + 1 > i - 1 => i - h - 1 = 0)
          /\ i - 1 - (h + 1) + 1 = i - h - 1
      BY <1>1
    <3>2. QED
      BY <2>6, <3>1, FS_Interval
  <2>11. Cardinality(A \cup B) = Cardinality(A) + (i - h - 1)
    <3>1. Cardinality(A \cup B) = Cardinality(A) + Cardinality(B) - Cardinality({})
      BY <2>8, <2>9, <2>10, FS_Union
    <3>2. Cardinality({}) = 0
      BY FS_EmptySet
    <3>3. i - h - 1 \in Int
      BY <1>1
    <3>4. QED
      BY <2>9, <2>10, <3>1, <3>2, <3>3
  <2>12. Lacks(H \cup {i}, i, n) = Lacks(H, h, m) + Gap(h, i)
    BY <1>1, <1>3, <2>5, <2>7, <2>11 DEF Lacks, Gap
  <2>13. QED
    BY <2>2, <2>4, <2>12
<1>4. QED
  BY <1>2, <1>3

LEMMA AVInitially ==
  ASSUME Init, TypeOK
  PROVE  AVInv
<1>1. /\ heard = {} /\ asm = NewAsset /\ builder = NewBuilder /\ marks = NewStream /\ output = <<>>
      /\ sent = 0 /\ net.scrambled = {} /\ net.malformed = {}
  BY DEF Init
<1>2. Taken = {}
  BY <1>1 DEF Taken
<1>3. PICK b : b = NewBuilder
  OBVIOUS
<1>4. PICK z : z = NewStream
  OBVIOUS
<1>5. PICK out : out = <<>>
  OBVIOUS
<1>6. Listens(asm, 0) /\ ~ asm.active /\ ~ asm.orphan
  BY <1>1 DEF NewAsset, Listens
<1>7. Heeds(asm, {}, 0) /\ Reach(asm, 0) = 0
  BY <1>6 DEF Heeds, Reach
<1>8. Knows(b, {}, 0)
  <2>1. 1 .. 0 = {}
    OBVIOUS
  <2>2. QED
    BY <2>1 DEF Knows
<1>9. ~ b.trusted /\ ~ b.open /\ ~ b.haveMPU
  BY <1>3 DEF NewBuilder
<1>10. b \in Builders
  <2>1. PICK C : C = Seq(Cells)
    OBVIOUS
  <2>2. <<>> \in C
    BY <2>1
  <2>3. b \in [ haveMPU : BOOLEAN, mpu : Nat, trusted : BOOLEAN, index : Nat, open : BOOLEAN,
                rap : BOOLEAN, data : C ]
    BY <1>3, <2>2 DEF NewBuilder
  <2>4. QED
    BY <2>1, <2>3 DEF Builders
<1>11. Upto(0) = {}
  BY UptoIs
<1>12. Builds(b, Upto(0), {}, 0) /\ BehindOpen(b, out)
  BY <1>9 DEF Builds, BehindOpen
<1>13. IsMarks(z) /\ z.carry = 0
  BY <1>4 DEF IsMarks, NewStream
<1>14. Len(out) = 0 /\ IsSeq(out) /\ 1 .. Len(out) = {}
  <2>1. <<>> \in Seq({})
    OBVIOUS
  <2>2. QED
    BY <1>5, <2>1 DEF IsSeq
<1>15. Marks(z, out, {}, 0 + 1, 0)
  <2>1. EndOf(out, Len(out), 0) = 0
    BY <1>14 DEF EndOf
  <2>2. DOMAIN Packets = 1 .. Length /\ Length \in Nat
    BY LengthType
  <2>3. \A j \in 1 .. Length : ~ (0 < j /\ j < 0 + 1)
    BY <2>2
  <2>4. Missing({}, 0, 0 + 1) = {}
    BY <2>2, <2>3 DEF Missing
  <2>5. QED
    BY <2>1, <2>4 DEF Marks
<1>16. Sends(out, Upto(0), {}, 0, 0)
  BY <1>14 DEF Sends
<1>17. Carried(out) = 0 /\ Carried(out) \in Nat /\ Carried(out) + z.carry = 0
  BY <1>5, <1>13, CarriedNone
<1>18. Goes(b, z, out, Upto(0), {}, 0, 0, 0)
  BY <1>10, <1>12, <1>13, <1>14, <1>15, <1>16, <1>17 DEF Goes
<1>19. Heard(asm, b, z, out, {}, 0, 0, 0)
  BY <1>5, <1>6, <1>7, <1>8, <1>18 DEF Heard
<1>20. Lacks(heard, 0, 0) = 0 /\ Hears(heard, 0, 0)
  BY <1>1 DEF Lacks, Hears
<1>21. Holds(0, 0, b)
  BY <1>1, <1>2, <1>3, <1>4, <1>5, <1>19, <1>20 DEF Holds
<1>22. 0 \in 0 .. sent
  BY <1>1
<1>23. QED
  BY <1>1, <1>21, <1>22 DEF AVInv

\* what holds after a step, in terms of the values before it
LEMMA HoldsNext ==
  ASSUME stream' = stream, NEW h \in 0 .. sent', NEW m \in 0 .. sent', NEW b, ~ done' => b = builder',
         NEW H, H = heard', NEW st, st = asm', NEW z, z = marks', NEW out, out = output',
         NEW T, T = Taken', NEW c, c = Lacks(H, h, m), Hears(H, h, m),
         Heard(st, b, z, out, T, h, m, c), AV
  PROVE  AVInv'
<1>1. Heard(st, b, z, out, T, h, m, c)'
  BY SameHeard
<1>2. Hears(heard, h, m)' /\ Lacks(heard, h, m)' = c
  BY DEF Hears, Lacks
<1>3. Heard(asm, b, marks, output, Taken, h, m, Lacks(heard, h, m))'
  BY <1>1, <1>2
<1>4. Holds(h, m, b)'
  BY <1>2, <1>3 DEF Holds
<1>5. AV'
  BY SameStream DEF AV
<1>6. QED
  BY <1>4, <1>5 DEF AVInv

\* handleMedia; Bad holds packet i if and only if it was scrambled or damaged
LEMMA AVHandle ==
  ASSUME TypeOK, Delimited, AVInv, NEW i \in 1 .. Length, NEW s \in BOOLEAN, NEW d \in BOOLEAN,
         HandleMedia(i, Received(i, s, d)), ~ done, sent' \in Nat, sent <= sent', i <= sent',
         \A y : y # i => (y \in Bad' <=> y \in Bad), i \in Bad' <=> (s \/ d),
         i \in heard => (i \in Bad' <=> i \in Bad)
  PROVE  AVInv'
<1>1. PICK p : p = Received(i, s, d)
  OBVIOUS
<1>2. PICK q : q = PushPacket(asm, p)
  OBVIOUS
<1>3. PICK x : x = FoldLeft(MediaUnit, [b |-> builder, s |-> marks, out |-> <<>>], q.out)
  OBVIOUS
<1>4. /\ stream' = stream /\ asm' = q.st /\ ~ done'
      /\ heard' = IF IsLate(asm, p) THEN heard ELSE heard \cup {i}
  BY <1>1, <1>2 DEF HandleMedia
<1>5. AV => builder' = x.b /\ marks' = x.s /\ output' = output \o x.out
  BY <1>1, <1>2, <1>3 DEF HandleMedia, AV
<1>6. ~ AV => output' = output
  BY DEF HandleMedia, AV
<1>7. CASE ~ AV
  <2>1. ~ AV'
    BY <1>4, <1>7, SameStream DEF AV
  <2>2. QED
    BY <1>6, <1>7, <2>1 DEF AVInv
<1>8. CASE AV
  <2>1. PICK h \in 0 .. sent, m \in 0 .. sent : \E b : Holds(h, m, b)
    BY <1>8 DEF AVInv
  <2>2. PICK b : Holds(h, m, b)
    BY <2>1
  <2>3. PICK c : c = Lacks(heard, h, m)
    OBVIOUS
  <2>4. /\ Hears(heard, h, m) /\ b = builder
        /\ Heard(asm, b, marks, output, Taken, h, m, c)
    BY <2>2, <2>3 DEF Holds
  <2>5. /\ sent \in 0 .. Length /\ Length \in Nat /\ asm \in States /\ heard \subseteq 1 .. sent
        /\ h \in 0 .. Length /\ m \in 0 .. Length
    <3>1. sent \in 0 .. Length /\ asm \in States /\ heard \subseteq 1 .. sent
      BY DEF TypeOK
    <3>2. Length \in Nat
      BY LengthType
    <3>3. h \in 0 .. Length /\ m \in 0 .. Length
      BY <3>1, <3>2
    <3>4. QED
      BY <3>1, <3>2, <3>3
  <2>6. h \in 0 .. sent' /\ m \in 0 .. sent' /\ i \in 0 .. sent' /\ i \in 1 .. sent'
    BY <2>5
  <2>7. Listens(asm, h) /\ IsSeq(output)
    BY <2>4 DEF Heard, Goes
  <2>8. IsLate(asm, p) <=> i <= h
    <3>1. p.seq = Wrap(FirstSeq + i)
      BY <1>1, ReceivedType
    <3>2. QED
      BY <2>5, <2>7, <3>1, Late, Zenon
  <2>9. CASE i <= h
    <3>1. q = Gives(asm, <<>>)
      BY <1>2, <2>8, <2>9 DEF PushPacket
    <3>2. q.st = asm /\ q.out = <<>>
      BY <3>1 DEF Gives
    <3>3. x = [b |-> builder, s |-> marks, out |-> <<>>]
      BY <1>3, <3>2, FoldNone
    <3>4. x.b = builder /\ x.s = marks /\ x.out = <<>>
      BY <3>3
    <3>5. output \o <<>> = output
      BY <2>7, ConcatNone
    <3>6. heard' = heard
      BY <1>4, <2>8, <2>9
    <3>7. Taken' = Taken
      <4>1. \A y \in heard : y \in Bad' <=> y \in Bad
        OBVIOUS
      <4>2. QED
        BY <3>6, <4>1 DEF Taken, Bad
    <3>8. asm' = asm /\ builder' = builder /\ marks' = marks /\ output' = output
      BY <1>4, <1>5, <1>8, <3>2, <3>4, <3>5
    <3>9. b = builder'
      BY <2>4, <3>8
    <3>10. QED
      BY <1>4, <1>8, <2>3, <2>4, <2>6, <3>6, <3>7, <3>8, <3>9, HoldsNext
  <2>10. CASE h < i
    <3>1. ~ IsLate(asm, p)
      BY <2>5, <2>8, <2>10
    <3>2. PICK H : H = heard \cup {i}
      OBVIOUS
    <3>3. PICK S : S = IF ~ s /\ ~ d THEN Taken \cup {i} ELSE Taken
      OBVIOUS
    <3>4. PICK n : n = IF h = 0 THEN i ELSE m
      OBVIOUS
    <3>5. PICK e : e = c + Gap(h, i)
      OBVIOUS
    <3>6. /\ Hears(H, i, n) /\ n \in 0 .. i /\ i \notin heard /\ Lacks(H, i, n) = e
      <4>1. Hears(H, i, n) /\ n \in 0 .. Length /\ i \notin heard /\ Lacks(H, i, n) = e
        <5>1. PICK L \in Nat : L = Length
          BY <2>5
        <5>2. PICK G : G = heard
          OBVIOUS
        <5>3. h \in 0 .. L /\ m \in 0 .. L /\ i \in 1 .. L
          BY <2>5, <5>1
        <5>4. Hears(G, h, m) /\ c = Lacks(G, h, m) /\ H = G \cup {i}
          BY <2>3, <2>4, <3>2, <5>2
        <5>5. /\ Hears(G \cup {i}, i, n) /\ n \in 0 .. L /\ i \notin G
              /\ Lacks(G \cup {i}, i, n) = Lacks(G, h, m) + Gap(h, i)
          <6>1. Follows(L, G, h, m, i, n)
            BY <2>10, <3>4, <5>1, <5>3, <5>4 DEF Follows
          <6>2. QED
            BY <6>1, HearsMore
        <5>6. QED
          BY <3>5, <5>1, <5>2, <5>4, <5>5
      <4>2. n <= i
        <5>1. CASE h = 0
          BY <3>4, <5>1
        <5>2. CASE h # 0
          <6>1. m \in heard /\ heard \subseteq m .. h /\ n = m
            BY <2>4, <3>4, <5>2 DEF Hears
          <6>2. QED
            BY <2>5, <2>10, <6>1
        <5>3. QED
          BY <5>1, <5>2
      <4>3. QED
        BY <4>1, <4>2
    <3>7. heard' = H
      BY <1>4, <3>1, <3>2
    <3>8. Taken' = S
      <4>1. \A y \in heard : y \in Bad' <=> y \in Bad
        OBVIOUS
      <4>2. i \notin Taken
        BY <3>6 DEF Taken
      <4>3. Taken' = H \ Bad' /\ Taken = heard \ Bad
        BY <3>7 DEF Taken, Bad
      <4>4. QED
        BY <3>2, <3>3, <3>6, <4>1, <4>2, <4>3
    <3>9. PICK T : T = Taken
      OBVIOUS
    <3>10. PICK st \in States : st = asm
      BY <2>5
    <3>11. PICK z : z = marks
      OBVIOUS
    <3>12. PICK out : out = output
      OBVIOUS
    <3>13. Given(st, b, z, out, T, h, m, c, i, s, d, S, n, p, q, x)
      <4>1. Heard(st, b, z, out, T, h, m, c)
        BY <2>4, <3>9, <3>10, <3>11, <3>12
      <4>2. Took(T, S, i, ~ s /\ ~ d)
        BY <3>3, <3>9 DEF Took
      <4>3. q = PushPacket(st, p)
        BY <1>2, <3>10
      <4>4. x = FoldLeft(MediaUnit, [b |-> b, s |-> z, out |-> <<>>], q.out)
        BY <1>3, <2>4, <3>11
      <4>5. QED
        BY <1>1, <2>10, <3>4, <4>1, <4>2, <4>3, <4>4, Zenon DEF Given
    <3>14. Heard(q.st, x.b, x.s, out \o x.out, S, i, n, e)
      BY <1>8, <2>5, <3>5, <3>13, PacketStep
    <3>15. PICK y : y = out \o x.out
      OBVIOUS
    <3>16. asm' = q.st /\ builder' = x.b /\ marks' = x.s /\ output' = y
      BY <1>4, <1>5, <1>8, <3>12, <3>15
    <3>17. n \in 0 .. sent'
      BY <2>5, <3>6
    <3>18. PICK w : w = x.b
      OBVIOUS
    <3>19. PICK v : v = x.s
      OBVIOUS
    <3>20. PICK r : r = q.st
      OBVIOUS
    <3>21. Heard(r, w, v, y, S, i, n, e) /\ w = builder' /\ v = marks' /\ r = asm'
      BY <3>14, <3>15, <3>16, <3>18, <3>19, <3>20
    <3>22. QED
      BY <1>4, <1>8, <2>6, <3>6, <3>7, <3>8, <3>16, <3>17, <3>21, HoldsNext
  <2>11. QED
    BY <2>5, <2>9, <2>10
<1>9. QED
  BY <1>7, <1>8

\* a step in which no packet is received
LEMMA AVOther ==
  ASSUME TypeOK, AVInv, UNCHANGED <<stream, heard, asm, output>>, sent' \in {sent, sent + 1},
         AV => marks' = marks, Bad' = Bad, ~ done' => ~ done /\ builder' = builder
  PROVE  AVInv'
<1>1. CASE ~ AV
  <2>1. ~ AV'
    BY <1>1, SameStream DEF AV
  <2>2. QED
    BY <1>1, <2>1 DEF AVInv
<1>2. CASE AV
  <2>1. PICK h \in 0 .. sent, m \in 0 .. sent : \E b : Holds(h, m, b)
    BY <1>2 DEF AVInv
  <2>2. PICK b : Holds(h, m, b)
    BY <2>1
  <2>3. PICK c : c = Lacks(heard, h, m)
    OBVIOUS
  <2>4. /\ Hears(heard, h, m) /\ (~ done => b = builder)
        /\ Heard(asm, b, marks, output, Taken, h, m, c)
    BY <2>2, <2>3 DEF Holds
  <2>5. h \in 0 .. sent' /\ m \in 0 .. sent'
    BY LengthType DEF TypeOK
  <2>6. Taken' = Taken
    BY DEF Taken, Bad
  <2>7. ~ done' => b = builder'
    BY <2>4
  <2>8. marks' = marks
    BY <1>2
  <2>9. QED
    BY <1>2, <2>3, <2>4, <2>5, <2>6, <2>7, <2>8, HoldsNext
<1>3. QED
  BY <1>1, <1>2

LEMMA AVArrive ==
  ASSUME TypeOK, Delimited, AVInv, NEW s \in BOOLEAN, NEW d \in BOOLEAN, Open, sent' = sent + 1,
         net' = [net EXCEPT !.scrambled = @ \cup (IF s THEN {sent + 1} ELSE {}),
                            !.malformed = @ \cup (IF d THEN {sent + 1} ELSE {})],
         HandleMedia(sent + 1, Received(sent + 1, s, d))
  PROVE  AVInv'
<1>1. PICK i \in 1 .. Length : i = sent + 1
  BY LengthType DEF TypeOK, Open, Length
<1>2. sent \in Nat /\ i \notin 1 .. sent /\ sent' \in Nat /\ sent <= sent' /\ i <= sent'
  BY <1>1, LengthType DEF TypeOK
<1>3. /\ net \in [ lost : Nat, late : Nat, scrambled : SUBSET (1 .. sent),
                   malformed : SUBSET (1 .. sent), described : Nat ]
      /\ heard \subseteq 1 .. sent
  BY DEF TypeOK
<1>4. /\ net'.scrambled = net.scrambled \cup (IF s THEN {i} ELSE {})
      /\ net'.malformed = net.malformed \cup (IF d THEN {i} ELSE {})
  BY <1>1, <1>3
<1>5. i \notin heard /\ i \notin Bad
  BY <1>2, <1>3 DEF Bad
<1>6. Bad' = Bad \cup (IF s \/ d THEN {i} ELSE {})
  BY <1>4 DEF Bad
<1>7. HandleMedia(i, Received(i, s, d)) /\ ~ done
  BY <1>1 DEF Open
<1>8. (\A y : y # i => (y \in Bad' <=> y \in Bad)) /\ (i \in Bad' <=> (s \/ d))
  BY <1>5, <1>6
<1>9. QED
  BY <1>2, <1>5, <1>7, <1>8, AVHandle

LEMMA AVLate ==
  ASSUME TypeOK, Delimited, AVInv, NEW i \in 1 .. sent, ArriveLate(i)
  PROVE  AVInv'
<1>1. PICK s : s = (i \in net.scrambled)
  OBVIOUS
<1>2. PICK d : d = (i \in net.malformed)
  OBVIOUS
<1>0. s \in BOOLEAN /\ d \in BOOLEAN
  BY <1>1, <1>2
<1>3. i \in 1 .. Length /\ sent' = sent /\ sent' \in Nat /\ sent <= sent' /\ i <= sent' /\ ~ done
  BY LengthType DEF ArriveLate, TypeOK
<1>4. HandleMedia(i, Received(i, s, d))
  BY <1>1, <1>2 DEF ArriveLate
<1>5. net' = [net EXCEPT !.late = @ + 1]
  BY DEF ArriveLate
<1>6. net \in [ lost : Nat, late : Nat, scrambled : SUBSET (1 .. sent),
                malformed : SUBSET (1 .. sent), described : Nat ]
  BY DEF TypeOK
<1>7. Bad' = Bad
  BY <1>5, <1>6 DEF Bad
<1>8. i \in Bad' <=> (s \/ d)
  BY <1>1, <1>2, <1>7 DEF Bad
<1>9. QED
  BY <1>0, <1>3, <1>4, <1>7, <1>8, AVHandle

LEMMA AVInductive == Delimited => (Spec => []AVInv)
<1>1. SUFFICES ASSUME Delimited
               PROVE  Spec => []AVInv
  OBVIOUS
<1>2. Init => AVInv
  BY Initially, AVInitially
<1>3. IInv /\ AVInv /\ [Next]_vars => AVInv'
  <2>1. SUFFICES ASSUME IInv, AVInv, [Next]_vars
                 PROVE  AVInv'
    OBVIOUS
  <2>2. /\ TypeOK
        /\ net \in [ lost : Nat, late : Nat, scrambled : SUBSET (1 .. sent),
                     malformed : SUBSET (1 .. sent), described : Nat ]
    BY <2>1 DEF IInv, TypeOK
  <2>3. CASE Arrive
    <3>1. net' = [net EXCEPT !.scrambled = @ \cup (IF FALSE THEN {sent + 1} ELSE {}),
                             !.malformed = @ \cup (IF FALSE THEN {sent + 1} ELSE {})]
      BY <2>2, <2>3 DEF Arrive
    <3>2. QED
      BY <1>1, <2>1, <2>2, <2>3, <3>1, AVArrive DEF Arrive
  <2>4. ASSUME NEW s \in BOOLEAN, ArriveBad(s)
        PROVE  AVInv'
    <3>1. PICK d \in BOOLEAN : d = ~ s
      OBVIOUS
    <3>2. net' = [net EXCEPT !.scrambled = @ \cup (IF s THEN {sent + 1} ELSE {}),
                             !.malformed = @ \cup (IF d THEN {sent + 1} ELSE {})]
      BY <2>2, <2>4, <3>1 DEF ArriveBad
    <3>3. QED
      BY <1>1, <2>1, <2>2, <2>4, <3>1, <3>2, AVArrive DEF ArriveBad
  <2>5. ASSUME NEW i \in 1 .. sent, ArriveLate(i)
        PROVE  AVInv'
    BY <1>1, <2>1, <2>2, <2>5, AVLate
  <2>6. CASE Lose
    <3>1. Bad' = Bad
      BY <2>2, <2>6 DEF Lose, Bad
    <3>2. QED
      BY <2>1, <2>2, <2>6, <3>1, AVOther DEF Lose
  <2>7. CASE Redescribe
    <3>1. Bad' = Bad
      BY <2>2, <2>7 DEF Redescribe, Bad
    <3>2. QED
      BY <2>1, <2>2, <2>7, <3>1, AVOther DEF Redescribe
  <2>8. CASE End
    <3>1. Bad' = Bad
      BY <2>8 DEF End, Bad
    <3>2. done' /\ (AV => marks' = marks)
      BY <2>8 DEF End, AV
    <3>3. UNCHANGED <<stream, heard, asm, output, sent>>
      BY <2>8 DEF End
    <3>4. QED
      BY <2>1, <2>2, <3>1, <3>2, <3>3, AVOther
  <2>9. ASSUME NEW n \in DOMAIN stream.counts, Declare(n)
        PROVE  AVInv'
    BY <2>1, <2>2, <2>9, AVOther DEF Declare, Bad
  <2>10. ASSUME NEW t \in stream.tables, TableArrives(t)
         PROVE  AVInv'
    BY <2>1, <2>2, <2>10, AVOther DEF TableArrives, Bad
  <2>11. CASE UNCHANGED vars
    BY <2>1, <2>2, <2>11, AVOther DEF vars, Bad
  <2>12. QED
    BY <2>1, <2>3, <2>4, <2>5, <2>6, <2>7, <2>8, <2>9, <2>10, <2>11 DEF Next
<1>4. QED
  BY <1>2, <1>3, Inductive, PTL DEF Spec

(* Every access unit pushed to the muxer is one that was sent, whole, in   *)
(* order and once, and with the index that its time goes by when the first *)
(* unit of its MPU was received, for any stream whose access units are     *)
(* delimited and any losses, repetitions and damages.                      *)
THEOREM OutputWasSent == Delimited => (Spec => []OutputIsSent)
<1>1. SUFFICES ASSUME Delimited
               PROVE  Spec => []OutputIsSent
  OBVIOUS
<1>2. IInv /\ AVInv => OutputIsSent
  <2>1. SUFFICES ASSUME IInv, AVInv, NEW j \in DOMAIN output, NEW o, o = output[j]
                 PROVE  /\ \E h \in Heads : h = o.data[1].at /\ IsUnitFrom(o, h) /\ MpuOf(h) = o.mpu
                        /\ j > 1 => Before(output[j - 1].data[1].at, o.data[1].at)
                        /\ BeginningHeard(o.mpu) => o.index = IndexOf(HeadOf(o))
    BY DEF OutputIsSent
  <2>2. TypeOK
    BY <2>1 DEF IInv
  <2>3. AV
    BY <2>1 DEF AVInv
  <2>4. PICK h \in 0 .. sent, m \in 0 .. sent : \E b : Holds(h, m, b)
    BY <2>1, <2>3 DEF AVInv
  <2>5. PICK b : Holds(h, m, b)
    BY <2>4
  <2>6. PICK D : D = Upto(Reach(asm, h))
    OBVIOUS
  <2>7. Sends(output, D, Taken, h, m) /\ IsSeq(output)
    BY <2>5, <2>6 DEF Holds, Heard, Goes
  <2>8. j \in 1 .. Len(output)
    BY <2>1, <2>7 DEF IsSeq
  <2>9. Right(o, D, Taken, h) /\ (j > 1 => Before(output[j - 1].data[1].at, o.data[1].at))
    BY <2>1, <2>7, <2>8 DEF Sends
  <2>10. PICK hd : hd = o.data[1].at
    OBVIOUS
  <2>11. hd \in Heads /\ IsUnitFrom(o, hd) /\ MpuOf(hd) = o.mpu
    BY <2>9, <2>10 DEF Right, IsWhole, IsUnitFrom
  <2>12. HeadOf(o) = hd
    BY <2>10, <2>11 DEF HeadOf
  <2>13. BeginningHeard(o.mpu) => ~ Spoiled(o.mpu, Taken, h)
    <3>1. SUFFICES ASSUME BeginningHeard(o.mpu), Spoiled(o.mpu, Taken, h)
                   PROVE  FALSE
      OBVIOUS
    <3>2. PICK F : F = FragmentsOf(FirstOf(o.mpu))
      OBVIOUS
    <3>3. F \subseteq Taken /\ \A x, y \in F : y - x < MaxFragment
      BY <3>1, <3>2 DEF BeginningHeard
    <3>4. PICK x \in F, y \in F : y - x >= MaxFragment \/ (y <= h /\ y \notin Taken)
      BY <3>1, <3>2 DEF Spoiled
    <3>5. F \subseteq Nat
      BY <2>2, <3>2, LengthType DEF FragmentsOf
    <3>6. y - x < MaxFragment /\ y \in Taken
      BY <3>3, <3>4
    <3>7. y - x >= MaxFragment /\ y \in Nat /\ x \in Nat
      BY <3>4, <3>5, <3>6
    <3>8. QED
      BY <3>6, <3>7, MaxFragmentAssumption
  <2>14. QED
    BY <2>9, <2>10, <2>11, <2>12, <2>13 DEF Right
<1>3. QED
  BY <1>1, <1>2, Inductive, AVInductive, PTL

(* After a packet of a video or audio asset was missed the next access     *)
(* unit is marked, and for video it is a random access point unless the    *)
(* user said not to wait for one; and what is told of lost packets, with   *)
(* what is still to be told, is how many were lost, each of them once.     *)
THEOREM LossWasTold == Delimited => (Spec => []LossIsTold)
<1>1. SUFFICES ASSUME Delimited
               PROVE  Spec => []LossIsTold
  OBVIOUS
<1>2. IInv /\ AVInv => LossIsTold
  <2>1. SUFFICES ASSUME IInv, AVInv
                 PROVE  LossIsTold
    OBVIOUS
  <2>2. TypeOK
    BY <2>1 DEF IInv
  <2>3. CASE ~ AV
    <3>1. output = <<>> /\ DOMAIN output = {}
      BY <2>1, <2>3 DEF AVInv
    <3>2. QED
      BY <2>3, <3>1 DEF LossIsTold, AV
  <2>4. CASE AV
    <3>1. PICK h \in 0 .. sent, m \in 0 .. sent : \E b : Holds(h, m, b)
      BY <2>1, <2>4 DEF AVInv
    <3>2. PICK b : Holds(h, m, b)
      BY <3>1
    <3>3. PICK D : D = Upto(Reach(asm, h))
      OBVIOUS
    <3>4. /\ Sends(output, D, Taken, h, m) /\ IsSeq(output)
          /\ Carried(output) + marks.carry = Lacks(heard, h, m) /\ (h = 0 => output = <<>>)
          /\ Hears(heard, h, m)
      BY <3>2, <3>3 DEF Holds, Heard, Goes
    <3>5. h # 0 => m \in heard /\ h \in heard /\ heard \subseteq m .. h /\ m <= h
      <4>1. SUFFICES ASSUME h # 0
                     PROVE  m \in heard /\ h \in heard /\ heard \subseteq m .. h /\ m <= h
        OBVIOUS
      <4>2. m \in heard /\ h \in heard /\ heard \subseteq m .. h
        BY <3>4, <4>1 DEF Hears
      <4>3. m \in m .. h
        BY <4>2
      <4>4. QED
        BY <2>2, <4>2, <4>3
    <3>6. h # 0 => Min(heard) = m /\ Max(heard) = h
      <4>1. SUFFICES ASSUME h # 0
                     PROVE  Min(heard) = m /\ Max(heard) = h
        OBVIOUS
      <4>2. h \in Nat /\ m \in Nat
        BY <2>2, LengthType DEF TypeOK
      <4>3. \A x \in heard : x \in Nat /\ m <= x /\ x <= h
        BY <3>5, <4>1, <4>2
      <4>4. \A x \in heard : ((\A y \in heard : x <= y) <=> x = m)
                             /\ ((\A y \in heard : x >= y) <=> x = h)
        <5>1. SUFFICES ASSUME NEW x \in heard
                       PROVE  /\ (\A y \in heard : x <= y) <=> x = m
                              /\ (\A y \in heard : x >= y) <=> x = h
          OBVIOUS
        <5>2. x \in Nat /\ m <= x /\ x <= h
          BY <4>3
        <5>3. (\A y \in heard : x <= y) => x = m
          BY <3>5, <4>1, <4>2, <5>2
        <5>4. (\A y \in heard : x >= y) => x = h
          BY <3>5, <4>1, <4>2, <5>2
        <5>5. \A y \in heard : m <= y /\ h >= y
          BY <4>2, <4>3
        <5>6. QED
          BY <5>3, <5>4, <5>5
      <4>5. m \in heard /\ h \in heard
        BY <3>5, <4>1
      <4>6. Min(heard) = m
        BY <4>4, <4>5 DEF Min
      <4>7. Max(heard) = h
        BY <4>4, <4>5 DEF Max
      <4>8. QED
        BY <4>6, <4>7
    <3>7. ASSUME NEW j \in DOMAIN output
          PROVE  MissedWithin(EndBefore(j), output[j].data[1].at[1]) # {} =>
                   /\ output[j].disc
                   /\ Kind = "video" => Somewhere(Irap, output[j].data) \/ stream.resume
      <4>1. j \in 1 .. Len(output)
        BY <3>4 DEF IsSeq
      <4>2. h # 0
        BY <3>4, <4>1
      <4>3. Warns(output[j], Taken, EndOf(output, j - 1, m))
        BY <3>4, <4>1 DEF Sends
      <4>4. j - 1 = 0 <=> j = 1
        BY <4>1
      <4>5. EndBefore(j) = EndOf(output, j - 1, m)
        BY <3>6, <4>2, <4>4 DEF EndBefore, EndOf
      <4>6. QED
        BY <4>3, <4>5 DEF Warns, MissedWithin, Missing
    <3>8. heard # {} => Carried(output) + marks.carry = Cardinality((Min(heard) .. Max(heard)) \ heard)
      <4>1. heard # {} => h # 0
        BY <3>4 DEF Hears
      <4>2. QED
        BY <3>4, <3>6, <4>1 DEF Lacks
    <3>9. QED
      BY <3>7, <3>8 DEF LossIsTold
  <2>5. QED
    BY <2>3, <2>4
<1>3. QED
  BY <1>1, <1>2, Inductive, AVInductive, PTL
=============================================================================
