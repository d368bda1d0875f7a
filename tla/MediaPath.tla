------------------------------ MODULE MediaPath ------------------------------
(***************************************************************************)
(* The packets of one asset on their way through the converter: a sender,  *)
(* a network that loses, repeats and reorders packets and damages some, and *)
(* handleMedia (remux/remux.go) with what it leads to: raw media kept for   *)
(* the preservation carousel, reassembly, then access units for a video or  *)
(* audio asset, subsamples for captions, items for an application.         *)
(***************************************************************************)
EXTENDS MpuReassembly, AccessUnits, CaptionStream, AppData, SequencesExt

CONSTANTS
  Streams,      \* what a sender may send: see MCMediaPath
  FirstSeq,     \* the sequence number of the first packet
  TimingLimit,  \* how many MPU times are remembered (boundedMap)
  DTSGap,       \* the longest step of decoding times that is no jump
  MaxLate       \* bound: packets that arrive again, or after their successors

\* what a sender sends: the fragments of a unit follow one another, nothing but
\* timed media is fragmented, and a packet that comes late does so by less than
\* half of the sequence numbers
ASSUME StreamsAssumption ==
  /\ FirstSeq \in 0 .. SeqRange - 1
  /\ \A s \in Streams :
       LET n == Len(s.packets) IN
       /\ n \in Nat /\ DOMAIN s.packets = 1 .. n /\ 2 * n <= SeqRange
       /\ \A i \in 1 .. n : LET p == s.packets[i] IN
            /\ p.frag \in {"whole", "first", "middle", "last"}
            /\ {p.mfu, p.timed, p.rap} \subseteq BOOLEAN /\ p.mpu \in Nat
            /\ p.frag # "whole" => p.mfu /\ p.timed
            /\ Len(p.pieces) \in Nat \ {0} /\ DOMAIN p.pieces = 1 .. Len(p.pieces)
            /\ i < n => (p.frag \in {"first", "middle"} <=>
                           s.packets[i + 1].frag \in {"middle", "last"})

\* what auBuilder relies on, of a video or audio stream: fragments come one to a
\* packet and belong to one MPU, MPUs follow one another, and an access unit of
\* video begins with the MPU and at each delimiter
Delimited ==
  \A s \in Streams : s.kind \in {"video", "audio"} =>
    /\ s.width \in Nat
    /\ \A i \in DOMAIN s.packets :
         LET p == s.packets[i]
             earlier == {j \in 1 .. i - 1 : s.packets[j].mfu}
         IN  p.mfu =>
               /\ p.timed /\ Len(p.pieces) <= s.width
               /\ p.frag # "whole" => Len(p.pieces) = 1
               /\ p.frag \in {"middle", "last"} =>
                    /\ i - 1 \in earlier /\ s.packets[i - 1].mpu = p.mpu
                    /\ s.kind = "video" => "aud" \notin p.pieces[1]
               /\ \A j \in earlier : s.packets[j].mpu <= p.mpu
               /\ s.kind = "video" /\ (\A j \in earlier : s.packets[j].mpu # p.mpu) =>
                    "aud" \in p.pieces[1]

VARIABLES
  stream,   \* the member of Streams that is sent
  sent,     \* how many of its packets were sent
  net,      \* what the network did: how many packets it lost and repeated,
            \* which ones it scrambled and damaged, what was sent when the
            \* caption descriptor came
  heard,    \* the packets that were received in their turn
  asm,      \* the Reassembler's state for the asset
  given,    \* the units it handed over for the last packet
  builder, marks, mtimes,  \* the stream's auBuilder, marks and MPU times
  output,   \* the access units pushed to the muxer
  caption, arrivals, captions,  \* the caption stream, first units, MPUs finished
  store,    \* the application's items
  raw, kept,  \* rawMediaState, the packets recorded
  tables,   \* how many tables arrived
  done      \* the input has ended

vars == <<stream, sent, net, heard, asm, given, builder, marks, mtimes, output,
          caption, arrivals, captions, store, raw, kept, tables, done>>

Kind == stream.kind
Packets == stream.packets

Init ==
  /\ stream \in Streams
  /\ sent = 0
  /\ net = [lost |-> 0, late |-> 0, scrambled |-> {}, malformed |-> {}, described |-> 0]
  /\ heard = {}
  /\ asm = NewAsset /\ given = <<>>
  /\ builder = NewBuilder /\ marks = NewStream /\ mtimes = <<>> /\ output = <<>>
  /\ caption = NewCaption /\ arrivals = <<>> /\ captions = <<>>
  /\ store = NewStore
  /\ raw = [prefix |-> {}, poisoned |-> FALSE] /\ kept = {}
  /\ tables = 0
  /\ done = FALSE

Wrap(n) == IF n >= SeqRange THEN n - SeqRange ELSE n

\* packet i of the stream as it is received
Received(i, scrambled, malformed) ==
  LET p == Packets[i] IN
  [ seq |-> Wrap(FirstSeq + i), scrambled |-> scrambled, malformed |-> malformed,
    mfu |-> p.mfu, timed |-> p.timed, frag |-> p.frag, mpu |-> p.mpu, rap |-> p.rap,
    pieces |-> [k \in DOMAIN p.pieces |-> [at |-> <<i, k>>, is |-> p.pieces[k]]] ]
-----------------------------------------------------------------------------
\* preserveRawMedia: the packets of a unit are held back while all of them are
\* clear; r is the pair of the state and the packets recorded by this one
Raw(prefix, poisoned, out) == [st |-> [prefix |-> prefix, poisoned |-> poisoned], out |-> out]

\* mutant: the clear fragments before the first scrambled one are forgotten
PreserveRawLate(st, p, i) ==
  CASE p.scrambled -> Raw({}, TRUE, {i})
    [] ~ p.scrambled /\ (p.malformed \/ ~ p.mfu \/ ~ p.timed) ->
         Raw(st.prefix, st.poisoned, IF st.poisoned THEN {i} ELSE {})
    [] OTHER ->
         CASE p.frag = "whole" -> Raw({}, FALSE, st.prefix)
           [] p.frag = "first" -> Raw({i}, FALSE, st.prefix)
           [] p.frag \in {"middle", "last"} /\ st.poisoned ->
                Raw(st.prefix, p.frag = "middle", {i})
           [] p.frag = "middle" /\ ~ st.poisoned -> Raw(st.prefix \cup {i}, FALSE, {})
           [] OTHER -> Raw({}, FALSE, {})

PreserveRaw(st, p, i) ==
  CASE p.scrambled -> Raw({}, TRUE, st.prefix \cup {i})
    [] ~ p.scrambled /\ (p.malformed \/ ~ p.mfu \/ ~ p.timed) ->
         Raw(st.prefix, st.poisoned, IF st.poisoned THEN {i} ELSE {})
    [] OTHER ->
         CASE p.frag = "whole" -> Raw({}, FALSE, st.prefix)
           [] p.frag = "first" -> Raw({i}, FALSE, st.prefix)
           [] p.frag \in {"middle", "last"} /\ st.poisoned ->
                Raw(st.prefix, p.frag = "middle", {i})
           [] p.frag = "middle" /\ ~ st.poisoned -> Raw(st.prefix \cup {i}, FALSE, {})
           [] OTHER -> Raw({}, FALSE, {})

\* the decoding time the MPT gives access unit n of an MPU
DecodingTime(mpu, n) == stream.span * (mpu - 1) + n

\* handleMedia for a unit of a video or audio asset
MediaUnit(acc, u) ==
  LET s == IF u.loss THEN Suffers(Kind, acc.s, u.lost) ELSE acc.s
      r == PushUnit(Kind, acc.b, u)
      h == HandleAU(Kind, s, mtimes, r.out[1],
                    DecodingTime(r.out[1].mpu, r.out[1].index), DTSGap, stream.resume)
  IN  IF r.out = <<>>
      THEN [b |-> r.b, s |-> s, out |-> acc.out]
      ELSE [b |-> r.b, s |-> h.s, out |-> acc.out \o h.out]

\* captionTiming: the declared time of the MPU, or else the clock when its
\* first unit came
Timing(mpu, mt, arr) ==
  [ mpu       |-> {CASE Has(mt, mpu)                    -> DecodingTime(mpu, 0)
                     [] ~ Has(mt, mpu) /\ Has(arr, mpu) -> Get(arr, mpu)
                     [] OTHER                           -> sent'},
    utc       |-> stream.utc, event |-> stream.event, reference |-> stream.reference ]

\* emitCaption
EmitCaption(acc, m) ==
  LET timing == Timing(m.mpu, mtimes, acc.arr)
      r      == Convert(acc.c, stream.tmd, stream.sync, stream.cues, timing)
  IN  [acc EXCEPT
        !.c   = IF m.doc = {} THEN @ ELSE r.c,
        !.s   = IF m.doc = {} THEN @ ELSE [@ EXCEPT !.disc = FALSE, !.carry = 0],
        !.out = Append(@, [ mpu     |-> m.mpu,
                            subs    |-> m.doc \cup m.others,
                            missing |-> m.missing,
                            shown   |-> IF m.doc = {} THEN <<>> ELSE r.out,
                            carry   |-> IF m.doc = {} THEN 0 ELSE acc.s.carry ])]

Subsample(u) ==
  LET at == u.data[1].at
      x  == Packets[at[1]].sub
  IN  [number |-> x.number, last |-> x.last, doc |-> x.number = 0, at |-> at, mpu |-> u.mpu]

\* handleCaptionUnit; there is no caption stream before its descriptor came
CaptionUnit(acc, u) ==
  LET arr == IF Has(acc.arr, u.mpu) THEN acc.arr ELSE Put(acc.arr, TimingLimit, u.mpu, sent')
      r   == PushSubsample(acc.c, u.mpu, Subsample(u))
      now == [acc EXCEPT !.c = r.c, !.arr = arr]
  IN  CASE tables = 0 -> acc
        [] tables > 0 /\ u.loss -> [acc EXCEPT !.s = Suffers(Kind, @, u.lost)]
        [] tables > 0 /\ ~ u.loss /\ r.out = <<>> -> now
        [] OTHER -> EmitCaption(now, r.out[1])

\* handleApplication
ItemUnit(s, u) ==
  IF u.loss \/ u.timed THEN s
  ELSE LET at == u.data[1].at
           x  == Packets[at[1]].item
       IN  PushItemData(s, u.mpu, x.id, x.piece)

\* handleMedia
HandleMedia(i, p) ==
  LET r   == PushPacket(asm, p)
      k   == PreserveRaw(raw, p, i)
      m   == FoldLeft(MediaUnit, [b |-> builder, s |-> marks, out |-> <<>>], r.out)
      c   == FoldLeft(CaptionUnit,
                      [c |-> caption, s |-> marks, arr |-> arrivals, out |-> <<>>], r.out)
  IN  /\ asm' = r.st /\ given' = r.out
      /\ heard' = IF IsLate(asm, p) THEN heard ELSE heard \cup {i}
      /\ IF Kind = "application"
         THEN /\ store' = FoldLeft(ItemUnit, store, r.out)
              /\ UNCHANGED <<raw, kept>>
         ELSE /\ raw' = k.st /\ kept' = kept \cup k.out
              /\ UNCHANGED store
      /\ IF Kind \in {"video", "audio"}
         THEN builder' = m.b /\ marks' = m.s /\ output' = output \o m.out
         ELSE /\ UNCHANGED <<builder, output>>
              /\ marks' = IF Kind = "caption" THEN c.s ELSE marks
      /\ IF Kind = "caption"
         THEN caption' = c.c /\ arrivals' = c.arr /\ captions' = captions \o c.out
         ELSE UNCHANGED <<caption, arrivals, captions>>
      /\ UNCHANGED <<stream, mtimes, tables, done>>
-----------------------------------------------------------------------------
(* the network; stream.faults bounds what it does to the packets,           *)
(* stream.most how many tables and descriptors arrive                       *)

Open == ~ done /\ sent < Len(Packets)

MayFail ==
  net.lost + net.late + Cardinality(net.scrambled \cup net.malformed) < stream.faults

Arrive ==
  /\ Open
  /\ sent' = sent + 1
  /\ HandleMedia(sent + 1, Received(sent + 1, FALSE, FALSE))
  /\ UNCHANGED net

Lose ==
  /\ Open /\ MayFail
  /\ sent' = sent + 1
  /\ net' = [net EXCEPT !.lost = @ + 1]
  /\ UNCHANGED <<stream, heard, asm, given, builder, marks, mtimes, output, caption,
                 arrivals, captions, store, raw, kept, tables, done>>

ArriveBad(scrambled) ==
  /\ Open /\ MayFail
  /\ sent' = sent + 1
  /\ net' = IF scrambled THEN [net EXCEPT !.scrambled = @ \cup {sent + 1}]
                         ELSE [net EXCEPT !.malformed = @ \cup {sent + 1}]
  /\ HandleMedia(sent + 1, Received(sent + 1, scrambled, ~ scrambled))

\* a packet again, or one that seemed lost
ArriveLate(i) ==
  /\ ~ done /\ MayFail /\ net.late < MaxLate /\ i <= sent
  /\ net' = [net EXCEPT !.late = @ + 1]
  /\ UNCHANGED sent
  /\ HandleMedia(i, Received(i, i \in net.scrambled, i \in net.malformed))

\* applyMPT: the time and the access units of the next MPU that has none
Declare(mpu) ==
  /\ ~ done /\ Kind # "application"
  /\ mpu = IF mtimes = <<>> THEN 1 ELSE mtimes[Len(mtimes)].key + 1
  /\ mpu \in DOMAIN stream.counts
  /\ mtimes' = Put(mtimes, TimingLimit, mpu, stream.counts[mpu])
  /\ UNCHANGED <<stream, sent, net, heard, asm, given, builder, marks, output, caption,
                 arrivals, captions, store, raw, kept, tables, done>>

\* applyCaptionDescriptors: a caption descriptor that differs starts a new stream
Redescribe ==
  /\ ~ done /\ Kind = "caption" /\ tables < stream.most
  /\ caption' = NewCaption
  /\ tables' = tables + 1
  /\ net' = [net EXCEPT !.described = sent]
  /\ UNCHANGED <<stream, sent, heard, asm, given, builder, marks, mtimes, output,
                 arrivals, captions, store, raw, kept, done>>

\* Store.PushTable
TableArrives(t) ==
  /\ ~ done /\ Kind = "application" /\ tables < stream.most
  /\ store' = IF t.id = "damt" THEN PushDAMT(store, t) ELSE PushDDMT(store, t)
  /\ tables' = tables + 1
  /\ UNCHANGED <<stream, sent, net, heard, asm, given, builder, marks, mtimes, output,
                 caption, arrivals, captions, raw, kept, done>>

\* flushStreams and Store.Finish
End ==
  LET c == FlushCaption(caption)
      e == EmitCaption([c |-> c.c, s |-> marks, arr |-> arrivals, out |-> <<>>], c.out[1])
  IN
  /\ ~ done /\ sent = Len(Packets)
  /\ done' = TRUE /\ UNCHANGED sent
  /\ builder' = FinishBuilder(builder).b
  /\ store' = FinishStore(store)
  /\ IF Kind = "caption" /\ c.out # <<>>
     THEN caption' = e.c /\ marks' = e.s /\ captions' = captions \o e.out
     ELSE UNCHANGED <<caption, marks, captions>>
  /\ UNCHANGED <<stream, net, heard, asm, given, mtimes, output, arrivals, raw, kept, tables>>

Next ==
  \/ Arrive \/ Lose \/ End \/ Redescribe
  \/ \E b \in BOOLEAN : ArriveBad(b)
  \/ \E i \in 1..sent : ArriveLate(i)
  \/ \E m \in DOMAIN stream.counts : Declare(m)
  \/ \E t \in stream.tables : TableArrives(t)

Spec == Init /\ [][Next]_vars
-----------------------------------------------------------------------------
(* what the stream says, and what was received of it *)

Taken == heard \ (net.scrambled \cup net.malformed)

Before(x, y) == x[1] < y[1] \/ (x[1] = y[1] /\ x[2] < y[2])

Places == {<<i, k>> : i \in DOMAIN Packets, k \in 1..stream.width}

Media == {x \in Places : /\ x[2] <= Len(Packets[x[1]].pieces)
                         /\ Packets[x[1]].mfu /\ Packets[x[1]].timed}

\* where the access units of the stream begin
Heads ==
  {x \in Media : IF Kind = "video" THEN "aud" \in Packets[x[1]].pieces[x[2]]
                 ELSE Packets[x[1]].frag \in {"whole", "first"}}

MpuOf(x) == Packets[x[1]].mpu

UnitFrom(h) ==
  {x \in Media : ~ Before(x, h) /\ ~ \E z \in Heads : Before(h, z) /\ ~ Before(x, z)}

IndexOf(h) == Cardinality({z \in Heads : MpuOf(z) = MpuOf(h) /\ ~ Before(h, z)})

AtsOf(data) == [k \in DOMAIN data |-> data[k].at]

\* an access unit of the output is the one that begins at h
IsUnitFrom(o, h) ==
  /\ Len(o.data) = Cardinality(UnitFrom(h)) /\ Range(AtsOf(o.data)) = UnitFrom(h)
  /\ \A k \in 1..Len(o.data) - 1 : Before(o.data[k].at, o.data[k + 1].at)

HeadOf(o) == CHOOSE h \in Heads : h = o.data[1].at

\* an MPU begins with the first of its packets that carries units
FirstOf(mpu) == Min({x[1] : x \in {y \in Media : MpuOf(y) = mpu}})

\* the packets of the unit that packet i is a fragment of
FragmentsOf(i) ==
  {x \in DOMAIN Packets :
     \/ x <= i /\ \A y \in x + 1..i : Packets[y].frag \in {"middle", "last"}
     \/ x > i /\ \A y \in i + 1..x : Packets[y].frag \in {"middle", "last"}}

\* the first unit of an MPU was received, and is no longer than what is joined
BeginningHeard(mpu) ==
  LET unit == FragmentsOf(FirstOf(mpu)) IN
  unit \subseteq Taken /\ \A x, y \in unit : y - x < MaxFragment
-----------------------------------------------------------------------------
(* A unit handed over is whole: the fragments of one unit, all of them and  *)
(* in order, whatever was lost, repeated or damaged on the way             *)
(* (mpu.go:87-179).                                                        *)
WholeUnit(u) ==
  LET at(k) == u.data[k].at[1]
      n     == Len(u.data)
  IN  /\ n > 0
      /\ \A k \in 1..n : at(k) = at(1) + k - 1
      /\ u.mpu = Packets[at(1)].mpu
      /\ Packets[at(1)].timed =>
           IF n = 1 THEN Packets[at(1)].frag = "whole"
           ELSE /\ Packets[at(1)].frag = "first" /\ Packets[at(n)].frag = "last"
                /\ \A k \in 2..n - 1 : Packets[at(k)].frag = "middle"

UnitsWhole == \A j \in DOMAIN given : ~ given[j].loss => WholeUnit(given[j])

(* Every access unit pushed to the muxer is one that was sent, whole, in    *)
(* order and once; and when the first unit of its MPU was received, it has  *)
(* the time the MPT gives it (aubuild.go:44-90, remux.go:775-871).         *)
OutputIsSent ==
  \A j \in DOMAIN output :
    LET o == output[j] IN
    /\ \E h \in Heads : h = o.data[1].at /\ IsUnitFrom(o, h) /\ MpuOf(h) = o.mpu
    /\ j > 1 => Before(output[j - 1].data[1].at, o.data[1].at)
    /\ BeginningHeard(o.mpu) => o.index = IndexOf(HeadOf(o))

\* packets of which nothing was used, between two places of the stream
MissedWithin(a, b) == {i \in DOMAIN Packets : a < i /\ i < b} \ Taken

\* the last packet of the output before item j; the first packet heard
EndBefore(j) == IF j = 1 THEN Min(heard)
                ELSE output[j - 1].data[Len(output[j - 1].data)].at[1]

Carried(out) == FoldLeft(LAMBDA n, o : n + o.carry, 0, out)

(* After a packet of the asset was missed the next access unit is marked,   *)
(* and for video it is a random access point unless the user said not to    *)
(* wait for one; the lost packets are told to the muxer exactly once        *)
(* (remux.go:583-596, 812-823, 860-870).                                   *)
LossIsTold ==
  /\ \A j \in DOMAIN output :
       MissedWithin(EndBefore(j), output[j].data[1].at[1]) # {} =>
         /\ output[j].disc
         /\ Kind = "video" => Somewhere(Irap, output[j].data) \/ stream.resume
  /\ Kind \in {"video", "audio"} /\ heard # {} =>
       Carried(output) + marks.carry
         = Cardinality((Min(heard)..Max(heard)) \ heard)

(* Every scrambled packet is recorded, and as long as none came out of its  *)
(* turn so is each packet heard of a unit that has one                     *)
(* (rawmedia.go:37-93).                                                    *)
RawKept ==
  Kind # "application" =>
    /\ net.scrambled \subseteq kept
    /\ net.late = 0 =>
         \A i \in net.scrambled :
           Packets[i].mfu => {x \in FragmentsOf(i) \cap heard : x \notin net.malformed} \subseteq kept

\* the packets of a caption MPU, and the subsamples they carry
PacketsOf(mpu) == {i \in DOMAIN Packets : Packets[i].mpu = mpu}

SubsOf(mpu) ==
  {i \in PacketsOf(mpu) : Packets[i].frag \in {"whole", "first"}}

\* a subsample of it was received by the present caption stream
Begun(mpu) ==
  tables > 0 /\ \E i \in SubsOf(mpu) : FragmentsOf(i) \subseteq Taken /\ i > net.described

\* received from its first packet to its last, by one caption stream
Entire(mpu) ==
  PacketsOf(mpu) \subseteq Taken /\ Min(PacketsOf(mpu)) > net.described /\ tables > 0

PlacesOf(subs) == {m.at[1] : m \in subs}

(* Caption MPUs are finished in order and once, none holds a subsample of   *)
(* another and none is dropped, one received entire is finished entire or   *)
(* waits for the next,                                                      *)
(* waits only if some packet was missed, and without a declared time it is  *)
(* shown at a time of its own reception (caption/stream.go:129-212).       *)
CaptionsWhole ==
  Kind = "caption" =>
    /\ \A j \in DOMAIN captions :
         /\ PlacesOf(captions[j].subs) \subseteq SubsOf(captions[j].mpu)
         /\ j > 1 /\ tables = 1 => captions[j - 1].mpu < captions[j].mpu
         /\ mtimes = <<>> /\ net.late = 0 /\ stream.tmd = "none" =>
              \A k \in DOMAIN captions[j].shown :
                captions[j].shown[k].at \subseteq PacketsOf(captions[j].mpu)
    /\ \A m \in {Packets[i].mpu : i \in DOMAIN Packets} :
         /\ Begun(m) => \/ \E j \in DOMAIN captions : captions[j].mpu = m
                        \/ caption.mpu = m /\ caption.pending # {}
         /\ Entire(m) =>
           \/ \E j \in DOMAIN captions :
                captions[j].mpu = m /\ PlacesOf(captions[j].subs) = SubsOf(m)
           \/ /\ caption.mpu = m /\ PlacesOf(caption.pending) = SubsOf(m)
              /\ ~ done /\ ~ (1..sent \subseteq Taken)

IndexTable(t) == t.id = "damt" /\ t.index

(* The bytes held are those of the items and within the limit; what carries *)
(* an index item is no item; at the end of the input the names have come to *)
(* their items whatever the order of the tables; and where nothing was      *)
(* missed an item counted as complete holds its bytes in order              *)
(* (appdata.go:176-212, 438-484, 618-640).                                 *)
ItemsRight ==
  Kind = "application" =>
    /\ store.held = HeldBytes(store) /\ store.held <= MaxItemBytes
    /\ \A id \in store.carriers \cap DOMAIN store.items : store.items[id].announced
    /\ done => \A t \in stream.tables :
         /\ t.id = "ddmt" /\ t.file \in DOMAIN store.paths /\ t.file \in DOMAIN store.byNode
         /\ ~ \E x \in stream.tables : IndexTable(x)
         => store.items[store.byNode[t.file]].name = t.name
    /\ 1..sent \subseteq Taken =>
         \A id \in DOMAIN store.items :
           LET it == store.items[id] IN
           Complete(it) /\ stream.span <= MaxItemBytes /\ it.data # <<>> =>
             \A k \in DOMAIN it.data : it.data[k].part = k
=============================================================================
