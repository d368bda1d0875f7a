------------------------------- MODULE TlvPath -------------------------------
(***************************************************************************)
(* From the datagrams of a broadcaster through a byte stream with holes to *)
(* the flows of the converter: whole packets and packets with a stretch of *)
(* bytes missing, the TLV reader, and the converter's loop (remux.go, run) *)
(* up to the handlers of media and signalling.                             *)
(***************************************************************************)
EXTENDS TlvReader, TLC

LOCAL INSTANCE FiniteSetsExt

CONSTANTS
  Datagrams,   \* number -> [endpoint, data]: what is sent
  Plans,       \* sequences of the packets to send
  MaxHoles     \* bound: packets with missing bytes

VARIABLES
  plan,    \* the member of Plans that is sent
  sent,    \* what became of the packets so far: [fate, missing], the bytes missing
  wire,    \* the bytes not read yet
  ended,   \* the broadcaster stopped
  reader,  \* the TLV reader
  conv,    \* the converter's flows, clock and network, and what its handlers got
  frames   \* the packets read: where their first bytes come from

vars == <<plan, sent, wire, ended, reader, conv, frames>>

Init ==
  /\ plan \in Plans
  /\ sent = <<>> /\ wire = <<>> /\ frames = <<>>
  /\ ended = FALSE
  /\ reader = NewTlvReader
  /\ conv = [flows |-> <<>>, ntp |-> 0, network |-> 0, handled |-> <<>>]
-----------------------------------------------------------------------------
(* Packets: of the writer of ts2mmt (tsremux/tlvwrite) the whole datagrams *)
(* in all three forms; of a broadcaster also headers left out, extension   *)
(* headers and fragments.                                                  *)

NoFrag == [id |-> 0, offset |-> 0, more |-> FALSE]

\* buildUDP
UdpOf(d) ==
  << [k |-> "udp", port |-> Datagrams[d].endpoint.port, length |-> 1 + Len(Datagrams[d].data)] >>
  \o Datagrams[d].data

\* buildIPv4UDP, buildIPv6UDP
Ipv4(d, body, frag) ==
  << [k |-> "ip4", addr |-> Datagrams[d].endpoint.addr, protocol |-> "udp",
      total |-> 1 + Len(body), frag |-> frag] >> \o body

Ipv6(d, body) ==
  << [k |-> "ip6", addr |-> Datagrams[d].endpoint.addr, total |-> 1 + Len(body)] >> \o body

\* writeCompressedIPv4, writeCompressedIPv6
Compressed(d, cid, full) ==
  << [k |-> "cid", cid |-> cid, full |-> full, endpoint |-> Datagrams[d].endpoint] >>
  \o Datagrams[d].data

\* the units from i to j of the datagram
FragOf(d, x) ==
  [id |-> x.id, offset |-> x.from - 1, more |-> x.to < Len(UdpOf(d))]

PayloadOf(x) ==
  CASE x.form = "ip4"     -> Ipv4(x.d, UdpOf(x.d), NoFrag)
    [] x.form = "ip6"     -> Ipv6(x.d, << [k |-> "ext"] >> \o UdpOf(x.d))
    [] x.form = "full"    -> Compressed(x.d, x.cid, TRUE)
    [] x.form = "bare"    -> Compressed(x.d, x.cid, FALSE)
    [] x.form = "frag4"   -> Ipv4(x.d, SubSeq(UdpOf(x.d), x.from, x.to), FragOf(x.d, x))
    [] x.form = "frag6"   -> Ipv6(x.d, << [k |-> "ext"], [k |-> "frag"] @@ FragOf(x.d, x) >>
                                         \o SubSeq(UdpOf(x.d), x.from, x.to))
    [] x.form = "control" -> << [k |-> "nit", actual |-> x.actual, network |-> x.network] >>
    [] x.form = "null"    -> << [k |-> "fill"] >>

TypeOf(x) ==
  CASE x.form \in {"ip4", "frag4"} -> TypeIPv4
    [] x.form \in {"ip6", "frag6"} -> TypeIPv6
    [] x.form \in {"full", "bare"} -> TypeCompressedIP
    [] x.form = "control"          -> TypeControl
    [] x.form = "null"             -> TypeNull

\* a byte of data has the value of a sync byte where the datagram says so
ByteValue(c) == IF "b" \in DOMAIN c THEN c.b ELSE 0

\* writePacket, writeCompressed: the bytes of the n-th packet
BytesOf(n, x) ==
  LET payload == PayloadOf(x)
      values  == << Sync, TypeOf(x), Len(payload) \div 256, Len(payload) % 256 >>
      bytes   == [i \in 1 .. HeaderLength |-> [b |-> values[i], c |-> [k |-> "tlv"]]]
                 \o [i \in 1 .. Len(payload) |-> [b |-> ByteValue(payload[i]), c |-> payload[i]]]
  IN  [i \in DOMAIN bytes |-> bytes[i] @@ [packet |-> n, at |-> i]]
-----------------------------------------------------------------------------
\* the reader can take a packet; what it reads does not depend on when it does
Ready == Framed(wire)

\* what becomes of a packet of n bytes without those from i to j
Fate(i, j, n) ==
  CASE j < i                             -> "whole"
    [] i = 1 /\ j = n                    -> "lost"
    [] i = 1 /\ j \in 1 .. n - 1         -> "headless"
    [] i \in 2 .. HeaderLength /\ j >= i -> "garbled"  \* its length is another
    [] i > HeaderLength /\ j >= i        -> "holed"

\* a packet is sent, and the bytes from i to j do not arrive, none if j < i
Send ==
  LET n     == Len(sent) + 1
      bytes == BytesOf(n, plan[n])
  IN  /\ ~ ended /\ ~ Ready
      /\ n <= Len(plan)
      /\ \E i \in 1 .. Len(bytes) : \E j \in i - 1 .. Len(bytes) :
           /\ j < i => i = 1
           /\ Cardinality({k \in DOMAIN sent : sent[k].missing > 0}) < MaxHoles \/ j < i
           /\ sent' = Append(sent, [fate |-> Fate(i, j, Len(bytes)), missing |-> j - i + 1])
           /\ wire' = wire \o SubSeq(bytes, 1, i - 1) \o SubSeq(bytes, j + 1, Len(bytes))
      /\ UNCHANGED <<plan, ended, reader, conv, frames>>

Stop ==
  /\ ~ ended /\ ~ Ready /\ Len(sent) = Len(plan)
  /\ ended' = TRUE
  /\ UNCHANGED <<plan, sent, wire, reader, conv, frames>>
-----------------------------------------------------------------------------
\* flowFor: flows are told apart by their end points
Flows(c, endpoint) ==
  IF \E n \in DOMAIN c.flows : c.flows[n] = endpoint THEN c.flows ELSE Append(c.flows, endpoint)

FlowOf(c, endpoint) == CHOOSE n \in DOMAIN c.flows : c.flows[n] = endpoint

\* mmtp.Parse: a repair packet, and no other, has FEC type 2, and 3 is none
ParseMMTP(data) ==
  IF data = <<>> THEN "bad"
  ELSE IF data[1].k # "mmtp" THEN "bad"
  ELSE IF data[1].fec = 3 \/ ((data[1].fec = 2) # (data[1].type = "repair")) THEN "bad"
  ELSE data[1].type

NtpPort == 123

\* run: a datagram is the clock's, a packet without an MMTP header, or a handler's
Handle(c, d) ==
  LET known == [c EXCEPT !.flows = Flows(c, d.endpoint)]
      kind  == ParseMMTP(d.data)
  IN  IF d.endpoint.port = NtpPort
      THEN IF d.data # <<>> /\ d.data[1].k = "ntp" THEN [known EXCEPT !.ntp = d.data[1].time] ELSE known
      ELSE IF kind \notin {"media", "signalling"} THEN known
      ELSE [known EXCEPT !.handled = Append(@,
              [flow |-> FlowOf(known, d.endpoint), kind |-> kind, data |-> d.data])]

\* NetworkID: a current section of the NIT of the network the stream is from
HandleControl(c, payload) ==
  IF payload = <<>> THEN c
  ELSE IF payload[1].k # "nit" THEN c
  ELSE IF ~ payload[1].actual THEN c
  ELSE [c EXCEPT !.network = payload[1].network]

\* one round of the loop; a null packet is left out
Read ==
  LET packet == PacketOf(wire) IN
  /\ Ready
  /\ wire' = packet.rest
  /\ frames' = Append(frames, [packet |-> packet.start.packet, at |-> packet.start.at])
  /\ \E victim \in Victims(reader) :
       LET got == Datagram(reader, packet, victim) IN
       /\ reader' = got.reader
       /\ conv' = CASE packet.type = TypeControl -> HandleControl(conv, packet.payload)
                    [] got.out # <<>>            -> Handle(conv, got.out[1])
                    [] OTHER                     -> conv
  /\ UNCHANGED <<plan, sent, ended>>

Next == Send \/ Stop \/ Read

Spec == Init /\ [][Next]_vars
-----------------------------------------------------------------------------
Holed(n) == sent[n].fate \in {"headless", "holed", "garbled"}
Arrived(n) == sent[n].fate = "whole"

Lost == {n \in DOMAIN sent : ~ Arrived(n)}

Handlings == {conv.handled[n] : n \in DOMAIN conv.handled}

\* the reader began, or waits, somewhere that is no packet's beginning
Strayed ==
  \/ \E n \in DOMAIN frames : frames[n].at # 1
  \/ \E i \in Starts(wire) : wire[i].at # 1 /\ \A k \in Starts(wire) : i <= k

Fragments(id) == {n \in DOMAIN sent : plan[n].form \in {"frag4", "frag6"} /\ plan[n].id = id}

\* two datagrams with one id, and a fragment of one is missing
IdReused ==
  \E n, k \in DOMAIN sent :
    /\ n \in Fragments(plan[k].id) /\ plan[n].d # plan[k].d
    /\ Fragments(plan[k].id) \cap Lost # {}

(* What a handler gets is the data of one datagram that was sent, however    *)
(* its fragments were cut, ordered, doubled or lost, and however many other  *)
(* datagrams were being collected: fragments of two are only joined under    *)
(* an id that is used again behind a fragment that was lost, for a set is    *)
(* never given up.                                                           *)
DatagramsWhole ==
  (\A n \in DOMAIN sent : ~ Holed(n)) /\ ~ IdReused =>
    \A x \in Handlings : \E d \in DOMAIN Datagrams : x.data = Datagrams[d].data

\* the last packet of plan before the n-th that has the header of the flow
HeaderBefore(n) ==
  {k \in 1 .. n - 1 : plan[k].form = "full" /\ plan[k].cid = plan[n].cid}

HeaderHeard(n) == \A k \in HeaderBefore(n) : Arrived(k)

(* A datagram whose header was left out is handled in the flow it was sent   *)
(* in, through every change of the addresses and reuse of the context's      *)
(* number, unless a header of the context did not arrive; and no datagram at *)
(* all in a flow of other addresses.                                         *)
FlowsKept ==
  \A x \in Handlings : \A d \in DOMAIN Datagrams :
    (/\ x.data = Datagrams[d].data
     /\ \A n \in DOMAIN sent : plan[n].form = "bare" => HeaderHeard(n)
     /\ \A n \in DOMAIN sent : ~ Holed(n)) =>
       conv.flows[x.flow] = Datagrams[d].endpoint

ReadAt == {frames[n].packet : n \in {k \in DOMAIN frames : frames[k].at = 1}}

\* the bytes that arrived of the packets between the h-th and the n-th
Between(h, n) == MapThenSumSet(LAMBDA k : Len(BytesOf(k, plan[k])) - sent[k].missing, h + 1 .. n - 1)

(* Bytes missing behind a header cost the packet they are missing from, and  *)
(* the packets that begin in as many bytes behind it, which are read in      *)
(* their place: none but these, wherever and however long the holes are, and *)
(* none at all when the beginning of the header is missing.  Every other     *)
(* packet is read, and from its beginning, unless a length is hit, which can *)
(* cost everything up to the end, or the reader took data for a sync byte.   *)
ResumesSoon ==
  (ended /\ ~ Ready /\ ~ Strayed /\ \A n \in DOMAIN sent : sent[n].fate # "garbled") =>
    \A n \in DOMAIN sent :
      /\ Arrived(n)
      /\ \A h \in 1 .. n - 1 : sent[h].fate = "holed" => sent[h].missing <= Between(h, n)
      => n \in ReadAt
=============================================================================
