------------------------------ MODULE TlvReader ------------------------------
(***************************************************************************)
(* The reader of TLV packets (tlv/tlv.go, tlv/fragment.go): it frames the  *)
(* byte stream, finds the datagrams in IPv4, IPv6 and compressed IP, joins *)
(* IP fragments and remembers the addresses of the compressed flows.       *)
(*                                                                         *)
(* A byte of the stream is [b |-> its value, c |-> what it stands for]:    *)
(* framing goes by the values alone.  Inside a packet one byte stands for  *)
(* a whole IP, extension, fragment, UDP or context header, or for a unit   *)
(* of eight bytes of data; bytes that begin in the middle of a packet are  *)
(* taken for a malformed header.  An end point is [addr, port]: both       *)
(* addresses, and both ports.                                              *)
(***************************************************************************)
EXTENDS Integers, Sequences, FiniteSets

LOCAL INSTANCE FiniteSetsExt
LOCAL INSTANCE Functions

CONSTANTS
  MaxFragmentSets,  \* datagrams whose fragments are collected at a time (128)
  MaxDatagram       \* units in an IP datagram (65535 bytes)

ASSUME FragmentAssumption == MaxFragmentSets \in Nat \ {0} /\ MaxDatagram \in Nat

Sync == 127
TypeIPv4 == 1
TypeIPv6 == 2
TypeCompressedIP == 3
TypeControl == 254
TypeNull == 255
HeaderLength == 4

\* of a datagram without a context
NoEndpoint == [addr |-> "none", port |-> 0]

Empty == <<>>
NewTlvReader == [contexts |-> Empty, fragments |-> Empty]

Put(f, k, v) == [x \in DOMAIN f \cup {k} |-> IF x = k THEN v ELSE f[x]]
Without(f, k) == Restrict(f, DOMAIN f \ {k})
-----------------------------------------------------------------------------
(* Next: a packet is a sync byte, a type, two bytes of length, a payload.  *)

\* mutant: the search goes on with the four bytes behind the wrong ones
StartsByHeader(wire) ==
  {i \in 1 .. Len(wire) - HeaderLength + 1 : wire[i].b = Sync /\ i % HeaderLength = 1}

\* where a header may begin: resync shifts the header a byte at a time
Starts(wire) == {i \in 1 .. Len(wire) - HeaderLength + 1 : wire[i].b = Sync}

LengthAt(wire, i) == 256 * wire[i + 2].b + wire[i + 3].b

\* whether there is a packet, else the reader waits for more or the stream ends in it
Framed(wire) ==
  Starts(wire) # {} /\ LET i == Min(Starts(wire)) IN i + 3 + LengthAt(wire, i) <= Len(wire)

PacketOf(wire) ==
  LET i   == Min(Starts(wire))
      end == i + 3 + LengthAt(wire, i)
  IN  [ type |-> wire[i + 1].b, start |-> wire[i],
        payload |-> [n \in 1 .. LengthAt(wire, i) |-> wire[i + 3 + n].c],
        rest |-> SubSeq(wire, end + 1, Len(wire)) ]
-----------------------------------------------------------------------------
(* addIPFragment: the fragments of a datagram, by position.  A new set may *)
(* put another one out, any of them; nothing else forgets a set.           *)

NewSet == [data |-> Empty, total |-> -1]

SetOf(r, key) == IF key \in DOMAIN r.fragments THEN r.fragments[key] ELSE NewSet

Conflicts(set, offset, more, body) ==
  \/ ~ more /\ set.total >= 0 /\ set.total # offset + Len(body)
  \/ \E n \in DOMAIN body : /\ offset + n \in DOMAIN set.data
                            /\ set.data[offset + n] # body[n]

Joined(set, offset, more, body) ==
  [ data  |-> [n \in DOMAIN set.data \cup {offset + i : i \in DOMAIN body} |->
                 IF n - offset \in DOMAIN body THEN body[n - offset] ELSE set.data[n]],
    total |-> IF more THEN set.total ELSE offset + Len(body) ]

Complete(set) == set.total >= 0 /\ 1 .. set.total \subseteq DOMAIN set.data

Crowded(r, key) == key \notin DOMAIN r.fragments /\ Cardinality(DOMAIN r.fragments) >= MaxFragmentSets

Nobody == [version |-> 0, id |-> 0, addr |-> NoEndpoint.addr]

\* the sets of which one goes should the next packet need room
Victims(r) ==
  IF Cardinality(DOMAIN r.fragments) < MaxFragmentSets THEN {Nobody} ELSE DOMAIN r.fragments

\* the reader after a fragment, and the datagram if it is complete; victim is the
\* set that goes if one has to
AddIPFragment(r, key, offset, more, body, victim) ==
  LET kept == IF Crowded(r, key) THEN Without(r.fragments, victim) ELSE r.fragments
      set  == Joined(SetOf(r, key), offset, more, body)
  IN  IF offset + Len(body) > MaxDatagram
      THEN [reader |-> [r EXCEPT !.fragments = Without(@, key)], whole |-> <<>>]
      ELSE IF Conflicts(SetOf(r, key), offset, more, body)
      THEN [reader |-> [r EXCEPT !.fragments = Without(kept, key)], whole |-> <<>>]
      ELSE IF ~ Complete(set)
      THEN [reader |-> [r EXCEPT !.fragments = Put(kept, key, set)], whole |-> <<>>]
      ELSE [reader |-> [r EXCEPT !.fragments = Without(kept, key)],
            whole  |-> SubSeq(set.data, 1, set.total)]
-----------------------------------------------------------------------------
(* Datagram: the reader after a packet, and <<>> or the datagram in it.    *)

NoDatagram(r) == [reader |-> r, out |-> <<>>]

Handed(r, endpoint, data) == [reader |-> r, out |-> << [endpoint |-> endpoint, data |-> data] >>]

\* udpDatagram: the UDP length may only be shorter
Udp(r, addr, body) ==
  IF body = <<>> THEN NoDatagram(r)
  ELSE IF body[1].k # "udp" THEN NoDatagram(r)
  ELSE IF body[1].length > Len(body) THEN NoDatagram(r)
  ELSE Handed(r, [addr |-> addr, port |-> body[1].port], SubSeq(body, 2, body[1].length))

\* mutant: the identification is left out
KeyByAddress(version, h, f) == [version |-> version, id |-> 0, addr |-> h.addr]

\* only UDP is collected in the model, so the protocol is left out
Key(version, h, f) == [version |-> version, id |-> f.id, addr |-> h.addr]

\* skipIPv6Extension, as often as it can
SkipExtensions(b) ==
  SubSeq(b, Min({i \in 1 .. Len(b) : b[i].k # "ext"} \cup {Len(b) + 1}), Len(b))

\* a second fragment header is none that UDP can follow
Fragment(r, version, h, f, body, victim) ==
  LET added == AddIPFragment(r, Key(version, h, f), f.offset, f.more, body, victim)
  IN  Udp(added.reader, h.addr, SkipExtensions(added.whole))

Ipv4Datagram(r, b, victim) ==
  LET h == b[1] IN
  IF h.k # "ip4" THEN NoDatagram(r)
  ELSE IF h.protocol # "udp" \/ h.total > Len(b) THEN NoDatagram(r)
  ELSE IF h.frag.more \/ h.frag.offset # 0
  THEN Fragment(r, 4, h, h.frag, SubSeq(b, 2, h.total), victim)
  ELSE Udp(r, h.addr, SubSeq(b, 2, h.total))

Ipv6Datagram(r, b, victim) ==
  LET h    == b[1]
      body == SkipExtensions(SubSeq(b, 2, h.total))
  IN  IF h.k # "ip6" THEN NoDatagram(r)
      ELSE IF h.total > Len(b) \/ body = <<>> THEN NoDatagram(r)
      ELSE IF body[1].k = "frag" THEN Fragment(r, 6, h, body[1], Tail(body), victim)
      ELSE Udp(r, h.addr, body)

\* mutant: the first header of a context stays
RememberFirst(r, h) ==
  IF h.cid \in DOMAIN r.contexts THEN r ELSE [r EXCEPT !.contexts = Put(@, h.cid, h.endpoint)]

Remember(r, h) == [r EXCEPT !.contexts = Put(@, h.cid, h.endpoint)]

Recall(r, h) == IF h.cid \in DOMAIN r.contexts THEN r.contexts[h.cid] ELSE NoEndpoint

CompressedDatagram(r, b) ==
  LET h == b[1] IN
  IF h.k # "cid" THEN NoDatagram(r)
  ELSE IF h.full THEN Handed(Remember(r, h), h.endpoint, Tail(b))
  ELSE Handed(r, Recall(r, h), Tail(b))

Datagram(r, packet, victim) ==
  IF packet.payload = <<>> THEN NoDatagram(r)
  ELSE CASE packet.type = TypeIPv4         -> Ipv4Datagram(r, packet.payload, victim)
         [] packet.type = TypeIPv6         -> Ipv6Datagram(r, packet.payload, victim)
         [] packet.type = TypeCompressedIP -> CompressedDatagram(r, packet.payload)
         [] OTHER                          -> NoDatagram(r)
=============================================================================
