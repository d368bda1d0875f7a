------------------------------ MODULE MCTsToMmt ------------------------------
(* Streams for TsToMmt: two with a preservation carousel, four without.      *)
EXTENDS TsToMmt

LOCAL INSTANCE SequencesExt
LOCAL INSTANCE FiniteSetsExt

VideoPID == 2
AudioPID == 3
CarouselPID == 4
OtherPID == 5
SIPID == 6

\* NAL units or frames of the given kinds and sizes, of one PES
Body(pid, id, kinds, sizes, known) ==
  FlattenSeq([k \in 1..Len(sizes) |->
    [j \in 1..sizes[k] |->
      [ of |-> <<pid, id>>, n |-> FoldFunctionOnSet(+, 0, sizes, 1..(k - 1)) + j, nal |-> kinds[k],
        begins |-> CASE j > 1 -> 0 [] j = 1 /\ known -> sizes[k] [] OTHER -> 1 ]]])

TSPacket(pid) ==
  [ pid |-> pid, carries |-> TRUE, disc |-> FALSE, clear |-> TRUE, start |-> FALSE, rap |-> FALSE,
    tail |-> <<>>, rest |-> <<>>, pes |-> NoHeader ]

\* a PES in packets of two units
PES(pid, id, pts, body, declared) ==
  [k \in 1..((Len(body) + 1) \div 2) |->
     [ TSPacket(pid) EXCEPT !.start = k = 1,
         !.rest = SubSeq(body, 2 * k - 1, IF 2 * k < Len(body) THEN 2 * k ELSE Len(body)),
         !.pes = IF k = 1 THEN [NoHeader EXCEPT !.ok = TRUE, !.id = id, !.pts = pts, !.declared = declared]
                 ELSE @ ]]

Picture(pid, id, pts, kind) == PES(pid, id, pts, Body(pid, id, <<"aud", kind>>, <<1, 3>>, FALSE), 0)

\* one frame, or two
Frames(pid, id, pts, sizes) ==
  LET body == Body(pid, id, <<"aac", "aac">>, sizes, TRUE) IN PES(pid, id, pts, body, Len(body))

Pieces(table, n) == [k \in 1..n |-> [of |-> table, n |-> k, most |-> n]]

Section(pid, table) == << [TSPacket(pid) EXCEPT !.start = TRUE, !.rest = Pieces(table, 1)] >>

\* a section that begins behind the end of another and goes on in the next packet
TwoSections(pid, one, two) ==
  << [TSPacket(pid) EXCEPT !.start = TRUE, !.rest = Pieces(one, 2) \o SubSeq(Pieces(two, 2), 1, 1)],
     [TSPacket(pid) EXCEPT !.rest = SubSeq(Pieces(two, 2), 2, 2)] >>

PATTable == [id |-> "PAT", pmts |-> <<1>>, items |-> <<>>]

PMTTable(number, streams) ==
  [id |-> "PMT", number |-> number, streams |-> streams, items |-> <<>>]

Str(type, pid) == [type |-> type, pid |-> pid]

Carousel(items) == [id |-> "DSM-CC", items |-> items]

\* a packet without a payload repeats the counter
Numbered(packets) ==
  [k \in 1..Len(packets) |->
     [cc |-> (Cardinality({j \in 1..k : packets[j].pid = packets[k].pid /\ packets[j].carries}) - 1) % CcRange]
       @@ packets[k]]

Sent(list) == Numbered(FlattenSeq(list))
-----------------------------------------------------------------------------
Sig(n, ntp, sig, addr) ==
  [id |-> <<"signalling", n>>, ntp |-> ntp, kind |-> "signalling", sig |-> sig, pid |-> "pa", addr |-> addr]
Data(n, ntp, raw, aapp) ==
  [ id |-> <<"generic", n>>, ntp |-> ntp, kind |-> "generic", pid |-> "data", addr |-> NoAddr, raw |-> raw,
    aapp |-> aapp, seq |-> 10 + n ]
AnchorAt(n, ntp, pid, addr) ==
  [id |-> <<"anchor", n>>, ntp |-> ntp, kind |-> "anchor", pid |-> pid, addr |-> addr]
ItemAt(n, ntp, pid, object) ==
  [id |-> <<"item", n>>, ntp |-> ntp, kind |-> "item", object |-> object, pid |-> pid, mpu |-> 0, addr |-> NoAddr]
CaptionAt(n, ntp, batch, number, object) ==
  [ id |-> <<"caption", n>>, ntp |-> ntp, kind |-> "caption", object |-> object, pid |-> "caption",
    batch |-> batch, number |-> number, addr |-> NoAddr ]
EntryAt(n, ntp, output, pid, mpu, first, count) ==
  [ id |-> <<"av", n>>, ntp |-> ntp, kind |-> "av", output |-> output, pid |-> pid, mpu |-> mpu, first |-> first,
    count |-> count ]

ItemOf(what, n, list) == << [what |-> what, n |-> n, list |-> list] >>

Object(o, size) == [j \in 1..size |-> [of |-> <<0, o>>, n |-> j, nal |-> "object", begins |-> 0]]
ObjectSet(sizes) == [o \in DOMAIN sizes |-> Object(o, sizes[o])]

PreservedPMT ==
  PMTTable(1, << Str("hevc", VideoPID), Str("latm", AudioPID), Str("dsmcc", CarouselPID) >>)

Segment1 == << Sig(1, 1, "pa", "a"), AnchorAt(1, 1, VideoPID, "b"), AnchorAt(3, 1, AudioPID, "d"),
               Sig(2, 2, "ntp", "a") >>
Segment2 == << CaptionAt(1, 3, 1, 2, 1), AnchorAt(2, 3, VideoPID, "c"), CaptionAt(2, 3, 1, 1, 2),
               ItemAt(1, 3, "app", 3), Sig(3, 3, "pa", "a") >>
Segment3 == << Data(1, 5, TRUE, FALSE), Sig(4, 5, "pa", "a") >>
Entries == << EntryAt(2, 4, VideoPID, "video", 2, 2, 1), EntryAt(3, 2, AudioPID, "audio", 1, 0, 2),
              EntryAt(4, 6, AudioPID, "audio", 2, 2, 1) >>
Segment4 == << Sig(5, 8, "pa", "a"), Sig(6, 3, "tlv", "a") >>

\* captions and an item whose objects come bit by bit, a record that is late;
\* the units of an entry are complete before its time is up
Preserved ==
  Sent(<< Section(0, PATTable), Section(1, PreservedPMT),
          Picture(VideoPID, 1, 0, "irap"),
          Section(CarouselPID, Carousel(ItemOf("bootstrap", 0, <<>>) \o ItemOf("segment", 1, Segment1))),
          Picture(VideoPID, 2, 1, "trail"), Frames(AudioPID, 1, 0, <<3>>), Picture(VideoPID, 3, 2, "irap"),
          Section(CarouselPID, Carousel(ItemOf("segment", 2, Segment2)
             \o ItemOf("entries", 3, << EntryAt(1, 1, VideoPID, "video", 1, 0, 2) >>))),
          Frames(AudioPID, 2, 1, <<3>>), Picture(VideoPID, 4, 3, "trail"),
          Section(CarouselPID, Carousel(ItemOf("segment", 4, Segment3)
             \o ItemOf("objects", 5, ObjectSet(<<2>>)))), Frames(AudioPID, 3, 2, <<2>>),
          Section(CarouselPID, Carousel(ItemOf("entries", 6, Entries))),
          Section(CarouselPID, Carousel(ItemOf("segment", 7, Segment4)
             \o ItemOf("objects", 8, ObjectSet(<<2, 3, 5>>)))),
          Section(CarouselPID, Carousel(ItemOf("segment", 7, Segment4)
             \o ItemOf("entries", 6, Entries))),
          Picture(VideoPID, 5, 4, "trail"), Frames(AudioPID, 4, 3, <<2>>) >>)

\* a data broadcast packet by packet, an object that is given up, entries of
\* units that are not there, a stream that no PMT declares
Sparse ==
  Sent(<< Section(0, PATTable), Section(1, PreservedPMT),
          Section(CarouselPID, Carousel(ItemOf("entries", 1, << EntryAt(1, 2, AudioPID, "audio", 0, 0, 1),
             EntryAt(2, 4, OtherPID, "other", 0, 0, 1), EntryAt(3, 4, OtherPID, "other", 1, 2, 1) >>))),
          Frames(AudioPID, 1, 0, <<2>>), Frames(OtherPID, 1, 0, <<2>>),
          Section(CarouselPID, Carousel(ItemOf("segment", 2,
             << Data(1, 1, FALSE, TRUE), ItemAt(1, 2, "data", 1), ItemAt(2, 2, "app", 2), Sig(1, 3, "pa", "a") >>))),
          Section(CarouselPID, Carousel(ItemOf("segment", 3, << Sig(2, 6, "pa", "a") >>))),
          Section(CarouselPID, Carousel(ItemOf("segment", 4, << Sig(3, 9, "pa", "a"), ItemAt(3, 8, "app", 1) >>))),
          Section(CarouselPID, Carousel(ItemOf("objects", 5, ObjectSet(<<1, 3>>)))) >>)
-----------------------------------------------------------------------------
Ordinary(streams) == << Section(0, PATTable), Section(1, PMTTable(7, streams)) >>

SI(id, key, ok) == [id |-> id, key |-> key, ok |-> ok, body |-> <<id, key>>, items |-> <<>>]

\* pictures before the first point of access, two groups, audio of two frames
\* in a PES, scrambled and broken packets
Pictures ==
  Sent(Ordinary(<< Str("hevc", VideoPID), Str("adts", AudioPID) >>) \o
       << TwoSections(SIPID, SI("SDT", 1, TRUE), SI("SDT", 2, FALSE)),
          Picture(VideoPID, 1, 0, "trail"), Picture(VideoPID, 2, 1, "irap"),
          Frames(AudioPID, 1, 0, <<2, 2>>), Picture(VideoPID, 3, 2, "trail"),
          Picture(VideoPID, 4, 4, "trail"), Frames(AudioPID, 2, 2, <<2, 3>>),
          << [TSPacket(AudioPID) EXCEPT !.clear = FALSE] >>, << [TSPacket(AudioPID) EXCEPT !.carries = FALSE] >>,
          Picture(VideoPID, 5, 6, "irap"), Section(SIPID, SI("CDT", 1, TRUE)),
          Frames(AudioPID, 3, 4, <<2>>) >>)

\* two services, one of them with audio alone; a stream without times
TwoServices ==
  Sent(<< Section(0, [PATTable EXCEPT !.pmts = <<1>>]),
          Section(1, PMTTable(9, << Str("hevc", VideoPID), Str("none", OtherPID) >>)),
          Section(1, PMTTable(7, << Str("latm", AudioPID) >>)),
          Picture(VideoPID, 1, 0, "irap"), Frames(AudioPID, 1, 3, <<3>>), Frames(AudioPID, 2, 5, <<2>>),
          Picture(VideoPID, 2, -1, "trail"), Picture(VideoPID, 3, 3, "irap"), Frames(AudioPID, 3, 6, <<4>>),
          Frames(AudioPID, 4, 7, <<2>>), Frames(AudioPID, 5, 8, <<2>>) >>)

\* a point of access every picture: more MPUs than are announced start between
\* two MPTs; and a service before it that has no time
Rapid ==
  Sent(<< Section(0, PATTable), Section(1, PMTTable(3, << Str("adts", AudioPID) >>)),
          Section(1, PMTTable(7, << Str("hevc", VideoPID) >>)), Frames(AudioPID, 1, -1, <<2>>) >>
       \o [k \in 1..7 |-> Picture(VideoPID, k, k - 1, "irap")])

\* times that jump back
BackInTime ==
  Sent(Ordinary(<< Str("hevc", VideoPID) >>) \o
       << Picture(VideoPID, 1, 5, "irap"), Picture(VideoPID, 2, 7, "irap"), Picture(VideoPID, 3, 9, "irap"),
          Picture(VideoPID, 4, 0, "irap"), Picture(VideoPID, 5, 2, "irap") >>)

MCPlans ==
  { [packets |-> Rapid, faults |-> 2], [packets |-> BackInTime, faults |-> 2],
    [packets |-> Preserved, faults |-> 2], [packets |-> Sparse, faults |-> 2],
    [packets |-> Pictures, faults |-> 2], [packets |-> TwoServices, faults |-> 2] }
=============================================================================
