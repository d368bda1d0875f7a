----------------------------- MODULE MCMultiplexer -----------------------------
(***************************************************************************)
(* A multiplexer of a few PIDs and tags, whose streams have to make way    *)
(* for each other, and the plans that take an MPT through its changes.     *)
(***************************************************************************)
EXTENDS Multiplexer

MCPidBase(index, kind) ==
  (IF index = 0 THEN 5 ELSE 11) + (CASE kind = "video" -> 0 [] kind = "audio" -> 2 [] OTHER -> 4)
MCTagBase(kind) == CASE kind = "video" -> 0 [] kind = "audio" -> 2 [] OTHER -> 4
MCTagLast(kind) == MCTagBase(kind) + 1

Asset(key, kind, packet, tag) ==
  [key |-> key, kind |-> kind, packet |-> packet, tag |-> tag, type |-> 1,
   group |-> -1, level |-> 0, info |-> 0]

In(asset, group, level) == [asset EXCEPT !.group = group, !.level = level]

Table(package, flow, assets) ==
  [package |-> package, flow |-> flow, assets |-> assets, info |-> 0]

Units(times) == [n \in 1..Len(times) |-> [dts |-> times[n], bad |-> FALSE]]

Video == Asset("v", "video", 1, 0)
Audio == Asset("a", "audio", 2, 2)

\* the video moves to a packet id of its own, the audio changes its type,
\* leaves and comes back
Changing ==
  [ mpts |-> [p |-> << Table("p", 1, <<Video, Audio>>),
                       Table("p", 1, <<[Video EXCEPT !.packet = 3],
                                       [Audio EXCEPT !.type = 2, !.info = 1]>>),
                       Table("p", 1, <<[Video EXCEPT !.packet = 3]>>),
                       Table("p", 1, <<Audio, [Video EXCEPT !.packet = 3]>>) >>],
    units |-> [v |-> Units(<<10, 14, 19>>), a |-> Units(<<9, 13>>)],
    clock |-> <<4>> ]

\* the backup of a group comes before the video that leads it, and another
\* video wants its tag
Backup ==
  [ mpts |-> [p |-> << Table("p", 1, << In(Asset("b", "video", 1, 1), 3, 1), In(Asset("v", "video", 2, 0), 3, 0),
                                        Asset("c", "caption", 4, 4) >>),
                       Table("p", 1, << In(Asset("b", "video", 1, 1), 3, 1), In(Asset("v", "video", 2, 0), 3, 0),
                                        Asset("x", "video", 3, 1), Asset("c", "caption", 4, -1) >>) >>],
    units |-> [b |-> Units(<<10, 16>>), v |-> Units(<<8, 15>>), x |-> Units(<<12>>), c |-> Units(<<11>>)],
    clock |-> <<>> ]

\* two packages on flows that use the same packet ids, in either order
Packages ==
  [ mpts |-> [p |-> << Table("p", 1, <<Video, Audio>>) >>,
              q |-> << Table("q", 2, << Asset("w", "video", 1, 0), Asset("d", "application", 2, -1) >>),
                       Table("q", 2, << Asset("w", "video", 2, 0) >>),
                       Table("q", 2, << Asset("w", "video", 3, 0), Asset("u", "unsupported", 1, -1) >>) >>],
    units |-> [v |-> Units(<<10, 15>>), a |-> Units(<<11>>), w |-> Units(<<12, 20>>)],
    clock |-> <<3, 12>> ]

\* units that come late, from before the first one, with a long gap, and
\* audio that cannot be framed where the audio carries the clock
Gaps ==
  [ mpts |-> [p |-> << Table("p", 1, <<Video, Audio>>) >>],
    units |-> [v |-> Units(<<10, 12, 31, 33>>), a |-> Units(<<11, 9, 30>>)],
    clock |-> <<>> ]

Unframed ==
  [ mpts |-> [p |-> << Table("p", 1, <<Audio, Asset("c", "caption", 4, 4)>>) >>],
    units |-> [a |-> << [dts |-> 10, bad |-> FALSE], [dts |-> 13, bad |-> TRUE],
                        [dts |-> 17, bad |-> FALSE], [dts |-> 24, bad |-> FALSE] >>,
               c |-> Units(<<12, 40>>)],
    clock |-> <<1>> ]

\* three videos where the tags, the reserved PID and the end of the range
\* leave little room
Crowded ==
  [ mpts |-> [p |-> << Table("p", 1, << Asset("v", "video", 1, 0), Asset("x", "video", 2, 0),
                                        Asset("a", "audio", 3, 2), Asset("c", "caption", 4, 5) >>) >>,
              q |-> << Table("q", 1, << Asset("w", "caption", 5, 5), Asset("y", "caption", 6, 4) >>) >>],
    units |-> [v |-> Units(<<10>>), x |-> Units(<<10>>), a |-> Units(<<11>>), c |-> Units(<<12>>),
               w |-> Units(<<13>>), y |-> Units(<<14>>)],
    clock |-> <<>> ]

\* what the descriptors of the MPT say changes, and nothing else; then two
\* videos that stand in for a third change their levels
Backups(first, second, info) ==
  [Table("p", 1, << In(Video, 3, first), In(Asset("b", "video", 5, 1), 3, second) >>) EXCEPT !.info = info]

Described ==
  [ mpts |-> [p |-> << Backups(1, 2, 0), Backups(1, 2, 1), Backups(2, 1, 1) >>],
    units |-> [v |-> Units(<<10, 16>>), b |-> Units(<<11, 22>>)],
    clock |-> <<>> ]

MCPlans == {Described, Changing, Backup, Packages, Gaps, Unframed, Crowded}
=============================================================================
