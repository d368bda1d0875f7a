------------------------------ MODULE Signalling ------------------------------
(***************************************************************************)
(* signaling.Reassembler: signalling messages out of the payloads of one   *)
(* flow, and what is read from them: sections (si.ParseSection), which a   *)
(* CRC guards, and the tables of a PA message, which nothing guards.       *)
(*                                                                         *)
(* The bytes of a message are its pieces; those of a table or section are  *)
(* records [of, n, most]: the n-th of the most pieces of the table "of".   *)
(* A payload is                                                            *)
(*   agg    it aggregates messages                                         *)
(*   frag   "whole", "first", "middle" or "last"                           *)
(*   data   the bytes of its messages, or of the one it is a fragment of:  *)
(*          [size, pieces], size what the header declares in bytes that    *)
(*          begin with one, 0 in others                                    *)
(*                                                                         *)
(* si.Collector and si.State: sections are collected per table and         *)
(* version, and a version whose sections are all there is taken into the   *)
(* state that the tables of the transport stream are built from.           *)
(*                                                                         *)
(* A section is a record                                                   *)
(*   table      table id and extension, which key the collection           *)
(*   kind       how State.apply takes the table in:                        *)
(*              "joined" (SDT, BIT, CDT, NIT), "keyed" (EIT), "single"     *)
(*              (TOT, SIT, DIT: only their first section counts)           *)
(*   stream     the TLV stream it names, 0 when left open                  *)
(*   syntax     the long form: the fields below exist                      *)
(*   version, number, last, current                                        *)
(*   segLast    last section of its segment; -1 where tables have no such  *)
(*   body       what it says                                               *)
(***************************************************************************)
EXTENDS Integers, Sequences, FiniteSets

LOCAL INSTANCE SequencesExt
LOCAL INSTANCE TLC
LOCAL INSTANCE FiniteSetsExt

CONSTANTS
  PacketIDs,
  MaxSignaling   \* the most pieces a fragmented message is buffered for

Nothing == [size |-> 0, pieces |-> <<>>]

NewSignaling == [pid \in PacketIDs |-> [open |-> FALSE, bytes |-> Nothing]]

Closed(bufs, pid) == [bufs EXCEPT ![pid] = [open |-> FALSE, bytes |-> Nothing]]

Joined(a, b) == [size |-> a.size, pieces |-> a.pieces \o b.pieces]
-----------------------------------------------------------------------------
\* parseMessage: what follows the header, if all of it is there
ParseMessage(b) ==
  IF Len(b.pieces) < b.size THEN <<>> ELSE << SubSeq(b.pieces, 1, b.size) >>

\* mutant: a message that begins does not drop the one before it
OpenedBehind(bufs, pid, b) ==
  [bufs EXCEPT ![pid] = [open |-> TRUE, bytes |-> IF @.open THEN Joined(@.bytes, b) ELSE b]]

Opened(bufs, pid, b) == [bufs EXCEPT ![pid] = [open |-> TRUE, bytes |-> b]]

\* the buffers, and the bodies of the messages that are complete
Leads(bufs, out) == [bufs |-> bufs, out |-> out]

\* Reassembler.Push; an aggregate leaves a message in progress alone
PushSignal(bufs, pid, u) ==
  LET buf == bufs[pid] IN
  CASE u.agg -> Leads(bufs, FlattenSeq([k \in 1..Len(u.data) |-> ParseMessage(u.data[k])]))
    [] ~ u.agg /\ u.frag = "whole" -> Leads(Closed(bufs, pid), ParseMessage(u.data[1]))
    [] ~ u.agg /\ u.frag = "first" ->
         Leads(Opened(bufs, pid, u.data[1]), <<>>)
    [] ~ u.agg /\ u.frag = "middle" ->
         IF ~ buf.open THEN Leads(bufs, <<>>)
         ELSE IF Len(buf.bytes.pieces) + Len(u.data[1].pieces) > MaxSignaling
         THEN Leads(Closed(bufs, pid), <<>>)
         ELSE Leads([bufs EXCEPT ![pid].bytes = Joined(@, u.data[1])], <<>>)
    [] OTHER ->
         IF ~ buf.open THEN Leads(bufs, <<>>)
         ELSE Leads(Closed(bufs, pid), ParseMessage(Joined(buf.bytes, u.data[1])))
-----------------------------------------------------------------------------
Intact(b) == \A k \in 1..Len(b) : b[k].of = b[1].of /\ b[k].n = k

\* the tables that stand one behind the other in b, each as long as its
\* first piece says; nothing is read behind bytes that do not fit that
TablesIn(b) ==
  LET At[p \in 1..(Len(b) + 1)] ==
        IF p > Len(b) THEN <<>>
        ELSE IF b[p].n # 1 \/ p + b[p].most - 1 > Len(b) THEN <<>>
        ELSE << SubSeq(b, p, p + b[p].most - 1) >> \o At[p + b[p].most]
  IN  At[1]

\* PushMessage, pushData: a section whose CRC is wrong is passed over
ParseSections(b) ==
  LET whole == SelectSeq(TablesIn(b), Intact)
  IN  [k \in 1..Len(whole) |-> whole[k][1].of]
-----------------------------------------------------------------------------
(* The collection of sections and the state.                               *)

CONSTANTS
  SiTables,      \* the tables (table id and extension)
  SegmentSize,   \* sections of an EIT segment, 8 in the code
  VersionRange,  \* version numbers of a table, 32
  ActualSDTs, ActualNITs,   \* SiTables of this stream and network
  PresentFollowing,         \* the EIT p/f of the service
  Schedules                 \* its EIT schedule tables

NoPending == [have |-> FALSE, version |-> 0, sections |-> <<>>, last |-> 0, segLast |-> <<>>]
NoSet     == [have |-> FALSE, version |-> 0, sections |-> <<>>]

NewCollector ==
  [building |-> [t \in SiTables |-> NoPending], latest |-> [t \in SiTables |-> NoSet]]
-----------------------------------------------------------------------------
Segment(n) == n \div SegmentSize

\* maps of the code as functions
With(f, k, v) == [x \in DOMAIN f \cup {k} |-> IF x = k THEN v ELSE f[x]]

\* pending.complete
Complete(p) ==
  \A n \in 0..p.last :
    \/ n \in DOMAIN p.sections
    \/ /\ Segment(n) \in DOMAIN p.segLast
       /\ n > p.segLast[Segment(n)]

\* mutant: a section of another version joins what is there
PendingForAny(p, s) == IF p.have THEN p ELSE [NoPending EXCEPT !.have = TRUE, !.version = s.version]

\* what is being built when s comes: another version starts from nothing
PendingFor(p, s) ==
  IF p.have /\ p.version = s.version THEN p
  ELSE [NoPending EXCEPT !.have = TRUE, !.version = s.version]

Pended(p, s) ==
  [PendingFor(p, s) EXCEPT
     !.sections = With(@, s.number, s),
     !.last = s.last,
     !.segLast = IF s.segLast >= 0 THEN With(@, Segment(s.number), s.segLast) ELSE @]

SetOf(p) ==
  [ have |-> TRUE, version |-> p.version,
    sections |-> [k \in 1..Cardinality({n \in DOMAIN p.sections : n <= p.last}) |->
                    p.sections[SetToSortSeq({n \in DOMAIN p.sections : n <= p.last}, <)[k]]] ]

\* the collector and, when a table is complete and new, its set
Collects(col, set) == [col |-> col, set |-> set]

\* Collector.Push
PushSection(col, s) ==
  LET p   == Pended(col.building[s.table], s)
      set == SetOf(p)
      now == [col EXCEPT !.building[s.table] = p]
  IN  CASE ~ s.syntax ->
             LET one == [have |-> TRUE, version |-> 0, sections |-> <<s>>]
             IN  Collects([col EXCEPT !.latest[s.table] = one], one)
        [] s.syntax /\ ~ s.current -> Collects(col, NoSet)
        [] s.syntax /\ s.current /\ (~ Complete(p) \/ set = col.latest[s.table]) ->
             Collects(now, NoSet)
        [] OTHER -> Collects([now EXCEPT !.latest[s.table] = set], set)
-----------------------------------------------------------------------------
\* the state: what the tables say, and for whom its change is news
NewState ==
  [ joined |-> <<>>, keyed |-> <<>>, single |-> <<>>,
    news |-> [si |-> FALSE, identity |-> FALSE] ]

Join(f, s) ==
  IF s.table \in DOMAIN f /\ f[s.table].version = s.version /\ s.number > 0
  THEN [f EXCEPT ![s.table].bodies = Append(@, s.body)]
  ELSE With(f, s.table, [version |-> s.version, stream |-> s.stream, bodies |-> <<s.body>>])

\* State.apply
ApplySet(st, set) ==
  LET s1   == set.sections[1]
      next ==
        CASE s1.kind = "joined" -> [st EXCEPT !.joined = FoldLeft(Join, @, set.sections)]
          [] s1.kind = "keyed"  ->
               [st EXCEPT !.keyed =
                  FoldLeft(LAMBDA f, s : With(f, <<s.table, s.number>>, s), @, set.sections)]
          [] OTHER -> [st EXCEPT !.single = With(@, s1.table, s1)]
  IN  [next EXCEPT !.news = [si |-> TRUE, identity |-> TRUE]]

\* the stream named by an actual SDT, one that names its stream before one
\* that leaves it open (ActualSDT); a map, so any of several
NamedBySDT(st, sdts) ==
  LET names == {st.joined[t].stream : t \in sdts \cap DOMAIN st.joined}
  IN  IF names \ {0} # {} THEN names \ {0} ELSE names

\* State.Identity: the SDT decides; without one the EIT, else the network.
\* Empty while nothing names a stream.
IdentityStreams(st, sdts, nits) ==
  LET eits == {st.keyed[k].stream : k \in DOMAIN st.keyed}
      net  == {st.joined[t].stream : t \in nits \cap DOMAIN st.joined}
  IN  CASE NamedBySDT(st, sdts) # {} -> NamedBySDT(st, sdts)
        [] NamedBySDT(st, sdts) = {} /\ eits # {} -> eits
        [] OTHER -> net
-----------------------------------------------------------------------------
(* siconv.Generator and what the muxer does with its tables: SI of the      *)
(* transport stream built from si.State, under version numbers that follow  *)
(* the content, held back until the stream has an identity.                 *)
(* A table that is built is [version, content, sent]; the conversion of     *)
(* descriptors and text is a function of what the sections say and is not   *)
(* spelt out in content.                                                    *)

NextVersion(v) == (v + 1) % VersionRange

\* Generator.versioned
Versioned(versions, name, content) ==
  LET old == versions[name] IN
  IF name \notin DOMAIN versions
  THEN With(versions, name, [version |-> 0, content |-> content])
  ELSE IF old.content = content THEN versions
  ELSE With(versions, name, [version |-> NextVersion(old.version), content |-> content])
-----------------------------------------------------------------------------
Says(tsid, bodies) == [tsid |-> tsid, says |-> bodies]

\* sections 0 and 1, empty ones while the EIT is not there
PresentFollowingOf(st) ==
  [n \in 1..2 |-> IF <<PresentFollowing, n - 1>> \in DOMAIN st.keyed
                  THEN <<st.keyed[<<PresentFollowing, n - 1>>].body>> ELSE <<>>]

\* eitSchedule: table by table and number by number, whatever their version
ScheduleKeys(st) == {k \in DOMAIN st.keyed : k[1] \in Schedules}

ScheduleOf(st) == {st.keyed[k].body : k \in ScheduleKeys(st)}

\* BuildStream and BuildService, and the tables' names: nit and sdt are the
\* tables they are built from (SelfNetwork, ActualSDT); the time in a TOT
\* stands for itself and the TOT has no version
Contents(st, tsid, sdt, nit) ==
  LET known == DOMAIN st.joined IN
     (IF nit \in known THEN [name \in {"NIT"} |-> Says(tsid, st.joined[nit].bodies)] ELSE <<>>)
  @@ (IF sdt \in known THEN [name \in {"SDT"} |-> Says(tsid, st.joined[sdt].bodies)] ELSE <<>>)
  @@ [name \in {"EIT p/f"} |-> Says(tsid, PresentFollowingOf(st))]
  @@ (IF ScheduleKeys(st) # {}
      THEN [name \in {"EIT schedule"} |-> Says(tsid, <<ScheduleOf(st)>>)] ELSE <<>>)
  @@ [name \in {"TOT"} \cap DOMAIN st.single |-> Says(0, <<st.single[name].body>>)]

\* what Build leaves: the versions, and the tables; "sent" is kept by name,
\* and what is new is due at once (refreshSI)
Built(versions, old, st, tsid, sdt, nit) ==
  LET contents == Contents(st, tsid, sdt, nit)
      names    == DOMAIN contents
      counted  == [name \in DOMAIN versions \cup (names \ {"TOT"}) |->
                     IF name \in names THEN Versioned(versions, name, contents[name])[name]
                     ELSE versions[name]]
  IN  [ versions |-> counted,
        tables |-> [name \in names |->
                      [ version |-> IF name = "TOT" THEN 0 ELSE counted[name].version,
                        content |-> contents[name],
                        sent |-> name \in DOMAIN old /\ old[name].sent ]] ]
=============================================================================
