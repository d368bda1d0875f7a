------------------------------ MODULE SignalPath ------------------------------
(***************************************************************************)
(* Signalling on its way through the converter: a broadcaster that repeats *)
(* its tables and replaces them, a network that loses payloads and brings  *)
(* some late, the reassembly of messages, the collection of sections, the  *)
(* state, the SI and PAT the muxer writes from it, and a receiver of the   *)
(* transport stream, which drops a table that keeps its version.           *)
(***************************************************************************)
EXTENDS Signalling

LOCAL INSTANCE SequencesExt
LOCAL INSTANCE TLC

CONSTANTS
  Plans,       \* what may be broadcast: the bounds [last, lost, late], where
               \* last[t] is how many times a table is issued, and lost and
               \* late how many payloads the network loses or delays
  Messages(_, _),  \* the messages an issue of a table may be sent in
  Sections(_, _),  \* the sections of an issue of a table
  PAPacket,    \* the packet id of the PA message
  Control      \* stands for TLV control packets, which are not MMT packets

VARIABLES
  plan,       \* the member of Plans that is broadcast
  issue,      \* the issue of each table that is on the air
  sending,    \* what is left of the message in progress on a packet id
  net,        \* payloads lost, sections late
  inRow,      \* most payloads lost one after another since a message began
  bufs,       \* signaling.Reassembler
  col, st,    \* si.Collector, si.State
  mpt,        \* the MPT applied last
  tsid,       \* opts.TSID, 0 while unknown
  versions,   \* the generators' versions and signatures
  si,         \* siTables, siBuilt
  pat,        \* the PAT's version and content, patBuilt
  dirty,      \* pmtDirty: PAT and PMT are due at once
  busy,       \* the muxer is between two packets' worth of output
  air         \* per table: what was written last and what a receiver holds

vars == <<plan, issue, sending, net, inRow, bufs, col, st, mpt, tsid, versions, si, pat, dirty,
          busy, air>>

NoPAT == [tsid |-> 0, programs |-> 0, network |-> FALSE]

NoMPT == [of |-> 0, intact |-> TRUE, lost |-> 0]

Tables == DOMAIN plan.last

Init ==
  /\ plan \in Plans
  /\ issue = [t \in Tables |-> 1]
  /\ sending = [pid \in PacketIDs |-> <<>>]
  /\ net = [lost |-> 0, late |-> 0]
  /\ inRow = [pid \in PacketIDs |-> [now |-> 0, most |-> 0]]
  /\ bufs = NewSignaling
  /\ col = NewCollector /\ st = NewState
  /\ mpt = NoMPT
  /\ tsid = 0
  /\ versions = <<>>
  /\ si = [built |-> FALSE, tables |-> <<>>]
  /\ pat = [version |-> VersionRange - 1, content |-> NoPAT]
  /\ dirty = FALSE
  /\ busy = FALSE
  /\ air = <<>>
-----------------------------------------------------------------------------
\* syncIdentity: what is due when the stream's identity turns up
Identities ==
  IF tsid # 0 \/ ~ st.news.identity THEN {tsid}
  ELSE IF IdentityStreams(st, ActualSDTs, ActualNITs) = {} THEN {0}
  ELSE IdentityStreams(st, ActualSDTs, ActualNITs)

\* refreshSI after syncIdentity has answered id
Refreshed(id, sdt, nit) ==
  LET stale == si.built /\ id = tsid IN
  CASE id = 0 -> [versions |-> versions, si |-> [built |-> TRUE, tables |-> <<>>]]
    [] id # 0 /\ stale /\ ~ st.news.si -> [versions |-> versions, si |-> si]
    [] OTHER ->
         LET b == Built(versions, si.tables, st, id, sdt, nit)
         IN  [versions |-> b.versions, si |-> [built |-> TRUE, tables |-> b.tables]]

\* the SDT and the network the generator finds
Chosen(ts) ==
  LET named == {t \in ts \cap DOMAIN st.joined : st.joined[t].stream # 0}
  IN  IF named # {} THEN named
      ELSE IF ts \cap DOMAIN st.joined # {} THEN ts \cap DOMAIN st.joined ELSE {"none"}
-----------------------------------------------------------------------------
\* a receiver takes a table in when its version is not the one it has
Written(a, name, version, content) ==
  LET held == IF name \in DOMAIN a /\ a[name].version = version
              THEN a[name].held ELSE content
  IN  With(a, name, [version |-> version, shown |-> content, held |-> held])

\* mutant: the version of the PAT follows the list of programs only
PatVersionedByPrograms(p, content) ==
  IF p.content.programs = content.programs THEN [p EXCEPT !.content = content]
  ELSE [version |-> NextVersion(p.version), content |-> content]

\* writePSI: the PAT's version follows its content
PatVersioned(p, content) ==
  IF p.content = content THEN p
  ELSE [version |-> NextVersion(p.version), content |-> content]

WritePAT(a, p) == Written(a, "PAT", p.version, p.content)

WriteTables(a, tables, due) ==
  FoldLeft(LAMBDA b, name : IF name = "TOT" THEN With(b, name,
                                [version |-> 0, shown |-> tables[name].content, held |-> tables[name].content])
                            ELSE Written(b, name, tables[name].version, tables[name].content),
           a, SetToSeq(due))

\* one round of advance or idle: writePSI if it is due, then writeSI with
\* the tables whose interval has passed
Round(psi) ==
  \E id \in Identities, sdt \in Chosen(ActualSDTs), nit \in Chosen(ActualNITs) :
    LET r == Refreshed(id, sdt, nit)
        content == [tsid |-> id, programs |-> 1, network |-> "NIT" \in DOMAIN r.si.tables]
        fresh == {name \in DOMAIN r.si.tables : ~ r.si.tables[name].sent}
    IN  \E due \in {d \in SUBSET DOMAIN r.si.tables : fresh \subseteq d} :
          /\ tsid' = id
          /\ st' = [st EXCEPT !.news = [si |-> FALSE, identity |-> @.identity /\ tsid # 0]]
          /\ versions' = r.versions
          /\ si' = [r.si EXCEPT !.tables = [name \in DOMAIN @ |->
                      [@[name] EXCEPT !.sent = @ \/ name \in due]]]
          /\ pat' = IF psi THEN PatVersioned(pat, content) ELSE pat
          /\ dirty' = ((dirty \/ id # tsid) /\ ~ psi)
          /\ air' = WriteTables(IF psi THEN WritePAT(air, pat') ELSE air, r.si.tables, due)
          /\ UNCHANGED <<plan, issue, sending, net, inRow, bufs, col, mpt>>

HavePackage == mpt # NoMPT

\* advance: rounds as the clock passes, PSI when its interval is over
MuxRound == /\ HavePackage
            /\ busy' = TRUE
            /\ \E psi \in BOOLEAN : Round(psi)

\* and the last one, with PSI also when something changed; idle is this alone
MuxUnit == /\ HavePackage
           /\ busy' = FALSE
           /\ \E psi \in BOOLEAN :
                /\ (dirty \/ "PAT" \notin DOMAIN air) => psi
                /\ Round(psi)
-----------------------------------------------------------------------------
\* State.push for each section of a message
TakeSections(c, s, sections) ==
  FoldLeft(LAMBDA r, sec :
             LET p == PushSection(r.col, sec)
             IN  [col |-> p.col, st |-> IF p.set.have THEN ApplySet(r.st, p.set) ELSE r.st],
           [col |-> c, st |-> s], sections)

\* PushMessage for messages, PushTLVSection for a control packet
HearSections(bodies) ==
  LET r == TakeSections(col, st, FlattenSeq([k \in 1..Len(bodies) |-> ParseSections(bodies[k])]))
  IN  /\ col' = r.col
      /\ st' = r.st
      /\ UNCHANGED <<mpt, tsid, si, dirty>>

\* a PA message: applyMPT with its MPT, unless mixed bytes fail to parse; the
\* first one founds the package, and the identity is looked for
HearPA(bodies) ==
  LET tables == FlattenSeq([k \in 1..Len(bodies) |-> TablesIn(bodies[k])]) IN
  \E parsed \in {tables, SelectSeq(tables, Intact)}, id \in Identities :
    /\ col' = col
    /\ IF parsed = <<>> THEN UNCHANGED <<st, mpt, tsid, si, dirty>>
       ELSE /\ mpt' = [of |-> Last(parsed)[1].of, intact |-> Intact(Last(parsed)),
                         lost |-> inRow[PAPacket].most]
            /\ tsid' = id
            /\ st' = [st EXCEPT !.news.identity = @ /\ tsid # 0]
            /\ si' = [si EXCEPT !.built = @ /\ id = tsid]
            /\ dirty' \in {dirty, TRUE}
            /\ (mpt = NoMPT \/ id # tsid) => dirty'

Hear(pid, u) ==
  IF pid = Control
  THEN HearSections(<<u.data[1].pieces>>) /\ UNCHANGED bufs
  ELSE LET r == PushSignal(bufs, pid, u)
       IN  /\ bufs' = r.bufs
           /\ IF pid = PAPacket THEN HearPA(r.out) ELSE HearSections(r.out)

\* how many payloads were lost in a row, since a message began to be heard
Count(pid, u, lost) ==
  inRow' = [inRow EXCEPT ![pid] =
              IF lost THEN [now |-> @.now + 1, most |-> IF @.most > @.now THEN @.most ELSE @.now + 1]
              ELSE [now |-> 0, most |-> IF u.frag = "first" THEN 0 ELSE @.most]]

Elsewhere == <<plan, versions, pat, busy, air>>

Transmit(pid, u) ==
  \/ /\ Hear(pid, u)
     /\ Count(pid, u, FALSE)
     /\ UNCHANGED net
  \/ /\ net.lost < plan.lost
     /\ net' = [net EXCEPT !.lost = @ + 1]
     /\ Count(pid, u, TRUE)
     /\ UNCHANGED <<bufs, col, st, mpt, tsid, si, dirty>>

SendMessage(t, i, m) ==
  /\ ~ busy
  /\ t \in Tables /\ issue[t] = i
  /\ sending[m.pid] = <<>>
  /\ sending' = [sending EXCEPT ![m.pid] = Tail(m.units)]
  /\ Transmit(m.pid, Head(m.units))
  /\ UNCHANGED <<issue>> /\ UNCHANGED Elsewhere

Send(t) == \E m \in Messages(t, issue[t]) : SendMessage(t, issue[t], m)

Continue(pid) ==
  /\ ~ busy
  /\ sending[pid] # <<>>
  /\ sending' = [sending EXCEPT ![pid] = Tail(@)]
  /\ Transmit(pid, Head(sending[pid]))
  /\ UNCHANGED <<issue>> /\ UNCHANGED Elsewhere

\* the broadcaster issues a table anew
Reissue(t) ==
  /\ ~ busy
  /\ issue[t] < plan.last[t]
  /\ issue' = [issue EXCEPT ![t] = @ + 1]
  /\ UNCHANGED <<sending, net, inRow, bufs, col, st, mpt, tsid, si, dirty>>
  /\ UNCHANGED Elsewhere

\* a section of an earlier issue arrives behind its successors
HearLate(t) ==
  /\ ~ busy
  /\ net.late < plan.late
  /\ net' = [net EXCEPT !.late = @ + 1]
  /\ \E i \in 1..(issue[t] - 1) : \E m \in Messages(t, i) :
       /\ Len(m.units) = 1 /\ ~ m.units[1].agg /\ sending[m.pid] = <<>>
       /\ Hear(m.pid, m.units[1])
  /\ UNCHANGED <<issue, sending, inRow>> /\ UNCHANGED Elsewhere

Next ==
  \/ MuxRound \/ MuxUnit
  \/ \E t \in Tables : Send(t) \/ Reissue(t) \/ HearLate(t)
  \/ \E pid \in PacketIDs : Continue(pid)

Spec == Init /\ [][Next]_vars

-----------------------------------------------------------------------------
(* PA messages have no check sum and their fragments no number: an MPT is    *)
(* applied only whole, unless two payloads of its packet id in a row were    *)
(* lost, the end of one message and the beginning of the next.               *)
MPTWhole == ~ mpt.intact => mpt.lost >= 2

(* The collected version of a table is one that was sent, with all its       *)
(* sections in their order and none of another version, whatever was lost,   *)
(* came late or was replaced halfway; what the state says of a joined table  *)
(* is exactly that, and an EIT has every section of it.                      *)
TablesWhole ==
  \A t \in SiTables : LET set == col.latest[t] IN
    set.have =>
      /\ \E i \in 1..issue[t] : set.sections = Sections(t, i)
      /\ set.sections[1].kind = "joined" =>
           /\ st.joined[t].version = set.version
           /\ st.joined[t].bodies = [k \in 1..Len(set.sections) |-> set.sections[k].body]
      /\ set.sections[1].kind = "keyed" =>
           \A k \in 1..Len(set.sections) :
             st.keyed[<<t, set.sections[k].number>>] = set.sections[k]

(* Receive and the collectors: what is applied of the signalling is what    *)
(* was sent as one message or as one version of a table.                    *)
MessagesWhole == MPTWhole /\ TablesWhole

Collected(t) ==
  IF col.latest[t].have THEN col.latest[t].sections[1].body.issue ELSE 0

(* A table goes back to an earlier issue only when that many of its sections *)
(* came late: nothing that was left of the old version completes it.         *)
NeverRevived ==
  [][\A t \in SiTables :
       Collected(t)' < Collected(t) => Len(Sections(t, Collected(t)')) <= net'.late]_vars

(* A receiver that drops a table with the version it has holds what was      *)
(* written last, for every table and for the PAT, through changes of the     *)
(* content, of the identity and of the tables that are there.  Nothing on    *)
(* the air names the placeholder stream 0 in SI, all SI names the same       *)
(* stream, and a PAT that names another one is replaced at once.             *)
ReceiverSees ==
  /\ \A name \in DOMAIN air : air[name].held = air[name].shown
  /\ \A name \in DOMAIN air \ {"PAT", "TOT"} :
       /\ air[name].shown.tsid = tsid /\ tsid # 0
       /\ ("PAT" \in DOMAIN air /\ air["PAT"].shown.tsid # tsid) => dirty
=============================================================================
