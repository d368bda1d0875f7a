------------------------------- MODULE TsDemux -------------------------------
(***************************************************************************)
(* tsdemux.Demuxer: PES packets and sections out of the packets of a       *)
(* transport stream, one state per PID.                                    *)
(*                                                                         *)
(* A packet is [pid, cc, carries, disc, clear, start, rap, tail, rest,     *)
(* pes]: carries that it has a payload, disc that it announces a           *)
(* discontinuity, clear that it is not scrambled.  The bytes of a PES are  *)
(* units, those of a section pieces [of, n, most] (Signalling).  On        *)
(* a PID of sections tail is what stands before the pointer and rest the   *)
(* sections that begin behind it; on others pes is the header of the PES   *)
(* that starts and rest its first units.                                   *)
(***************************************************************************)
EXTENDS Integers, Sequences

LOCAL INSTANCE SequencesExt

CONSTANTS
  TsPIDs,      \* the PIDs, without that of null packets
  FixedSIPIDs, \* those that always carry sections
  PATPID,
  CcRange      \* the continuity counter counts modulo this

None == -1

NoHeader == [ok |-> FALSE, id |-> 0, pts |-> None, dts |-> None, declared |-> 0, rap |-> FALSE,
             lost |-> 0]

NewPid(pid) ==
  [ isSection |-> pid \in FixedSIPIDs, isPMT |-> FALSE, streamType |-> "none",
    section |-> <<>>, sectionLen |-> 0, cc |-> None, lost |-> 0,
    open |-> FALSE, pes |-> NoHeader, body |-> <<>> ]

NewDemuxer ==
  [ pids |-> [pid \in TsPIDs |-> NewPid(pid)], lost |-> [pid \in TsPIDs |-> 0],
    scrambled |-> [pid \in TsPIDs |-> 0], got |-> <<>> ]

Emitted(d, x) == [d EXCEPT !.got = Append(@, x)]
-----------------------------------------------------------------------------
\* pidState.continuity: the packets missing before p
Continuity(st, p) ==
  IF st.cc = None \/ p.disc \/ ~ p.carries \/ p.cc = st.cc THEN 0
  ELSE (p.cc - st.cc - 1) % CcRange
-----------------------------------------------------------------------------
\* a PID becomes one of sections and is never anything else again
AsSection(d, pid, pmt) ==
  [d EXCEPT !.pids[pid].isSection = TRUE, !.pids[pid].isPMT = @ \/ pmt]

\* Demuxer.pat
Pat(d, table) == FoldSeq(LAMBDA pid, acc : AsSection(acc, pid, TRUE), d, table.pmts)

\* Demuxer.pmt: table.streams are records [type, pid, ...]
Pmt(d, pid, table) ==
  LET Stream(s, acc) ==
        LET typed == [acc EXCEPT !.pids[s.pid].streamType = s.type]
        IN  IF s.type = "dsmcc" THEN AsSection(typed, s.pid, FALSE) ELSE typed
  IN  Emitted(FoldSeq(Stream, d, table.streams), [what |-> "pmt", pid |-> pid, table |-> table])

\* the CRC: the bytes of one section, all of them
IntactSection(b) == \A k \in 1..Len(b) : b[k].of = b[1].of /\ b[k].n = k

\* Demuxer.table
Table(d, pid, b) ==
  LET table == b[1].of IN
  CASE ~ IntactSection(b) -> d
    [] IntactSection(b) /\ pid = PATPID /\ table.id = "PAT" -> Pat(d, table)
    [] IntactSection(b) /\ d.pids[pid].isPMT /\ table.id = "PMT" -> Pmt(d, pid, table)
    [] OTHER -> Emitted(d, [what |-> "section", pid |-> pid, table |-> table])

Kept(d, pid, bytes, length) ==
  [d EXCEPT !.pids[pid].section = bytes, !.pids[pid].sectionLen = length]

\* Demuxer.sectionContinue
SectionContinue(d, pid, bytes) ==
  LET st   == d.pids[pid]
      need == st.sectionLen - Len(st.section)
      all  == st.section \o SubSeq(bytes, 1, IF need < Len(bytes) THEN need ELSE Len(bytes))
  IN  IF st.sectionLen = 0 \/ bytes = <<>> THEN d
      ELSE IF Len(all) < st.sectionLen THEN Kept(d, pid, all, st.sectionLen)
      ELSE Table(Kept(d, pid, <<>>, 0), pid, all)

\* Demuxer.section behind the pointer: whole sections, then the beginning of
\* one, or stuffing
SectionsBegun(d, pid, bytes) ==
  LET From[p \in 1..(Len(bytes) + 1)] ==     \* what the bytes from p on lead to
        LET left == SubSeq(bytes, p, Len(bytes))
        IN  IF left = <<>> THEN [whole |-> <<>>, left |-> <<>>, length |-> 0]
            ELSE IF left[1].most > Len(left)
            THEN [whole |-> <<>>, left |-> left, length |-> left[1].most]
            ELSE LET r == From[p + left[1].most]
                 IN  [r EXCEPT !.whole = << SubSeq(left, 1, left[1].most) >> \o @]
      read == From[1]
      done == FoldLeft(LAMBDA acc, b : Table(acc, pid, b), d, read.whole)
  IN  Kept(done, pid, read.left, read.length)

PushSection(d, p) ==
  IF ~ p.start THEN SectionContinue(d, p.pid, p.rest)
  ELSE SectionsBegun(Kept(SectionContinue(d, p.pid, p.tail), p.pid, <<>>, 0), p.pid, p.rest)
-----------------------------------------------------------------------------
\* Demuxer.closePES
ClosePES(d, pid) ==
  LET st == d.pids[pid] IN
  IF ~ st.open THEN d
  ELSE Emitted([d EXCEPT !.pids[pid].open = FALSE, !.pids[pid].body = <<>>],
               [what |-> "pes", pid |-> pid, pes |-> st.pes, body |-> st.body])

\* Demuxer.fullPES
FullPES(d, pid) ==
  LET st == d.pids[pid]
      n  == st.pes.declared
  IN  IF n > 0 /\ Len(st.body) >= n
      THEN ClosePES([d EXCEPT !.pids[pid].body = SubSeq(@, 1, n)], pid) ELSE d

\* mutant: the losses before a PES stay with the ones to come
StartedPESCounting(st, p) ==
  [st EXCEPT !.open = TRUE, !.body = p.rest, !.pes = [p.pes EXCEPT !.rap = p.rap, !.lost = st.lost]]

\* Demuxer.pes, the packet that starts one: the losses so far are its own
StartedPES(st, p) ==
  [st EXCEPT !.lost = 0, !.open = TRUE, !.body = p.rest,
             !.pes = [p.pes EXCEPT !.rap = p.rap, !.lost = st.lost]]

\* Demuxer.pes; without a proper header nothing starts
PushPES(d, p) ==
  IF p.start
  THEN LET closed == ClosePES(d, p.pid)
       IN  IF ~ p.pes.ok THEN closed
           ELSE FullPES([closed EXCEPT !.pids[p.pid] = StartedPES(@, p)], p.pid)
  ELSE IF d.pids[p.pid].open
  THEN FullPES([d EXCEPT !.pids[p.pid].body = @ \o p.rest], p.pid)
  ELSE d
-----------------------------------------------------------------------------
\* Demuxer.Push: the demuxer, with what it hands on in got
PushTs(d, p) ==
  LET lost == Continuity(d.pids[p.pid], p)
      seen == [d EXCEPT !.got = <<>>, !.pids[p.pid].cc = p.cc, !.pids[p.pid].lost = @ + lost,
                        !.lost[p.pid] = @ + lost]
  IN  CASE ~ p.carries -> seen
        [] p.carries /\ ~ p.clear -> [seen EXCEPT !.scrambled[p.pid] = @ + 1]
        [] OTHER -> IF seen.pids[p.pid].isSection THEN PushSection(seen, p) ELSE PushPES(seen, p)

\* Demuxer.Flush
FlushTs(d) ==
  FoldSet(LAMBDA pid, acc : ClosePES(acc, pid), [d EXCEPT !.got = <<>>], TsPIDs)
=============================================================================
