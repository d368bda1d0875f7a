----------------------------- MODULE AccessUnits -----------------------------
(***************************************************************************)
(* auBuilder (remux/aubuild.go): the access units of a video or audio      *)
(* asset put together from its data units.  The index of an access unit    *)
(* in its MPU gives its time, so units are only used ("trusted") while     *)
(* none was lost since the MPU began.                                      *)
(*                                                                         *)
(* A piece of data is a record: "at" is where the sender put it, "is" the  *)
(* set of what the code can see in it.                                     *)
(***************************************************************************)
EXTENDS Integers, Sequences, FiniteSets

Aud(x)      == "aud" \in x.is   \* begins with an access unit delimiter
Irap(x)     == "irap" \in x.is  \* part of a random access picture
ParamSet(x) == "ps" \in x.is    \* a parameter set
Broken(x)   == "bad" \in x.is   \* the codec conversion refuses it

NewBuilder ==
  [ haveMPU |-> FALSE, mpu |-> 0, trusted |-> FALSE, index |-> 0,
    open |-> FALSE, rap |-> FALSE, data |-> <<>> ]

AccessUnit(b) == [mpu |-> b.mpu, index |-> b.index, rap |-> b.rap, data |-> b.data]

\* auBuilder.flush
Flushed(b) == IF b.open THEN <<AccessUnit(b)>> ELSE <<>>

Shut(b) == [b EXCEPT !.open = FALSE]

\* auBuilder.start
Started(b, rap) ==
  [b EXCEPT !.index = @ + 1, !.open = TRUE, !.rap = rap, !.data = <<>>]

\* auBuilder.mpuEnd: the MPU left behind, and how many access units it had
Ended(b) == IF b.haveMPU
            THEN {[mpu |-> b.mpu, count |-> b.index, trusted |-> b.trusted]} ELSE {}

\* mutant: access units are counted on from one MPU to the next
NewMPUCounting(b, mpu) ==
  [Shut(b) EXCEPT !.haveMPU = TRUE, !.mpu = mpu, !.trusted = b.haveMPU]

NewMPU(b, mpu) ==
  [Shut(b) EXCEPT !.haveMPU = TRUE, !.mpu = mpu, !.trusted = b.haveMPU, !.index = 0]

Extended(b, u) == [b EXCEPT !.data = @ \o u.data, !.rap = @ \/ u.rap]

Delimits(kind, u) == kind = "audio" \/ (kind = "video" /\ Aud(u.data[1]))

\* auBuilder.push: the builder, the access units completed, the MPUs ended
PushUnit(kind, b, u) ==
  LET change == ~ b.haveMPU \/ u.mpu # b.mpu
      n      == IF change THEN NewMPU(b, u.mpu) ELSE b
      starts == n.trusted /\ Delimits(kind, u)
      next   == CASE ~ n.trusted -> n
                  [] starts      -> Extended(Started(n, u.rap), u)
                  [] OTHER       -> IF n.open THEN Extended(n, u) ELSE n
  IN  IF u.loss
      THEN [b |-> [Shut(b) EXCEPT !.trusted = FALSE], out |-> <<>>, ended |-> {}]
      ELSE [ b     |-> next,
             out   |-> IF change \/ starts THEN Flushed(b) ELSE <<>>,
             ended |-> IF change THEN Ended(b) ELSE {} ]

\* auBuilder.finish: what is open at the end may not be whole
FinishBuilder(b) ==
  [b |-> [Shut(b) EXCEPT !.haveMPU = FALSE], ended |-> Ended(b)]
-----------------------------------------------------------------------------
(* what the converter does with an access unit (handleAU): its time, the    *)
(* wait for a random access point, the marks it carries to the muxer        *)

\* mtimes: the MPUs whose time and access units an MPT has declared, with
\* how many access units each has; boundedMap forgets the oldest ones
Put(m, limit, k, v) ==
  LET known == {j \in DOMAIN m : m[j].key = k}
      item  == [key |-> k, val |-> v]
  IN  IF known # {} THEN [m EXCEPT ![CHOOSE j \in known : TRUE] = item]
      ELSE Append(IF Len(m) >= limit THEN Tail(m) ELSE m, item)

Has(m, k) == \E j \in DOMAIN m : m[j].key = k
Get(m, k) == m[CHOOSE j \in DOMAIN m : m[j].key = k].val

NewStream ==
  [ awaitIRAP |-> FALSE, sawPS |-> FALSE, disc |-> FALSE, carry |-> 0,
    lastDTS |-> 0, haveDTS |-> FALSE ]

\* mutant: a second loss before the next access unit hides the first
SuffersLast(kind, s, lost) ==
  [s EXCEPT !.carry = lost, !.disc = TRUE, !.awaitIRAP = @ \/ kind = "video"]

\* handleMedia on a loss
Suffers(kind, s, lost) ==
  [s EXCEPT !.carry = @ + lost, !.disc = TRUE, !.awaitIRAP = @ \/ kind = "video"]

Somewhere(T(_), data) == \E k \in DOMAIN data : T(data[k])

\* stream.auTimes gives a time
Timed(mtimes, au) == Has(mtimes, au.mpu) /\ au.index \in 1..Get(mtimes, au.mpu)

Refused(kind, s) == [s EXCEPT !.disc = TRUE, !.awaitIRAP = @ \/ kind = "video"]

\* handleAU: the stream, and the item pushed to the muxer if there is one.
\* dts is the decoding time of an access unit, gap the longest that is no jump
HandleAU(kind, s, mtimes, au, dts, gap, resume) ==
  LET irap == Somewhere(Irap, au.data)
      ps   == s.sawPS \/ Somewhere(ParamSet, au.data)
      seen == [s EXCEPT !.sawPS = ps]
      wait == kind = "video" /\ s.awaitIRAP /\ ~ (irap /\ ps)
      open == [seen EXCEPT !.awaitIRAP = wait]
      jump == s.haveDTS /\ dts - s.lastDTS > gap
  IN  CASE ~ Timed(mtimes, au) -> [s |-> Refused(kind, s), out |-> <<>>]
        [] Timed(mtimes, au) /\ kind = "video" /\ Somewhere(Broken, au.data) ->
             [s |-> Refused(kind, s), out |-> <<>>]
        [] Timed(mtimes, au) /\ ~ (kind = "video" /\ Somewhere(Broken, au.data)) /\ wait /\ ~ resume ->
             [s |-> seen, out |-> <<>>]
        [] OTHER ->
             [ s   |-> [open EXCEPT !.disc = FALSE, !.carry = 0,
                                    !.lastDTS = dts, !.haveDTS = TRUE],
               out |-> << [ mpu   |-> au.mpu, index |-> au.index, data |-> au.data,
                            dts   |-> dts, rap |-> au.rap \/ (kind = "video" /\ irap),
                            disc  |-> s.disc \/ jump, carry |-> s.carry,
                            after |-> s.awaitIRAP /\ wait ] >> ]

\* checkMPU: the access units of an MPU against those the MPT declared
MPUVerdict(mtimes, e) ==
  CASE ~ e.trusted \/ ~ Has(mtimes, e.mpu)                 -> "untrusted"
    [] e.trusted /\ Has(mtimes, e.mpu) /\ e.count = Get(mtimes, e.mpu) -> "match"
    [] OTHER                                               -> "differ"
=============================================================================
