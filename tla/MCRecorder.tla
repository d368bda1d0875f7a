----------------------------- MODULE MCRecorder -----------------------------
(* Bounds for Recorder.  The proportions of the code are kept: the repeat   *)
(* window (3) is smaller than the ring (4), a jump of the NTP that is no    *)
(* new epoch spans several segments, a short segment is half a long one.    *)
EXTENDS Recorder

ASSUME MCPunctual == Punctual

\* one that fits the object carousel, and one that does not
MCObjects == {<<1, <<"p", "q", "r">>>>, <<2, <<"s", "t", "u", "v", "w">>>>}

MCSteps == {0, 2, 4, 7, -1, -3}

MCSkews == {-2, 1, 2}

MCBulk == {<<2, TRUE>>}

MCConfigs == {<<1, "c">>, <<1, "d">>}

MCLongAgo == -1000

\* many records with nothing beside them and no time between the emissions;
\* or a few records, with AV map entries that may wait for their interval; or
\* with configurations, objects and the first scrambled packet
OneKindOfInput ==
  \/ entries = 0 /\ changes = 0 /\ now = 0 /\ rec.duration = LongDuration
  \/ records <= 3 /\ changes = 0 /\ rec.duration = LongDuration
  \/ records <= 2
=============================================================================
