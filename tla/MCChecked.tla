----------------------------- MODULE MCChecked ------------------------------
(* Bounds for Checked: units of one packet and of several, a PES too long   *)
(* to declare its length, losses up to the counter's range.  Records,       *)
(* objects and units beyond the first are taken one kind at a time.         *)
EXTENDS Checked

\* objects of one and of several modules, one of them replaced
MCObjects == {<<1, <<"p", "q", "r">>>>, <<1, <<"s">>>>}

MCStreams == [pid \in {"video", "audio"} |-> pid]

MCPIDs == {"pat", "pmt", "realtime", "object", "video", "audio"}

MCUnits == {<<"video", 6, 0>>, <<"video", 2, 1>>, <<"audio", 3, 0>>}

MCLongAgo == -1000

None == {}

OneKindOfInput ==
  \/ units <= 1 /\ (records = 0 \/ changes = 0)
  \/ records + changes = 0
=============================================================================
