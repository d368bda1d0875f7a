---------------------------- MODULE MCRestoration ----------------------------
(* Bounds for Restoration: records so large that two of them make a second   *)
(* part, objects that share modules and are replaced by smaller ones.        *)
EXTENDS Restoration

\* objects of one and of several units, one of them replaced by a smaller one;
\* two of them are more than fit
MCObjects == {<<1, <<"p", "q", "r">>>>, <<1, <<"s">>>>, <<2, <<"t", "u">>>>}

MCBulk == {<<2, FALSE>>}

MCLongAgo == -1000

MCConfigs == {<<1, "c">>}

None == {}

\* segments and entries with two disturbances, or objects and configurations
\* over more time with one
OneKindOfInput ==
  \/ changes = 0 /\ now <= 1
  \/ records = 0 /\ entries = 0 /\ bursts <= 1
=============================================================================
