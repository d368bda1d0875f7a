------------------------------ MODULE MCTlvPath ------------------------------
(* Plans for TlvPath: end points that share a context one after another,     *)
(* fragments out of order, doubled, of two datagrams at once and under one   *)
(* id, more datagrams at a time than are collected, data that looks like a   *)
(* sync byte.                                                                *)
EXTENDS TlvPath

Mmtp(type, n) == [k |-> "mmtp", type |-> type, fec |-> IF type = "repair" THEN 2 ELSE 0, n |-> n]
Data(n, i) == [k |-> "data", n |-> n, i |-> i]
SyncByte(n) == [k |-> "data", n |-> n, b |-> Sync]

\* two with the same addresses, one with others, and a clock
EndA == [addr |-> "A", port |-> 1]
EndB == [addr |-> "A", port |-> 2]
EndC == [addr |-> "B", port |-> 2]
EndNtp == [addr |-> "A", port |-> NtpPort]

MCDatagrams ==
  << [endpoint |-> EndA, data |-> << Mmtp("media", 1), Data(1, 1) >>],
     [endpoint |-> EndB, data |-> << Mmtp("signalling", 2), Data(2, 1) >>],
     [endpoint |-> EndA, data |-> << Mmtp("media", 3), Data(3, 1), Data(3, 2) >>],
     [endpoint |-> EndA, data |-> << Mmtp("media", 4), Data(4, 1), Data(4, 2) >>],
     [endpoint |-> EndNtp, data |-> << [k |-> "ntp", time |-> 9] >>],
     [endpoint |-> EndB, data |-> << Mmtp("media", 6), SyncByte(6), Data(6, 2) >>],
     [endpoint |-> EndA, data |-> << Mmtp("repair", 7) >>],
     [endpoint |-> EndC, data |-> << [Mmtp("media", 8) EXCEPT !.fec = 3] >>] >>

Whole(form, d) == [form |-> form, d |-> d]
Flow(form, d, cid) == [form |-> form, d |-> d, cid |-> cid]
Part(form, d, id, from, to) == [form |-> form, d |-> d, id |-> id, from |-> from, to |-> to]
Nit(actual, network) == [form |-> "control", actual |-> actual, network |-> network]

MCPlans ==
  { \* contexts that change hands
    << Flow("full", 1, 1), Flow("bare", 3, 1), Flow("full", 2, 1), Flow("bare", 6, 1), Flow("bare", 2, 1) >>,
    << Flow("full", 1, 1), Flow("full", 2, 2), Flow("bare", 4, 1), Flow("bare", 2, 2), Whole("ip6", 1) >>,
    \* fragments of two datagrams, out of order, one of them doubled
    << Part("frag4", 3, 5, 3, 4), Part("frag4", 4, 6, 1, 2), Part("frag4", 3, 5, 1, 2),
       Part("frag4", 4, 6, 1, 2), Part("frag4", 4, 6, 3, 4) >>,
    \* three at once, and overlapping fragments
    << Part("frag6", 3, 5, 1, 2), Part("frag6", 4, 6, 2, 4), Part("frag4", 2, 7, 1, 2),
       Part("frag6", 3, 5, 2, 4), Part("frag6", 4, 6, 1, 2), Part("frag4", 2, 7, 3, 3) >>,
    \* an id that is used again
    << Part("frag4", 3, 5, 1, 2), Part("frag4", 3, 5, 3, 4), Part("frag4", 4, 5, 1, 2),
       Part("frag4", 4, 5, 3, 4) >>,
    \* the rest, with data that looks like a sync byte
    << Whole("ip4", 6), [form |-> "null"], Whole("ip6", 6), Nit(TRUE, 4), Whole("ip4", 5),
       Nit(FALSE, 5), Whole("ip4", 7), Whole("ip4", 8) >> }
=============================================================================
