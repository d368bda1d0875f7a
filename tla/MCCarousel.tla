----------------------------- MODULE MCCarousel -----------------------------
(* Bounds for Carousel: two module ids with a cyclic schedule (one fast      *)
(* retry, then a cycle) and a schedule that sends once, two contents,        *)
(* few enough versions that they wrap.                                       *)
EXTENDS Carousel

CONSTANTS a, b, x, y

Cyclic(id, stored) ==
  [id |-> id, stored |-> stored, interval |-> 2, retries |-> 1, retryInterval |-> 1,
   once |-> FALSE, priority |-> 0]

SentOnce(id, stored) ==
  [id |-> id, stored |-> stored, interval |-> 2, retries |-> 1, retryInterval |-> 1,
   once |-> TRUE, priority |-> 0]

MCUpdates == {Cyclic(a, x), Cyclic(a, y), SentOnce(b, x)}
=============================================================================
