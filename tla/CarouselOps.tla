----------------------------- MODULE CarouselOps -----------------------------
(***************************************************************************)
(* The DSM-CC data carousel of internal/preservation/carousel.go as values *)
(* and operators: a carousel is a record, and Set, Remove and Emit are     *)
(* operators from a carousel to the next one.  Module Carousel makes a     *)
(* state machine of one carousel, module Recorder drives two of them.      *)
(*                                                                         *)
(* A module's bytes (MMTC header and payload) are one abstract value,      *)
(* "stored", compared only for equality.  The directory entry, the cached  *)
(* DDB sections and the byte counters are functions of the module and are  *)
(* left out.                                                               *)
(***************************************************************************)
EXTENDS Integers, FiniteSets, Functions

CONSTANTS
  Versions,      \* how many module versions there are before they wrap (256)
  Transactions,  \* how many DII transaction numbers there are (2^30)
  StaleGuard,    \* a retired (id, version) pair rests this long (10 s)
  DIIInterval,   \* the DII is repeated after this long (0.5 s)
  NeverAgain     \* the due time of a module that is sent once (2^62)

ASSUME CarouselAssumption ==
  /\ Versions \in Nat \ {0}
  /\ Transactions \in Nat \ {0}
  /\ StaleGuard \in Nat
  /\ DIIInterval \in Nat \ {0}
  /\ NeverAgain \in Nat
-----------------------------------------------------------------------------
Nothing == [x \in {} |-> 0]

Put(f, k, v) == [x \in DOMAIN f \cup {k} |-> IF x = k THEN v ELSE f[x]]

Drop(f, k) == Restrict(f, DOMAIN f \ {k})

NewCarousel(budget) ==
  [ budget      |-> budget,        \* maxModules() of the role
    modules     |-> Nothing,       \* id -> module
    retired     |-> Nothing,       \* <<id, version>> -> when it was retired
    lastVersion |-> Nothing,       \* id -> the last version it had
    transaction |-> 0,
    dii         |-> Nothing,       \* id -> version, as the built DII lists them
    diiLast     |-> -DIIInterval,
    dirty       |-> TRUE,
    touched     |-> TRUE ]         \* the revision moved since the bootstraps were refreshed

Has(c, id) == id \in DOMAIN c.modules
-----------------------------------------------------------------------------
(* Set: a changed module gets the next version, and the pair it leaves is  *)
(* retired; a pair retired less than StaleGuard ago must not come back.    *)

Unchanged(c, u) ==
  /\ Has(c, u.id)
  /\ LET m == c.modules[u.id] IN
       /\ m.stored = u.stored
       /\ m.interval = u.interval
       /\ m.retries = u.retries
       /\ m.retryInterval = u.retryInterval
       /\ m.once = u.once

Full(c, u) == ~Has(c, u.id) /\ Cardinality(DOMAIN c.modules) >= c.budget

Successor(v) == (v + 1) % Versions

NextVersion(c, id) ==
  IF Has(c, id) THEN Successor(c.modules[id].version)
  ELSE IF id \in DOMAIN c.lastVersion THEN Successor(c.lastVersion[id])
  ELSE 0

Retire(c, id, t) ==
  IF Has(c, id) THEN Put(c.retired, <<id, c.modules[id].version>>, t) ELSE c.retired

\* mutant: the guard ends a tick early
TooFreshEarly(c, u, t) ==
  LET retired == Retire(c, u.id, t)
      pair    == <<u.id, NextVersion(c, u.id)>>
  IN  pair \in DOMAIN retired /\ t - retired[pair] < StaleGuard - 1

TooFresh(c, u, t) ==
  LET retired == Retire(c, u.id, t)
      pair    == <<u.id, NextVersion(c, u.id)>>
  IN  pair \in DOMAIN retired /\ t - retired[pair] < StaleGuard

NewModule(u, version, t) ==
  [ version |-> version, stored |-> u.stored, interval |-> u.interval,
    retries |-> u.retries, retryInterval |-> u.retryInterval, once |-> u.once,
    priority |-> u.priority, initial |-> t, next |-> t, sent |-> 0 ]

Installed(c, u, t) ==
  LET version == NextVersion(c, u.id) IN
  [c EXCEPT !.modules     = Put(@, u.id, NewModule(u, version, t)),
            !.retired     = Drop(Retire(c, u.id, t), <<u.id, version>>),
            !.lastVersion = Put(@, u.id, version),
            !.dirty       = TRUE,
            !.touched     = TRUE]

SetFails(c, u, t) == Full(c, u) \/ (~Unchanged(c, u) /\ TooFresh(c, u, t))

AfterSet(c, u, t) == IF Unchanged(c, u) THEN c ELSE Installed(c, u, t)

AfterRemove(c, id, t) ==
  IF ~Has(c, id) THEN c
  ELSE [c EXCEPT !.modules  = Drop(@, id),
                 !.retired  = Retire(c, id, t),
                 !.dirty    = TRUE,
                 !.touched  = TRUE]
-----------------------------------------------------------------------------
(* Emit: a changed directory is announced by a new DII first, then every   *)
(* module that is due is sent.                                             *)

\* mutant: the new DII is not sent at once
RebuiltQuietly(c, t) ==
  IF ~c.dirty THEN c
  ELSE [c EXCEPT !.transaction = (@ + 1) % Transactions,
                 !.dii         = [id \in DOMAIN c.modules |-> c.modules[id].version],
                 !.dirty       = FALSE]

Rebuilt(c, t) ==
  IF ~c.dirty THEN c
  ELSE [c EXCEPT !.transaction = (@ + 1) % Transactions,
                 !.dii         = [id \in DOMAIN c.modules |-> c.modules[id].version],
                 !.dirty       = FALSE,
                 !.diiLast     = t - DIIInterval]

DIIDue(c, t) == DOMAIN c.modules # {} /\ t - c.diiLast >= DIIInterval

\* mutant: a module is due only after its time
DueAfter(c, t) == {id \in DOMAIN c.modules : t > c.modules[id].next}

Due(c, t) == {id \in DOMAIN c.modules : t >= c.modules[id].next}

\* mutant: the cycle starts a retry interval late
NextDueLate(m, sent, t) ==
  IF m.once THEN NeverAgain
  ELSE IF sent <= m.retries THEN t + m.retryInterval
  ELSE IF sent = m.retries + 1 THEN t + m.retryInterval + m.interval
  ELSE t + m.interval

\* when a module sent for the sent-th time at t is due again
NextDue(m, sent, t) ==
  IF m.once THEN NeverAgain
  ELSE IF sent <= m.retries THEN t + m.retryInterval
  ELSE IF sent = m.retries + 1 /\ m.initial + m.interval > t THEN m.initial + m.interval
  ELSE t + m.interval

\* sent is only compared with retries + 1: the count stops at retries + 2
Sent(m, t) ==
  LET sent == IF m.sent > m.retries THEN m.retries + 2 ELSE m.sent + 1 IN
  [m EXCEPT !.sent = sent, !.next = NextDue(m, sent, t)]

AfterEmit(c, t) ==
  LET r == Rebuilt(c, t) IN
  [r EXCEPT !.diiLast = IF DIIDue(r, t) THEN t ELSE @,
            !.modules = [id \in DOMAIN r.modules |->
                           IF id \in Due(r, t) THEN Sent(r.modules[id], t)
                           ELSE r.modules[id]]]
=============================================================================
