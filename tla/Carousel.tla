------------------------------- MODULE Carousel -------------------------------
(***************************************************************************)
(* One carousel on the air: the converter's updates, the emissions and the *)
(* muxer's clock.  The recorder changes modules and emits them at one      *)
(* reading of the clock (Recorder.Emit, and Finish with writeCarousel), so *)
(* the clock only moves when nothing is waiting to be announced.           *)
(*                                                                         *)
(* The clock is the muxer's: it follows the dispatched units, so a unit    *)
(* older than the last one sets it back, and so does the first unit, which *)
(* starts a new axis at 0 after the idle emissions that ran on the NTP     *)
(* axis.  "real" is elapsed time, which only the properties use.           *)
(***************************************************************************)
EXTENDS CarouselOps

CONSTANTS
  Updates,      \* the updates the converter may ask for
  Budget,       \* the most modules the carousel holds
  MaxCalls,     \* bound: how many updates and removals are asked for
  MaxReal,      \* bound: elapsed time
  MaxSetbacks   \* bound: how often the clock is set back

Ids == {u.id : u \in Updates}

Contents == {u.stored : u \in Updates}

\* the recorder's cyclic updates have an interval, ObjectInterval, DIIInterval or
\* SegmentInterval
ASSUME UpdatesAssumption ==
  \A u \in Updates : /\ {u.interval, u.retries, u.retryInterval} \subseteq Nat
                     /\ u.once \in BOOLEAN
                     /\ ~u.once => u.interval > 0

\* the clock never comes to neverAgain, 2^62 ticks of 90 kHz
ASSUME BoundAssumption ==
  /\ {Budget, MaxCalls, MaxReal, MaxSetbacks} \subseteq Nat
  /\ MaxReal < NeverAgain

VARIABLES
  carousel,
  now,        \* the muxer's clock
  failed,     \* an error was returned: the conversion is over
  calls,      \* how many updates and removals were asked for
  real,       \* elapsed time
  setbacks,   \* how often the clock was set back
  heard,      \* <<id, version>> -> the bytes last on the air under it, and when
  announced   \* the last DII on the air, and when

vars == <<carousel, now, failed, calls, real, setbacks, heard, announced>>
-----------------------------------------------------------------------------
Init ==
  /\ carousel = NewCarousel(Budget)
  /\ now = 0
  /\ failed = FALSE
  /\ calls = 0
  /\ real = 0
  /\ setbacks = 0
  /\ heard = Nothing
  /\ announced = [dii |-> Nothing, at |-> 0]

Call == calls < MaxCalls /\ calls' = calls + 1

Set(u) ==
  /\ ~failed /\ Call
  /\ ~SetFails(carousel, u, now)
  /\ carousel' = AfterSet(carousel, u, now)
  /\ UNCHANGED <<now, failed, real, setbacks, heard, announced>>

\* the error ends the conversion, so what Set had already changed is never seen
SetRefused(u) ==
  /\ ~failed /\ Call
  /\ SetFails(carousel, u, now)
  /\ failed' = TRUE
  /\ UNCHANGED <<carousel, now, real, setbacks, heard, announced>>

Remove(id) ==
  /\ ~failed /\ Call
  /\ carousel' = AfterRemove(carousel, id, now)
  /\ UNCHANGED <<now, failed, real, setbacks, heard, announced>>

\* what the due modules put on the air
Aired(c, t) ==
  LET sent == {<<id, c.modules[id].version>> : id \in Due(c, t)} IN
  [k \in DOMAIN heard \cup sent |->
     IF k \in sent THEN [stored |-> c.modules[k[1]].stored, at |-> real] ELSE heard[k]]

Emit ==
  /\ ~failed
  /\ LET r == Rebuilt(carousel, now) IN
       /\ announced' = IF DIIDue(r, now) THEN [dii |-> r.dii, at |-> real] ELSE announced
       /\ heard' = Aired(r, now)
  /\ carousel' = AfterEmit(carousel, now)
  /\ UNCHANGED <<now, failed, calls, real, setbacks>>

Tick ==
  /\ ~failed /\ ~carousel.dirty
  /\ real < MaxReal
  /\ now' = now + 1
  /\ real' = real + 1
  /\ UNCHANGED <<carousel, failed, calls, setbacks, heard, announced>>

SetBack(t) ==
  /\ ~failed /\ ~carousel.dirty
  /\ setbacks < MaxSetbacks
  /\ t < now
  /\ now' = t
  /\ setbacks' = setbacks + 1
  /\ UNCHANGED <<carousel, failed, calls, real, heard, announced>>

Next ==
  \/ \E u \in Updates : Set(u) \/ SetRefused(u)
  \/ \E id \in Ids : Remove(id)
  \/ Emit
  \/ Tick
  \/ \E t \in 0 .. MaxReal : SetBack(t)

Spec == Init /\ [][Next]_vars
-----------------------------------------------------------------------------
Module ==
  [ version : 0 .. Versions - 1, stored : Contents, interval : Nat, retries : Nat,
    retryInterval : Nat, once : BOOLEAN, priority : {u.priority : u \in Updates},
    initial : Int, next : Int, sent : Nat ]

Pairs == Ids \X (0 .. Versions - 1)

\* f maps some of the members of S into T
PartialFunction(f, S, T) ==
  /\ DOMAIN f \subseteq S
  /\ f = [x \in DOMAIN f |-> f[x]]
  /\ \A x \in DOMAIN f : f[x] \in T

CarouselType(c) ==
  /\ c = [ budget |-> c.budget, modules |-> c.modules, retired |-> c.retired,
           lastVersion |-> c.lastVersion, transaction |-> c.transaction,
           dii |-> c.dii, diiLast |-> c.diiLast, dirty |-> c.dirty, touched |-> c.touched ]
  /\ PartialFunction(c.modules, Ids, Module)
  /\ PartialFunction(c.retired, Pairs, Int)
  /\ PartialFunction(c.lastVersion, Ids, 0 .. Versions - 1)
  /\ PartialFunction(c.dii, Ids, 0 .. Versions - 1)
  /\ c.budget \in Nat
  /\ c.transaction \in 0 .. Transactions - 1
  /\ c.diiLast \in Int
  /\ c.dirty \in BOOLEAN /\ c.touched \in BOOLEAN

(* Type invariant of the carousel, the clock and the history.              *)
TypeOK ==
  /\ CarouselType(carousel)
  /\ now \in Nat /\ calls \in Nat /\ real \in Nat /\ setbacks \in Nat
  /\ failed \in BOOLEAN
  /\ PartialFunction(heard, Pairs, [stored : Contents, at : Nat])
  /\ PartialFunction(announced.dii, Ids, 0 .. Versions - 1)
  /\ announced = [dii |-> announced.dii, at |-> announced.at]
  /\ announced.at \in Nat

(* Set and Remove: versions wrap, modules come and go, and the clock is    *)
(* set back, yet a receiver that still holds a module heard under          *)
(* (id, version) less than StaleGuard ago never hears other bytes under    *)
(* the same pair.                                                          *)
FreshVersions ==
  [][\A k \in DOMAIN heard :
       heard'[k].stored # heard[k].stored => real' - heard[k].at >= StaleGuard]_vars

(* Emit: blocks are only sent under a (id, version) that the last DII on   *)
(* the air lists, although the directory changed since the DII before.     *)
AnnouncedBeforeSent ==
  [][\A k \in DOMAIN heard' :
       (k \notin DOMAIN heard \/ heard'[k] # heard[k]) =>
         k[1] \in DOMAIN announced'.dii /\ announced'.dii[k[1]] = k[2]]_vars

(* Emit and the clock: once nothing waits to be announced, every module    *)
(* the carousel holds has been on the air with its present bytes under its *)
(* present version, whatever the clock did.                                *)
HeldIsHeard ==
  ~carousel.dirty =>
    \A id \in DOMAIN carousel.modules :
      LET m == carousel.modules[id]
          k == <<id, m.version>>
      IN  k \in DOMAIN heard /\ heard[k].stored = m.stored

(* The longest a module that is repeated may be off the air.               *)
Pause(m) == IF m.interval > m.retryInterval THEN m.interval ELSE m.retryInterval

(* Emit's schedule (fast retries, then the cycle aligned to the first      *)
(* sending): when the carousel was emitted at this reading of a clock that *)
(* was never set back, no repeated module has been off the air for longer  *)
(* than its interval, and the DII not for longer than DIIInterval; and a   *)
(* module that is sent once is heard at one time only, whatever the clock. *)
RepeatedOnTime ==
  [][Emit =>
       /\ \A id \in DOMAIN carousel.modules :
            LET m == carousel.modules[id]
                k == <<id, m.version>>
            IN  (m.once /\ m.sent > 0) => heard'[k] = heard[k]
       /\ setbacks = 0 =>
            /\ \A id \in DOMAIN carousel'.modules :
                 LET m == carousel'.modules[id] IN
                 ~m.once => real - heard'[<<id, m.version>>].at < Pause(m)
            /\ DOMAIN carousel'.modules # {} => real - announced'.at < DIIInterval]_vars
=============================================================================
