---------------------------- MODULE RecorderFacts ----------------------------
(***************************************************************************)
(* What the operations of the preservation recorder do to it, for every    *)
(* value of the constants: the carousel (Set, Remove, Emit), the           *)
(* installations of an emission (installPending, installLosses,            *)
(* installAVMap, commitObjects, refreshBootstraps), the updates of a       *)
(* closed segment (closeSegment) and the closing of several.               *)
(***************************************************************************)
EXTENDS Recorder, FiniteSetTheorems, TLAPS

Fields == DOMAIN NewRecorder

CarouselFields == DOMAIN NewCarousel(0)

\* the components of a recorder but these
Same(r, q, fields) == DOMAIN q = DOMAIN r /\ \A f \in DOMAIN r \ fields : q[f] = r[f]
-----------------------------------------------------------------------------
(* What Set, Remove and Emit do to a carousel.                             *)

Shape(c) ==
  /\ DOMAIN c = CarouselFields
  /\ IsFiniteSet(DOMAIN c.modules)
  /\ \A id \in DOMAIN c.modules : "stored" \in DOMAIN c.modules[id]

\* what a receiver has of a module, by its kind
HeardIn(h, id, stored) ==
  /\ id[1] = "timed" => IDs(stored.records) \subseteq h.records
  /\ id[1] = "loss"  => UNION {e.missing : e \in Range(stored.entries)} \subseteq h.losses
  /\ id[1] = "avmap" => stored.entries \subseteq h.entries

\* a module was on the air, or is at the next emission
Fresh(h, c, t) ==
  \A id \in DOMAIN c.modules :
    HeardIn(h, id, c.modules[id].stored) \/ t >= c.modules[id].next

\* d is c with one module set
SetOne(c, d, id, stored) ==
  /\ DOMAIN d.modules = DOMAIN c.modules \cup {id}
  /\ d.modules[id].stored = stored
  /\ \A i \in DOMAIN c.modules \ {id} : d.modules[i] = c.modules[i]

\* d is c with one module removed
RemoveOne(c, d, id) ==
  /\ DOMAIN d.modules = DOMAIN c.modules \ {id}
  /\ \A i \in DOMAIN d.modules : d.modules[i] = c.modules[i]

LEMMA SetFacts ==
  ASSUME NEW c, Shape(c), NEW u, NEW t \in Int
  PROVE  /\ Shape(AfterSet(c, u, t))
         /\ SetOne(c, AfterSet(c, u, t), u.id, u.stored)
         /\ \A h : Fresh(h, c, t) => Fresh(h, AfterSet(c, u, t), t)
<1>1. CASE Unchanged(c, u)
  <2>1. AfterSet(c, u, t) = c
    BY <1>1 DEF AfterSet
  <2>2. SetOne(c, c, u.id, u.stored)
    BY <1>1 DEF Unchanged, Has, SetOne
  <2>3. QED BY <2>1, <2>2
<1>2. CASE ~ Unchanged(c, u)
  <2>1. PICK v : v = NextVersion(c, u.id)
    OBVIOUS
  <2>2. PICK m : m = NewModule(u, v, t)
    OBVIOUS
  <2>3. PICK d : d = AfterSet(c, u, t)
    OBVIOUS
  <2>4. DOMAIN d = CarouselFields /\ d.modules = Put(c.modules, u.id, m)
    BY <1>2, <2>1, <2>2, <2>3 DEF AfterSet, Installed, Shape, CarouselFields, NewCarousel
  <2>5. DOMAIN d.modules = DOMAIN c.modules \cup {u.id}
    BY <2>4 DEF Put
  <2>6. IsFiniteSet(DOMAIN d.modules)
    BY <2>5, FS_AddElement DEF Shape
  <2>7. d.modules[u.id] = m /\ m.stored = u.stored /\ m.next = t /\ "stored" \in DOMAIN m
    BY <2>2, <2>4 DEF Put, NewModule
  <2>8. \A i \in DOMAIN c.modules \ {u.id} : d.modules[i] = c.modules[i]
    BY <2>4 DEF Put
  <2>9. ASSUME NEW h, Fresh(h, c, t) PROVE Fresh(h, d, t)
    <3>1. SUFFICES ASSUME NEW id \in DOMAIN d.modules
                   PROVE  HeardIn(h, id, d.modules[id].stored) \/ t >= d.modules[id].next
      BY DEF Fresh
    <3>2. CASE id = u.id
      BY <2>7, <3>2
    <3>3. CASE id # u.id
      BY <2>5, <2>8, <2>9, <3>3 DEF Fresh
    <3>4. QED BY <3>2, <3>3
  <2>10. Shape(d)
    BY <2>4, <2>5, <2>6, <2>7, <2>8 DEF Shape
  <2>11. QED BY <2>3, <2>5, <2>7, <2>8, <2>9, <2>10 DEF SetOne
<1>3. QED BY <1>1, <1>2

LEMMA RemoveFacts ==
  ASSUME NEW c, Shape(c), NEW id, NEW t
  PROVE  /\ Shape(AfterRemove(c, id, t))
         /\ RemoveOne(c, AfterRemove(c, id, t), id)
         /\ \A h : Fresh(h, c, t) => Fresh(h, AfterRemove(c, id, t), t)
<1>1. PICK d : d = AfterRemove(c, id, t)
  OBVIOUS
<1>2. CASE ~ Has(c, id)
  <2>1. d = c
    BY <1>1, <1>2 DEF AfterRemove
  <2>2. QED BY <1>1, <1>2, <2>1 DEF Has, RemoveOne
<1>3. CASE Has(c, id)
  <2>1. DOMAIN d = CarouselFields /\ d.modules = Drop(c.modules, id)
    BY <1>1, <1>3 DEF AfterRemove, Shape, CarouselFields, NewCarousel
  <2>2. RemoveOne(c, d, id)
    BY <2>1 DEF Drop, Restrict, RemoveOne
  <2>3. IsFiniteSet(DOMAIN d.modules)
    BY <2>2, FS_Subset DEF Shape, RemoveOne
  <2>4. \A h : Fresh(h, c, t) => Fresh(h, d, t)
    BY <2>2 DEF Fresh, RemoveOne
  <2>5. Shape(d)
    BY <2>1, <2>2, <2>3 DEF Shape, RemoveOne
  <2>6. QED BY <1>1, <2>2, <2>4, <2>5
<1>4. QED BY <1>2, <1>3

\* an emission keeps the modules; h is what a receiver has after it
LEMMA EmitFacts ==
  ASSUME NEW c, Shape(c), NEW t
  PROVE  /\ Shape(AfterEmit(c, t))
         /\ DOMAIN AfterEmit(c, t).modules = DOMAIN c.modules
         /\ \A id \in DOMAIN c.modules : AfterEmit(c, t).modules[id].stored = c.modules[id].stored
<1>1. PICK b : b = Rebuilt(c, t)
  OBVIOUS
<1>2. DOMAIN b = CarouselFields /\ b.modules = c.modules
  BY <1>1 DEF Rebuilt, Shape, CarouselFields, NewCarousel
<1>3. PICK d : d = AfterEmit(c, t)
  OBVIOUS
<1>4. /\ DOMAIN d = CarouselFields
      /\ d.modules = [id \in DOMAIN b.modules |->
                        IF id \in Due(b, t) THEN Sent(b.modules[id], t) ELSE b.modules[id]]
  BY <1>1, <1>2, <1>3 DEF AfterEmit, CarouselFields, NewCarousel
<1>5. DOMAIN d.modules = DOMAIN c.modules
  BY <1>2, <1>4
<1>6. ASSUME NEW id \in DOMAIN c.modules
      PROVE  d.modules[id].stored = c.modules[id].stored /\ "stored" \in DOMAIN d.modules[id]
  <2>1. PICK m : m = c.modules[id]
    OBVIOUS
  <2>2. "stored" \in DOMAIN m
    BY <2>1 DEF Shape
  <2>3. Sent(m, t).stored = m.stored /\ "stored" \in DOMAIN Sent(m, t)
    BY <2>2 DEF Sent
  <2>4. d.modules[id] = m \/ d.modules[id] = Sent(m, t)
    BY <1>2, <1>4, <2>1
  <2>5. QED BY <2>1, <2>2, <2>3, <2>4
<1>7. QED BY <1>3, <1>4, <1>5, <1>6 DEF Shape

\* r installed: an emission tells a receiver what it did not have
LEMMA HearsFacts ==
  ASSUME NEW c, NEW t, NEW h, h = heard, Fresh(h, c, t)
  PROVE  /\ \A id \in DOMAIN c.modules : HeardIn(Hears(c, t), id, c.modules[id].stored)
         /\ h.records \subseteq Hears(c, t).records
         /\ h.losses \subseteq Hears(c, t).losses
         /\ h.entries \subseteq Hears(c, t).entries
<1>1. PICK g : g = Hears(c, t)
  OBVIOUS
<1> DEFINE timed == OfKind(c, Due(c, t), "timed")
           reports == OfKind(c, Due(c, t), "loss")
           maps == OfKind(c, Due(c, t), "avmap")
<1>2. /\ g.records = h.records \cup {x.id : x \in UNION {Range(m.records) : m \in timed}}
      /\ g.losses = h.losses \cup UNION {e.missing : e \in UNION {Range(m.entries) : m \in reports}}
      /\ g.entries = h.entries \cup UNION {m.entries : m \in maps}
  BY <1>1 DEF Hears
<1>3. \A id \in DOMAIN c.modules : \A k : id[1] = k /\ t >= c.modules[id].next =>
         c.modules[id].stored \in OfKind(c, Due(c, t), k)
  BY DEF OfKind, Due
<1> HIDE DEF timed, reports, maps
<1>4. ASSUME NEW id \in DOMAIN c.modules PROVE HeardIn(g, id, c.modules[id].stored)
  <2>1. PICK s : s = c.modules[id].stored
    OBVIOUS
  <2>2. CASE HeardIn(h, id, s)
    BY <1>2, <2>1, <2>2 DEF HeardIn
  <2>3. CASE t >= c.modules[id].next
    <3>1. id[1] = "timed" => IDs(s.records) \subseteq g.records
      <4>1. id[1] = "timed" => s \in timed
        BY <1>3, <2>1, <2>3 DEF timed
      <4>2. QED BY <1>2, <4>1 DEF IDs
    <3>2. id[1] = "loss" => UNION {e.missing : e \in Range(s.entries)} \subseteq g.losses
      <4>1. id[1] = "loss" => s \in reports
        BY <1>3, <2>1, <2>3 DEF reports
      <4>2. QED BY <1>2, <4>1
    <3>3. id[1] = "avmap" => s.entries \subseteq g.entries
      <4>1. id[1] = "avmap" => s \in maps
        BY <1>3, <2>1, <2>3 DEF maps
      <4>2. QED BY <1>2, <4>1
    <3>4. QED BY <2>1, <3>1, <3>2, <3>3 DEF HeardIn
  <2>4. QED BY <2>1, <2>2, <2>3 DEF Fresh
<1>5. QED BY <1>1, <1>2, <1>4
-----------------------------------------------------------------------------
(* What the steps of an installation do to a recorder.                     *)

\* the modules of the other kinds are what they were
Others(c, d, kind) ==
  \A id : id[1] # kind =>
    /\ id \in DOMAIN d.modules <=> id \in DOMAIN c.modules
    /\ id \in DOMAIN c.modules => d.modules[id] = c.modules[id]

\* what every step of the installation of r keeps: q is some steps later
Installing(h, t, r, q) ==
  /\ DOMAIN q = Fields
  /\ Shape(q.realtime) /\ Fresh(h, q.realtime, t)
  /\ q.err = "none" => r.err = "none"

LEMMA SetRealtimeFacts ==
  ASSUME NEW h, NEW t \in Int, NEW p, NEW r, Installing(h, t, p, r), NEW u, NEW q,
         q = SetRealtime(r, u, t)
  PROVE  /\ Installing(h, t, r, q)
         /\ Same(r, q, {"realtime", "err"})
         /\ Others(r.realtime, q.realtime, u.id[1])
         /\ q.err = "none" => SetOne(r.realtime, q.realtime, u.id, u.stored)
<1>1. CASE r.err # "none"
  BY <1>1 DEF SetRealtime, Installing, Same, Others
<1>2. CASE r.err = "none" /\ SetFails(r.realtime, u, t)
  <2>1. q = [r EXCEPT !.err = SetErr(r.realtime, u)] /\ SetErr(r.realtime, u) # "none"
    BY <1>2 DEF SetRealtime, SetErr
  <2>2. q.err # "none" /\ q.realtime = r.realtime /\ DOMAIN q = Fields
    BY <2>1 DEF Installing, Fields, NewRecorder
  <2>3. Same(r, q, {"realtime", "err"})
    BY <2>1 DEF Same
  <2>4. QED BY <1>2, <2>2, <2>3 DEF Installing, Others
<1>3. CASE r.err = "none" /\ ~ SetFails(r.realtime, u, t)
  <2>1. q = [r EXCEPT !.realtime = AfterSet(r.realtime, u, t)]
    BY <1>3 DEF SetRealtime
  <2>2. q.err = r.err /\ q.realtime = AfterSet(r.realtime, u, t) /\ DOMAIN q = Fields
    BY <2>1 DEF Installing, Fields, NewRecorder
  <2>3. Same(r, q, {"realtime", "err"})
    BY <2>1 DEF Same
  <2>4. /\ Shape(q.realtime) /\ Fresh(h, q.realtime, t)
        /\ SetOne(r.realtime, q.realtime, u.id, u.stored)
    BY <2>2, SetFacts DEF Installing
  <2>5. Others(r.realtime, q.realtime, u.id[1])
    BY <2>4 DEF SetOne, Others
  <2>6. QED BY <1>3, <2>2, <2>3, <2>4, <2>5 DEF Installing
<1>4. QED BY <1>1, <1>2, <1>3

-----------------------------------------------------------------------------
(* What the realtime carousel has once the pending updates are in it.      *)

InCarousel(c, id, x) == id \in DOMAIN c.modules /\ c.modules[id].stored = x

Touches(p, done, id) == \E i \in done : PendingID(p[i]) = id

\* the last of the updates done that are about id writes x
Writes(p, done, id, x) ==
  \E i \in done :
    /\ PendingID(p[i]) = id /\ ~ p[i].remove /\ p[i].update.stored = x
    /\ \A j \in done : j > i => PendingID(p[j]) # id

Holds(p, done, c, id, x) ==
  Writes(p, done, id, x) \/ (~ Touches(p, done, id) /\ InCarousel(c, id, x))

\* x is or will be on the air under id
On(r, id, x) == Holds(r.pending, DOMAIN r.pending, r.realtime, id, x)

LEMMA HoldsStep ==
  ASSUME NEW p, NEW i \in Nat, i > 0, NEW c, NEW id, NEW x
  PROVE  /\ id # PendingID(p[i]) => (Holds(p, 1 .. i, c, id, x) <=> Holds(p, 1 .. (i - 1), c, id, x))
         /\ id = PendingID(p[i]) =>
              (Holds(p, 1 .. i, c, id, x) <=> ~ p[i].remove /\ p[i].update.stored = x)
<1>1. /\ i \in 1 .. i /\ \A j \in 1 .. (i - 1) : j \in 1 .. i /\ i > j
      /\ \A j \in 1 .. i : ~ (j > i) /\ (j = i \/ j \in 1 .. (i - 1))
  OBVIOUS
<1>2. ASSUME id # PendingID(p[i])
      PROVE  Holds(p, 1 .. i, c, id, x) <=> Holds(p, 1 .. (i - 1), c, id, x)
  <2>1. Touches(p, 1 .. i, id) <=> Touches(p, 1 .. (i - 1), id)
    BY <1>1, <1>2 DEF Touches
  <2>2. Writes(p, 1 .. i, id, x) => Writes(p, 1 .. (i - 1), id, x)
    BY <1>1, <1>2 DEF Writes
  <2>3. Writes(p, 1 .. (i - 1), id, x) => Writes(p, 1 .. i, id, x)
    BY <1>1, <1>2 DEF Writes
  <2>4. QED BY <2>1, <2>2, <2>3 DEF Holds
<1>3. ASSUME id = PendingID(p[i])
      PROVE  Holds(p, 1 .. i, c, id, x) <=> ~ p[i].remove /\ p[i].update.stored = x
  <2>1. Touches(p, 1 .. i, id)
    BY <1>1, <1>3 DEF Touches
  <2>2. Writes(p, 1 .. i, id, x) => ~ p[i].remove /\ p[i].update.stored = x
    BY <1>1, <1>3 DEF Writes
  <2>3. ~ p[i].remove /\ p[i].update.stored = x => Writes(p, 1 .. i, id, x)
    BY <1>1, <1>3 DEF Writes
  <2>4. QED BY <2>1, <2>2, <2>3 DEF Holds
<1>4. QED BY <1>2, <1>3

LEMMA HoldsNothing ==
  ASSUME NEW p, NEW c, NEW id, NEW x
  PROVE  Holds(p, {}, c, id, x) <=> InCarousel(c, id, x)
BY DEF Holds, Touches, Writes

\* later updates come on top of earlier ones
LEMMA HoldsAppended ==
  ASSUME NEW T, NEW a \in Seq(T), NEW b \in Seq(T), NEW q, q = a \o b,
         NEW c, NEW id, NEW x
  PROVE  Holds(q, DOMAIN q, c, id, x) <=>
           \/ Writes(b, DOMAIN b, id, x)
           \/ ~ Touches(b, DOMAIN b, id) /\ Holds(a, DOMAIN a, c, id, x)
<1>1. PICK m \in Nat : m = Len(a) /\ DOMAIN a = 1 .. m
  OBVIOUS
<1>2. PICK n \in Nat : n = Len(b) /\ DOMAIN b = 1 .. n
  OBVIOUS
<1>3. /\ DOMAIN q = 1 .. m + n
      /\ \A i \in 1 .. m : q[i] = a[i]
      /\ \A j \in 1 .. n : q[m + j] = b[j]
  BY <1>1, <1>2
<1>4. /\ \A i \in 1 .. m : i \in DOMAIN q
      /\ \A j \in 1 .. n : m + j \in DOMAIN q /\ \A i \in 1 .. m : m + j > i
      /\ \A j, k \in 1 .. n : m + k > m + j <=> k > j
      /\ \A i \in DOMAIN q : i \in 1 .. m \/ (i - m \in 1 .. n /\ i = m + (i - m))
      /\ \A i \in 1 .. m, j \in 1 .. n : ~ (i > m + j)
  BY <1>3
<1>5. Touches(q, DOMAIN q, id) <=> Touches(a, DOMAIN a, id) \/ Touches(b, DOMAIN b, id)
  <2>1. Touches(q, DOMAIN q, id) => Touches(a, DOMAIN a, id) \/ Touches(b, DOMAIN b, id)
    BY <1>1, <1>2, <1>3, <1>4 DEF Touches
  <2>2. Touches(a, DOMAIN a, id) => Touches(q, DOMAIN q, id)
    BY <1>1, <1>3, <1>4 DEF Touches
  <2>3. Touches(b, DOMAIN b, id) => Touches(q, DOMAIN q, id)
    BY <1>2, <1>3, <1>4 DEF Touches
  <2>4. QED BY <2>1, <2>2, <2>3
<1>6. Writes(b, DOMAIN b, id, x) => Writes(q, DOMAIN q, id, x)
  <2>1. SUFFICES ASSUME NEW j \in 1 .. n,
                        PendingID(b[j]) = id, ~ b[j].remove, b[j].update.stored = x,
                        \A k \in 1 .. n : k > j => PendingID(b[k]) # id
                 PROVE  Writes(q, DOMAIN q, id, x)
    BY <1>2 DEF Writes
  <2>2. \A k \in DOMAIN q : k > m + j => PendingID(q[k]) # id
    <3>1. SUFFICES ASSUME NEW k \in DOMAIN q, k > m + j PROVE PendingID(q[k]) # id
      OBVIOUS
    <3>2. k - m \in 1 .. n /\ k = m + (k - m) /\ k - m > j
      BY <1>3, <1>4, <3>1
    <3>3. q[k] = b[k - m]
      BY <1>3, <3>2
    <3>4. QED BY <2>1, <3>2, <3>3
  <2>3. QED BY <1>3, <1>4, <2>1, <2>2 DEF Writes
<1>7. ~ Touches(b, DOMAIN b, id) /\ Writes(a, DOMAIN a, id, x) => Writes(q, DOMAIN q, id, x)
  <2>1. SUFFICES ASSUME ~ Touches(b, DOMAIN b, id), NEW i \in 1 .. m,
                        PendingID(a[i]) = id, ~ a[i].remove, a[i].update.stored = x,
                        \A k \in 1 .. m : k > i => PendingID(a[k]) # id
                 PROVE  Writes(q, DOMAIN q, id, x)
    BY <1>1 DEF Writes
  <2>2. \A k \in DOMAIN q : k > i => PendingID(q[k]) # id
    BY <1>2, <1>3, <1>4, <2>1 DEF Touches
  <2>3. QED BY <1>3, <1>4, <2>1, <2>2 DEF Writes
<1>8. Writes(q, DOMAIN q, id, x) =>
        \/ Writes(b, DOMAIN b, id, x)
        \/ ~ Touches(b, DOMAIN b, id) /\ Writes(a, DOMAIN a, id, x)
  <2>1. SUFFICES ASSUME NEW k \in DOMAIN q,
                        PendingID(q[k]) = id, ~ q[k].remove, q[k].update.stored = x,
                        \A l \in DOMAIN q : l > k => PendingID(q[l]) # id
                 PROVE  \/ Writes(b, DOMAIN b, id, x)
                        \/ ~ Touches(b, DOMAIN b, id) /\ Writes(a, DOMAIN a, id, x)
    BY DEF Writes
  <2>2. CASE k \in 1 .. m
    <3>1. ~ Touches(b, DOMAIN b, id)
      BY <1>2, <1>3, <1>4, <2>1, <2>2 DEF Touches
    <3>2. Writes(a, DOMAIN a, id, x)
      BY <1>1, <1>3, <1>4, <2>1, <2>2 DEF Writes
    <3>3. QED BY <3>1, <3>2
  <2>3. CASE k \notin 1 .. m
    <3>1. PICK j \in 1 .. n : k = m + j
      BY <1>4, <2>3
    <3>2. \A l \in 1 .. n : l > j => PendingID(b[l]) # id
      BY <1>3, <1>4, <2>1, <3>1
    <3>3. QED BY <1>2, <1>3, <2>1, <3>1, <3>2 DEF Writes
  <2>4. QED BY <2>2, <2>3
<1>9. QED BY <1>5, <1>6, <1>7, <1>8 DEF Holds

\* d is c with the updates done in it
Settled(p, done, c, d) == \A id, x : InCarousel(d, id, x) <=> Holds(p, done, c, id, x)

LEMMA SettledStep ==
  ASSUME NEW p, NEW i \in Nat, i > 0, NEW c, NEW d, Settled(p, 1 .. (i - 1), c, d), NEW e,
         \/ p[i].remove /\ RemoveOne(d, e, PendingID(p[i]))
         \/ ~ p[i].remove /\ SetOne(d, e, PendingID(p[i]), p[i].update.stored)
  PROVE  Settled(p, 1 .. i, c, e)
<1>1. SUFFICES ASSUME NEW id, NEW x
               PROVE  InCarousel(e, id, x) <=> Holds(p, 1 .. i, c, id, x)
  BY DEF Settled
<1>2. CASE id # PendingID(p[i])
  <2>1. InCarousel(e, id, x) <=> InCarousel(d, id, x)
    BY <1>2 DEF InCarousel, RemoveOne, SetOne
  <2>2. InCarousel(d, id, x) <=> Holds(p, 1 .. (i - 1), c, id, x)
    BY DEF Settled
  <2>3. QED BY <1>2, <2>1, <2>2, HoldsStep
<1>3. CASE id = PendingID(p[i])
  <2>1. InCarousel(e, id, x) <=> ~ p[i].remove /\ p[i].update.stored = x
    BY <1>3 DEF InCarousel, RemoveOne, SetOne
  <2>2. QED BY <1>3, <2>1, HoldsStep
<1>4. QED BY <1>2, <1>3

-----------------------------------------------------------------------------
(* The installations of an emission.                                      *)

\* an update is in the realtime carousel
OnAir(r, u) ==
  u.id \in DOMAIN r.realtime.modules /\ r.realtime.modules[u.id].stored = u.stored

\* no pending update is undone or overwritten by a later one
Distinct(pending) ==
  \A i, j \in DOMAIN pending :
    i < j /\ ~ pending[i].remove => PendingID(pending[i]) # PendingID(pending[j])

OfSegments(pending) == \A i \in DOMAIN pending : PendingID(pending[i])[1] = "timed"

\* a fold over the pending updates; in.r is the recorder before it
PendingStep(in, acc, p) == InstallUpdate(acc, p, in.t)

PendingKept(in, done, acc) ==
  /\ Installing(in.h, in.t, in.r, acc)
  /\ Same(in.r, acc, {"realtime", "err"})
  /\ Others(in.r.realtime, acc.realtime, "timed")
  /\ done = {} => acc = in.r
  /\ acc.err = "none" /\ Distinct(in.r.pending) =>
       \A i \in done : ~ in.r.pending[i].remove => OnAir(acc, in.r.pending[i].update)
  /\ acc.err = "none" => Settled(in.r.pending, done, in.r.realtime, acc.realtime)

Pendings == INSTANCE FoldFacts WITH Step <- PendingStep, Keeps <- PendingKept

LEMMA PendingStepKeeps ==
  ASSUME NEW in, in.t \in Int, OfSegments(in.r.pending),
         NEW n \in Nat, DOMAIN in.r.pending = 1 .. n, NEW i \in 1 .. n,
         NEW acc, PendingKept(in, 1 .. (i - 1), acc)
  PROVE  PendingKept(in, 1 .. i, PendingStep(in, acc, in.r.pending[i]))
<1>1. PICK p : p = in.r.pending[i]
  OBVIOUS
<1>2. PICK q : q = InstallUpdate(acc, p, in.t)
  OBVIOUS
<1>3. PendingID(p)[1] = "timed"
  BY <1>1 DEF OfSegments
<1>4. /\ Installing(in.h, in.t, acc, q)
      /\ Same(acc, q, {"realtime", "err"})
      /\ Others(acc.realtime, q.realtime, "timed")
      /\ \A id : id # PendingID(p) /\ id \in DOMAIN acc.realtime.modules /\ q.err = "none" =>
           /\ id \in DOMAIN q.realtime.modules
           /\ q.realtime.modules[id] = acc.realtime.modules[id]
      /\ q.err = "none" /\ ~ p.remove => OnAir(q, p.update)
      /\ q.err = "none" =>
           \/ p.remove /\ RemoveOne(acc.realtime, q.realtime, PendingID(p))
           \/ ~ p.remove /\ SetOne(acc.realtime, q.realtime, PendingID(p), p.update.stored)
  <2>1. CASE p.remove
    <3>1. q = [acc EXCEPT !.realtime = AfterRemove(acc.realtime, p.id, in.t)]
      BY <1>2, <2>1 DEF InstallUpdate
    <3>2. q.err = acc.err /\ q.realtime = AfterRemove(acc.realtime, p.id, in.t) /\ DOMAIN q = Fields
      BY <3>1 DEF PendingKept, Installing, Fields, NewRecorder
    <3>3. Same(acc, q, {"realtime", "err"})
      BY <3>1 DEF Same
    <3>4. /\ Shape(q.realtime) /\ Fresh(in.h, q.realtime, in.t)
          /\ RemoveOne(acc.realtime, q.realtime, p.id)
      BY <3>2, RemoveFacts DEF PendingKept, Installing
    <3>5. p.id = PendingID(p)
      BY <2>1 DEF PendingID
    <3>6. Others(acc.realtime, q.realtime, "timed")
      BY <1>3, <3>4, <3>5 DEF RemoveOne, Others
    <3>7. QED BY <2>1, <3>2, <3>3, <3>4, <3>5, <3>6 DEF Installing, RemoveOne
  <2>2. CASE ~ p.remove
    <3>1. q = SetRealtime(acc, p.update, in.t) /\ p.update.id = PendingID(p)
      BY <1>2, <2>2 DEF InstallUpdate, PendingID
    <3>2. /\ Installing(in.h, in.t, acc, q)
          /\ Same(acc, q, {"realtime", "err"})
          /\ Others(acc.realtime, q.realtime, p.update.id[1])
          /\ q.err = "none" => SetOne(acc.realtime, q.realtime, p.update.id, p.update.stored)
      BY <3>1, SetRealtimeFacts DEF PendingKept
    <3>3. q.err = "none" => OnAir(q, p.update)
      BY <3>2 DEF SetOne, OnAir
    <3>4. \A id : id # PendingID(p) /\ id \in DOMAIN acc.realtime.modules /\ q.err = "none" =>
            /\ id \in DOMAIN q.realtime.modules
            /\ q.realtime.modules[id] = acc.realtime.modules[id]
      BY <3>1, <3>2 DEF SetOne
    <3>5. q.err = "none" => SetOne(acc.realtime, q.realtime, PendingID(p), p.update.stored)
      BY <3>1, <3>2
    <3>6. Others(acc.realtime, q.realtime, "timed")
      BY <1>3, <3>1, <3>2
    <3>7. QED BY <2>2, <3>2, <3>3, <3>4, <3>5, <3>6
  <2>3. QED BY <2>1, <2>2
<1>5. Installing(in.h, in.t, in.r, q)
  BY <1>4 DEF PendingKept, Installing
<1>6. Same(in.r, q, {"realtime", "err"})
  BY <1>4 DEF PendingKept, Same
<1>7. Others(in.r.realtime, q.realtime, "timed")
  BY <1>4 DEF PendingKept, Others
<1>8. ASSUME q.err = "none", Distinct(in.r.pending),
             NEW j \in 1 .. i, ~ in.r.pending[j].remove
      PROVE  OnAir(q, in.r.pending[j].update)
  <2>1. acc.err = "none"
    BY <1>4, <1>8 DEF Installing
  <2>2. CASE j = i
    BY <1>1, <1>4, <1>8, <2>2
  <2>3. CASE j # i
    <3>1. j \in 1 .. (i - 1) /\ j < i /\ j \in DOMAIN in.r.pending /\ i \in DOMAIN in.r.pending
      BY <2>3
    <3>2. OnAir(acc, in.r.pending[j].update)
      BY <1>8, <2>1, <3>1 DEF PendingKept
    <3>3. in.r.pending[j].update.id = PendingID(in.r.pending[j])
      BY <1>8 DEF PendingID
    <3>4. in.r.pending[j].update.id # PendingID(p)
      BY <1>1, <1>8, <3>1, <3>3 DEF Distinct
    <3>5. QED BY <1>4, <1>8, <3>2, <3>4 DEF OnAir
  <2>4. QED BY <2>2, <2>3
<1>9. 1 .. i # {}
  BY i \in 1 .. i
<1>11. ASSUME q.err = "none" PROVE Settled(in.r.pending, 1 .. i, in.r.realtime, q.realtime)
  <2>1. acc.err = "none"
    BY <1>4, <1>11 DEF Installing
  <2>2. Settled(in.r.pending, 1 .. (i - 1), in.r.realtime, acc.realtime)
    BY <2>1 DEF PendingKept
  <2>3. \/ p.remove /\ RemoveOne(acc.realtime, q.realtime, PendingID(p))
        \/ ~ p.remove /\ SetOne(acc.realtime, q.realtime, PendingID(p), p.update.stored)
    BY <1>4, <1>11
  <2>4. i \in Nat /\ i > 0
    OBVIOUS
  <2>5. QED BY <1>1, <2>2, <2>3, <2>4, SettledStep
<1>10. QED BY <1>1, <1>2, <1>5, <1>6, <1>7, <1>8, <1>9, <1>11 DEF PendingKept, PendingStep

\* the closed segments go into the carousel
PendingInstalled(h, t, r, q) ==
  /\ Installing(h, t, r, q)
  /\ Same(r, q, {"realtime", "err", "pending"})
  /\ q.pending = <<>>
  /\ Others(r.realtime, q.realtime, "timed")
  /\ r.pending = <<>> => q.realtime = r.realtime
  /\ q.err = "none" /\ Distinct(r.pending) =>
       \A i \in DOMAIN r.pending : ~ r.pending[i].remove => OnAir(q, r.pending[i].update)
  /\ q.err = "none" => Settled(r.pending, DOMAIN r.pending, r.realtime, q.realtime)

LEMMA InstallPendingFacts ==
  ASSUME NEW h, NEW t \in Int, NEW r, Installing(h, t, r, r), OfSegments(r.pending),
         NEW n \in Nat, DOMAIN r.pending = 1 .. n, NEW q, q = InstallPending(r, t)
  PROVE  PendingInstalled(h, t, r, q)
<1>1. PICK in : in = [h |-> h, t |-> t, r |-> r]
  OBVIOUS
<1>2. in.h = h /\ in.t = t /\ in.r = r
  BY <1>1
<1>3. PICK f : f = Pendings!Fold(in, r, r.pending)
  OBVIOUS
<1>4. f = FoldLeft(LAMBDA acc, p : InstallUpdate(acc, p, t), r, r.pending)
  BY <1>2, <1>3 DEF Pendings!Fold, Pendings!FoldLeft, FoldLeft, Pendings!MapThenFoldSet,
     MapThenFoldSet, Pendings!Max, Max, PendingStep
<1>5. q = [f EXCEPT !.pending = <<>>]
  BY <1>4 DEF InstallPending
<1>6. PendingKept(in, 1 .. 0, r)
  <2>1. Settled(r.pending, 1 .. 0, r.realtime, r.realtime)
    <3>1. 1 .. 0 = {}
      OBVIOUS
    <3>2. QED BY <3>1, HoldsNothing DEF Settled
  <2>2. QED BY <1>2, <2>1 DEF PendingKept, Same, Others
<1>7. \A i \in 1 .. n : \A acc :
        PendingKept(in, 1 .. (i - 1), acc) => PendingKept(in, 1 .. i, PendingStep(in, acc, r.pending[i]))
  BY <1>2, PendingStepKeeps
<1>8. PendingKept(in, 1 .. n, f)
  BY <1>3, <1>6, <1>7, Pendings!FoldKeeps
<1> HIDE <1>4
<1>9. /\ DOMAIN q = Fields /\ q.realtime = f.realtime /\ q.err = f.err /\ q.pending = <<>>
      /\ Same(r, q, {"realtime", "err", "pending"})
  BY <1>2, <1>5, <1>8 DEF PendingKept, Installing, Same, Fields, NewRecorder
<1>10. r.pending = <<>> => q.realtime = r.realtime
  <2>1. r.pending = <<>> => 1 .. n = {}
    OBVIOUS
  <2>2. QED BY <1>2, <1>8, <1>9, <2>1 DEF PendingKept
<1>11. /\ Installing(h, t, r, q) /\ Others(r.realtime, q.realtime, "timed")
       /\ q.err = "none" /\ Distinct(r.pending) =>
            \A i \in 1 .. n : ~ r.pending[i].remove => OnAir(q, r.pending[i].update)
       /\ q.err = "none" => Settled(r.pending, 1 .. n, r.realtime, q.realtime)
  BY <1>2, <1>8, <1>9 DEF PendingKept, Installing, OnAir
<1>12. QED BY <1>9, <1>10, <1>11 DEF PendingInstalled

LEMMA InstallLossesFacts ==
  ASSUME NEW h, NEW t \in Int, NEW p, NEW r, Installing(h, t, p, r), NEW q, q = InstallLosses(r, t)
  PROVE  /\ Installing(h, t, r, q)
         /\ Same(r, q, {"realtime", "err", "losses", "lossSeq"})
         /\ q.losses = <<>>
         /\ Others(r.realtime, q.realtime, "loss")
         /\ r.losses = <<>> => q.realtime = r.realtime
         /\ q.err = "none" /\ r.losses # <<>> =>
              \E id \in DOMAIN q.realtime.modules :
                id[1] = "loss" /\ q.realtime.modules[id].stored.entries = r.losses
<1>1. CASE r.losses = <<>>
  BY <1>1 DEF InstallLosses, Installing, Same, Others
<1>2. CASE r.losses # <<>>
  <2>1. PICK u : u = Cyclic(LossModuleID(r.lossSeq),
                            [epoch |-> r.epochID, seq |-> r.lossSeq, entries |-> r.losses],
                            ObjectInterval, PriorityContent)
    OBVIOUS
  <2>2. u.id[1] = "loss" /\ u.stored.entries = r.losses
    BY <2>1 DEF Cyclic, LossModuleID
  <2>3. PICK s : s = SetRealtime(r, u, t)
    OBVIOUS
  <2>4. q = [s EXCEPT !.lossSeq = s.lossSeq + 1, !.losses = <<>>]
    BY <1>2, <2>1, <2>3 DEF InstallLosses
  <2>5. /\ Installing(h, t, r, s)
        /\ Same(r, s, {"realtime", "err"})
        /\ Others(r.realtime, s.realtime, u.id[1])
        /\ s.err = "none" => SetOne(r.realtime, s.realtime, u.id, u.stored)
    BY <2>3, SetRealtimeFacts
  <2>6. DOMAIN r = Fields /\ DOMAIN s = Fields
    BY <2>5 DEF Installing
  <2>7. /\ DOMAIN q = Fields /\ q.realtime = s.realtime /\ q.err = s.err
        /\ q.losses = <<>>
    BY <2>4, <2>5, <2>6 DEF Same, Fields, NewRecorder
  <2>8. Same(r, q, {"realtime", "err", "losses", "lossSeq"})
    BY <2>4, <2>5, <2>6 DEF Same
  <2>9. q.err = "none" =>
          u.id \in DOMAIN q.realtime.modules /\ q.realtime.modules[u.id].stored = u.stored
    BY <2>5, <2>7 DEF SetOne
  <2>10. Installing(h, t, r, q) /\ Others(r.realtime, q.realtime, "loss")
    BY <2>2, <2>5, <2>7 DEF Installing
  <2>11. QED BY <1>2, <2>2, <2>7, <2>8, <2>9, <2>10
<1>3. QED BY <1>1, <1>2

LEMMA InstallCodecConfigFacts ==
  ASSUME NEW h, NEW t \in Int, NEW p, NEW r, Installing(h, t, p, r), NEW q,
         q = InstallCodecConfig(r, t)
  PROVE  /\ Installing(h, t, r, q)
         /\ Same(r, q, {"realtime", "err", "codecDirty"})
         /\ Others(r.realtime, q.realtime, "codec")
<1>1. CASE ~ r.codecDirty
  BY <1>1 DEF InstallCodecConfig, Installing, Same, Others
<1>2. CASE r.codecDirty
  <2>1. PICK u : u = Cyclic(CodecID, [epoch |-> r.epochID, codec |-> r.codec],
                            DIIInterval, PriorityContent)
    OBVIOUS
  <2>2. u.id[1] = "codec"
    BY <2>1 DEF Cyclic, CodecID
  <2>3. PICK s : s = SetRealtime(r, u, t)
    OBVIOUS
  <2>4. q = [s EXCEPT !.codecDirty = FALSE]
    BY <1>2, <2>1, <2>3 DEF InstallCodecConfig
  <2>5. /\ Installing(h, t, r, s)
        /\ Same(r, s, {"realtime", "err"})
        /\ Others(r.realtime, s.realtime, u.id[1])
    BY <2>3, SetRealtimeFacts
  <2>6. DOMAIN r = Fields /\ DOMAIN s = Fields
    BY <2>5 DEF Installing
  <2>7. DOMAIN q = Fields /\ q.realtime = s.realtime /\ q.err = s.err
    BY <2>4, <2>6 DEF Fields, NewRecorder
  <2>8. Same(r, q, {"realtime", "err", "codecDirty"})
    BY <2>4, <2>5, <2>6 DEF Same
  <2>9. QED BY <2>2, <2>5, <2>7, <2>8 DEF Installing
<1>3. QED BY <1>1, <1>2

\* what InstallAVMap does to the slots
Slot == [entry : Nat, addedAt : Nat, installed : BOOLEAN]

Noted(slot) == [slot EXCEPT !.installed = TRUE]

InMap(r, e) ==
  AVMapID \in DOMAIN r.realtime.modules /\ e \in r.realtime.modules[AVMapID].stored.entries

MapNoted(t, r, q) ==
  /\ q.avmap = {Noted(slot) : slot \in r.avmap}
  /\ q.avmapDirty = FALSE /\ q.lastAVMap = t
  /\ q.err = "none" => \A slot \in r.avmap : InMap(q, slot.entry)

LEMMA InstallAVMapFacts ==
  ASSUME NEW h, NEW t \in Int, NEW p, NEW r, Installing(h, t, p, r), r.avmap \subseteq Slot,
         NEW q, q = InstallAVMap(r, t)
  PROVE  /\ Installing(h, t, r, q)
         /\ Same(r, q, {"realtime", "err", "avmap", "avmapDirty", "lastAVMap"})
         /\ Others(r.realtime, q.realtime, "avmap")
         /\ \/ q = r /\ ~ (r.avmapDirty /\ t - r.lastAVMap >= SegmentInterval)
            \/ MapNoted(t, r, q)
<1>1. CASE ~ (r.avmapDirty /\ t - r.lastAVMap >= SegmentInterval)
  BY <1>1 DEF InstallAVMap, Installing, Same, Others
<1>2. CASE r.avmapDirty /\ t - r.lastAVMap >= SegmentInterval
  <2>1. PICK u : u = Cyclic(AVMapID,
                            [epoch |-> r.epochID, latest |-> r.latestComplete,
                             entries |-> {slot.entry : slot \in r.avmap}],
                            SegmentInterval, PriorityContent)
    OBVIOUS
  <2>2. u.id = AVMapID /\ u.id[1] = "avmap" /\ u.stored.entries = {slot.entry : slot \in r.avmap}
    BY <2>1 DEF Cyclic, AVMapID
  <2>3. PICK s : s = SetRealtime(r, u, t)
    OBVIOUS
  <2>5. /\ Installing(h, t, r, s)
        /\ Same(r, s, {"realtime", "err"})
        /\ Others(r.realtime, s.realtime, u.id[1])
        /\ s.err = "none" => SetOne(r.realtime, s.realtime, u.id, u.stored)
    BY <2>3, SetRealtimeFacts
  <2>6. DOMAIN r = Fields /\ DOMAIN s = Fields
    BY <2>5 DEF Installing
  <2>7. s.avmap = r.avmap
    BY <2>5, <2>6 DEF Same, Fields, NewRecorder
  <2>4. q = [s EXCEPT !.avmap = {Noted(slot) : slot \in s.avmap},
                      !.avmapDirty = FALSE, !.lastAVMap = t]
    BY <1>2, <2>1, <2>3 DEF InstallAVMap, Noted
  <2>8. /\ DOMAIN q = Fields /\ q.realtime = s.realtime /\ q.err = s.err
        /\ q.avmap = {Noted(slot) : slot \in r.avmap}
        /\ q.avmapDirty = FALSE /\ q.lastAVMap = t
    BY <2>4, <2>6, <2>7 DEF Fields, NewRecorder
  <2>9. Same(r, q, {"realtime", "err", "avmap", "avmapDirty", "lastAVMap"})
    BY <2>4, <2>5, <2>6 DEF Same
  <2>10. q.err = "none" => \A slot \in r.avmap : InMap(q, slot.entry)
    BY <2>2, <2>5, <2>8 DEF SetOne, InMap
  <2>11. MapNoted(t, r, q)
    BY <2>8, <2>10 DEF MapNoted
  <2>12. Installing(h, t, r, q) /\ Others(r.realtime, q.realtime, "avmap")
    BY <2>2, <2>5, <2>8 DEF Installing
  <2>13. QED BY <2>9, <2>11, <2>12
<1>3. QED BY <1>1, <1>2

(* Committing the objects.                                                 *)

Unit == UNION {Range(o[2]) : o \in ObjectInputs}

ObjectBytes == Seq(Unit)

IsObjects(objects) ==
  /\ IsFiniteSet(DOMAIN objects) /\ DOMAIN objects \subseteq Nat
  /\ \A id \in DOMAIN objects : objects[id] \in ObjectBytes

\* what every step of a commit keeps
Committing(r, q) ==
  /\ DOMAIN q = Fields
  /\ Same(r, q, {"object", "err"})
  /\ Shape(q.object)
  /\ q.err = "none" => r.err = "none"

LEMMA SetObjectFacts ==
  ASSUME NEW t \in Int, NEW p, NEW r, Committing(p, r), NEW u, NEW q, q = SetObject(r, u, t)
  PROVE  /\ Committing(p, q)
         /\ \A id \in DOMAIN r.object.modules : id \in DOMAIN q.object.modules
         /\ q.err = "none" => r.err = "none" /\ u.id \in DOMAIN q.object.modules
<1>1. CASE r.err # "none"
  BY <1>1 DEF SetObject, Committing
<1>2. CASE r.err = "none" /\ SetFails(r.object, u, t)
  <2>1. q = [r EXCEPT !.err = SetErr(r.object, u)] /\ SetErr(r.object, u) # "none"
    BY <1>2 DEF SetObject, SetErr
  <2>2. q.err # "none" /\ q.object = r.object /\ DOMAIN q = Fields
    BY <2>1 DEF Committing, Fields, NewRecorder
  <2>3. Same(p, q, {"object", "err"})
    BY <2>1 DEF Committing, Same
  <2>4. QED BY <2>2, <2>3 DEF Committing
<1>3. CASE r.err = "none" /\ ~ SetFails(r.object, u, t)
  <2>1. q = [r EXCEPT !.object = AfterSet(r.object, u, t)]
    BY <1>3 DEF SetObject
  <2>2. q.err = r.err /\ q.object = AfterSet(r.object, u, t) /\ DOMAIN q = Fields
    BY <2>1 DEF Committing, Fields, NewRecorder
  <2>3. Same(p, q, {"object", "err"})
    BY <2>1 DEF Committing, Same
  <2>4. Shape(q.object) /\ SetOne(r.object, q.object, u.id, u.stored)
    BY <2>2, SetFacts DEF Committing
  <2>5. QED BY <1>3, <2>2, <2>3, <2>4 DEF Committing, SetOne
<1>4. QED BY <1>1, <1>2, <1>3

\* the fold that packs the objects
PackStep(objects, acc, id) == acc \o objects[id]

PackKept(objects, done, acc) == acc \in ObjectBytes

Packings == INSTANCE FoldFacts WITH Step <- PackStep, Keeps <- PackKept

LEMMA PackedModulesFacts ==
  ASSUME NEW objects, IsObjects(objects)
  PROVE  \E n \in Nat : DOMAIN PackedModules(objects) = 1 .. n
<1>1. PICK bytes : bytes = PackedBytes(objects)
  OBVIOUS
<1>2. bytes = Packings!FoldUp(objects, <<>>, DOMAIN objects)
  BY <1>1 DEF PackedBytes, Packings!FoldUp, Packings!MapThenFoldSet, MapThenFoldSet,
     Packings!Max, Max, PackStep
<1>3. PackKept(objects, {}, <<>>)
  BY DEF PackKept, ObjectBytes
<1>4. ASSUME NEW id \in DOMAIN objects, NEW acc, PackKept(objects, Packings!Under(DOMAIN objects, id), acc)
      PROVE  PackKept(objects, Packings!Through(DOMAIN objects, id), PackStep(objects, acc, id))
  BY <1>4 DEF PackKept, PackStep, IsObjects, ObjectBytes
<1>5. PackKept(objects, DOMAIN objects, bytes)
  <2>1. IsFiniteSet(DOMAIN objects) /\ DOMAIN objects \subseteq Nat
    BY DEF IsObjects
  <2>2. \A id \in DOMAIN objects : \A acc :
          PackKept(objects, Packings!Under(DOMAIN objects, id), acc)
            => PackKept(objects, Packings!Through(DOMAIN objects, id), PackStep(objects, acc, id))
    BY <1>4
  <2>3. PackKept(objects, DOMAIN objects, Packings!FoldUp(objects, <<>>, DOMAIN objects))
    <3>1. Packings!IsFiniteSet(DOMAIN objects)
      BY <2>1 DEF IsFiniteSet, Packings!IsFiniteSet
    <3>2. QED BY <1>3, <2>1, <2>2, <3>1, Packings!FoldUpKeeps
  <2>4. QED BY <1>2, <2>3
<1>6. Len(bytes) \in Nat
  BY <1>5 DEF PackKept, ObjectBytes
<1>7. PICK n : n = (Len(bytes) + Capacity - 1) \div Capacity
  OBVIOUS
<1>8. n \in Nat
  <2>1. Capacity \in Nat \ {0}
    BY RecorderAssumption
  <2>2. Len(bytes) + Capacity - 1 \in Nat
    BY <1>6, <2>1
  <2>3. QED BY <1>7, <2>1, <2>2
<1>9. DOMAIN PackedModules(objects) = 1 .. n
  BY <1>1, <1>7 DEF PackedModules
<1>10. QED BY <1>8, <1>9

\* the fold that removes the modules an earlier commit left, in.t is the time
SurplusStep(in, c, id) == AfterRemove(c, id, in.t)

SurplusKept(in, done, c) == Shape(c)

Surpluses == INSTANCE FoldFacts WITH Step <- SurplusStep, Keeps <- SurplusKept



LEMMA RemoveAllFacts ==
  ASSUME NEW c, Shape(c), NEW S, S \subseteq DOMAIN c.modules, NEW t
  PROVE  Shape(RemoveAll(c, S, t))
<1>1. PICK in : in = [t |-> t]
  OBVIOUS
<1>2. RemoveAll(c, S, t) = Surpluses!FoldAny(in, c, S)
  BY <1>1 DEF RemoveAll, Surpluses!FoldAny, Surpluses!FoldSet, FoldSet,
     Surpluses!MapThenFoldSet, MapThenFoldSet, SurplusStep
<1>3. SurplusKept(in, {}, c)
  BY DEF SurplusKept
<1>4. \A T \in SUBSET S : \A id \in S \ T : \A d :
        SurplusKept(in, T, d) => SurplusKept(in, T \cup {id}, SurplusStep(in, d, id))
  BY RemoveFacts DEF SurplusKept, SurplusStep
<1>5. IsFiniteSet(S)
  BY FS_Subset DEF Shape
<1>6. Surpluses!IsFiniteSet(S)
  BY <1>5 DEF IsFiniteSet, Surpluses!IsFiniteSet
<1>7. SurplusKept(in, S, Surpluses!FoldAny(in, c, S))
  BY <1>3, <1>4, <1>6, Surpluses!FoldAnyKeeps
<1>8. QED BY <1>2, <1>7 DEF SurplusKept

\* the fold that sets the modules of the objects


ModuleStep(in, acc, n) == SetObject(acc, ObjectUpdate(in.modules, n), in.t)

ModuleKept(in, done, acc) == Committing(in.r, acc)

Modules == INSTANCE FoldFacts WITH Step <- ModuleStep, Keeps <- ModuleKept



LEMMA SetAllFacts ==
  ASSUME NEW p, NEW r, Committing(p, r), NEW modules, NEW n \in Nat, DOMAIN modules = 1 .. n,
         NEW t \in Int
  PROVE  Committing(p, SetAll(r, modules, t))
<1>1. PICK in : in = [t |-> t, r |-> p, modules |-> modules]
  OBVIOUS
<1>2. in.t = t /\ in.r = p /\ in.modules = modules
  BY <1>1
<1>3. PICK s : s = [i \in DOMAIN modules |-> i]
  OBVIOUS
<1>4. SetAll(r, modules, t) = Modules!Fold(in, r, s)
  BY <1>2, <1>3 DEF SetAll, FoldLeftDomain, Modules!Fold, Modules!FoldLeft, FoldLeft,
     Modules!MapThenFoldSet, MapThenFoldSet, Modules!Max, Max, ModuleStep
<1>5. ModuleKept(in, 1 .. 0, r)
  BY <1>2 DEF ModuleKept
<1>6. \A i \in 1 .. n : \A acc :
        ModuleKept(in, 1 .. (i - 1), acc) => ModuleKept(in, 1 .. i, ModuleStep(in, acc, s[i]))
  BY <1>2, SetObjectFacts DEF ModuleKept, ModuleStep
<1>7. DOMAIN s = 1 .. n
  BY <1>3
<1>8. ModuleKept(in, 1 .. n, Modules!Fold(in, r, s))
  BY <1>5, <1>6, <1>7, Modules!FoldKeeps
<1>9. QED BY <1>2, <1>4, <1>8 DEF ModuleKept

CommitFields == {"object", "err", "losses", "updateNumber", "objectsDirty", "lastCommit"}

CommitDue(r, t) == r.objectsDirty /\ t - r.lastCommit >= CommitInterval

ObjectsInstalled(t, r, q) ==
  /\ DOMAIN q = Fields /\ Shape(q.object)
  /\ Same(r, q, CommitFields)
  /\ q.err = "none" => r.err = "none" /\ q.losses = r.losses
  /\ \/ q = r /\ ~ CommitDue(r, t)
     \/ q.err = "none" => q.objectsDirty = FALSE /\ ManifestID \in DOMAIN q.object.modules

LEMMA CommitObjectsFacts ==
  ASSUME NEW t \in Int, NEW r, DOMAIN r = Fields, Shape(r.object), IsObjects(r.objects),
         NEW q, q = CommitObjects(r, t)
  PROVE  ObjectsInstalled(t, r, q)
<1>1. CASE ~ CommitDue(r, t)
  <2>1. q = r
    BY <1>1 DEF CommitObjects, CommitDue
  <2>2. QED BY <1>1, <2>1 DEF ObjectsInstalled, Same
<1>2. CASE CommitDue(r, t)
  <2>1. PICK modules : modules = PackedModules(r.objects)
    OBVIOUS
  <2>2. PICK removed : removed =
          [r EXCEPT !.object = RemoveAll(r.object, Surplus(r.object, Len(modules)), t)]
    OBVIOUS
  <2>3. PICK set : set = SetAll(removed, modules, t)
    OBVIOUS
  <2>4. PICK u : u = Cyclic(ManifestID,
          [ update   |-> r.updateNumber + 1,
            at       |-> [id \in DOMAIN r.objects |->
                            [offset |-> OffsetOf(r.objects, id), size |-> Len(r.objects[id]),
                             hashed |-> r.objects[id]]],
            versions |-> [n \in DOMAIN modules |->
                            set.object.modules[ObjectModuleID(n)].version] ],
          ObjectInterval, PriorityManifest)
    OBVIOUS
  <2>5. PICK committed : committed = SetObject(set, u, t)
    OBVIOUS
  <2>6. PICK over : over = [AddLoss(r, {}) EXCEPT !.err = "object"]
    OBVIOUS
  <2>7. q = IF Len(modules) > MaxObjectModules THEN over
            ELSE IF set.err # "none" THEN set
            ELSE [committed EXCEPT !.updateNumber = @ + 1, !.objectsDirty = FALSE, !.lastCommit = t]
    BY <1>2, <2>1, <2>2, <2>3, <2>4, <2>5, <2>6 DEF CommitObjects, CommitDue
  <2>8. DOMAIN over = Fields /\ over.err # "none" /\ over.object = r.object /\ Same(r, over, CommitFields)
    BY <2>6 DEF AddLoss, Same, Fields, NewRecorder, CommitFields
  <2>9. Committing(r, removed)
    <3>1. Shape(RemoveAll(r.object, Surplus(r.object, Len(modules)), t))
      BY RemoveAllFacts DEF Surplus, ObjectModules
    <3>2. QED BY <2>2, <3>1 DEF Committing, Same, Fields, NewRecorder
  <2>10. Committing(r, set)
    <3>1. PICK n \in Nat : DOMAIN modules = 1 .. n
      BY <2>1, PackedModulesFacts
    <3>2. QED BY <2>3, <2>9, <3>1, SetAllFacts
  <2>11. Committing(r, committed) /\ (committed.err = "none" => u.id \in DOMAIN committed.object.modules)
    BY <2>5, <2>10, SetObjectFacts
  <2>12. u.id = ManifestID
    BY <2>4 DEF Cyclic
  <2>13. PICK done : done = [committed EXCEPT !.updateNumber = @ + 1, !.objectsDirty = FALSE, !.lastCommit = t]
    OBVIOUS
  <2>14. /\ DOMAIN done = Fields /\ done.object = committed.object /\ done.err = committed.err
         /\ done.objectsDirty = FALSE /\ done.losses = committed.losses
         /\ Same(r, done, CommitFields)
    BY <2>11, <2>13 DEF Committing, Same, Fields, NewRecorder, CommitFields
  <2>15. committed.losses = r.losses /\ set.losses = r.losses
    BY <2>10, <2>11 DEF Committing, Same, Fields, NewRecorder
  <2>16. Same(r, set, CommitFields)
    BY <2>10 DEF Committing, Same, CommitFields
  <2>17. CASE q = over
    BY <2>8, <2>17 DEF ObjectsInstalled
  <2>18. CASE q = set /\ set.err # "none"
    BY <2>10, <2>16, <2>18 DEF Committing, ObjectsInstalled
  <2>19. CASE q = done
    BY <2>11, <2>12, <2>14, <2>15, <2>19 DEF Committing, ObjectsInstalled
  <2>20. QED BY <2>7, <2>13, <2>17, <2>18, <2>19
<1>3. QED BY <1>1, <1>2

(* The bootstraps.                                                         *)

BootstrapFields ==
  {"realtime", "object", "err", "rtBootstrap", "objBootstrap", "haveBootstraps", "bootstrapLatest"}

\* q is r with bootstraps refreshed
Refreshed(h, t, r, q) ==
  /\ Installing(h, t, r, q)
  /\ Same(r, q, BootstrapFields)
  /\ Others(r.realtime, q.realtime, "bootstrap")
  /\ Shape(q.object)
  /\ DOMAIN r.object.modules \subseteq DOMAIN q.object.modules

LEMMA RefreshRealtimeFacts ==
  ASSUME NEW h, NEW t \in Int, NEW p, NEW r, Installing(h, t, p, r), Shape(r.object),
         NEW q, q = RefreshRealtime(r, t)
  PROVE  Refreshed(h, t, r, q)
<1>1. PICK b : b = RealtimeBootstrap(r)
  OBVIOUS
<1>2. CASE b = r.rtBootstrap
  BY <1>1, <1>2 DEF RefreshRealtime, Refreshed, Installing, Same, Others
<1>3. CASE b # r.rtBootstrap
  <2>1. PICK s : s = [r EXCEPT !.rtBootstrap = b]
    OBVIOUS
  <2>2. DOMAIN s = Fields /\ s.realtime = r.realtime /\ s.err = r.err /\ s.object = r.object
    BY <2>1 DEF Installing, Fields, NewRecorder
  <2>3. PICK u : u = Cyclic(BootstrapID, b, DIIInterval, PriorityBootstrap)
    OBVIOUS
  <2>4. u.id[1] = "bootstrap"
    BY <2>3 DEF Cyclic, BootstrapID
  <2>5. q = SetRealtime(s, u, t)
    BY <1>1, <1>3, <2>1, <2>3 DEF RefreshRealtime
  <2>6. Installing(h, t, p, s)
    BY <2>2 DEF Installing
  <2>7. /\ Installing(h, t, s, q)
        /\ Same(s, q, {"realtime", "err"})
        /\ Others(s.realtime, q.realtime, u.id[1])
    BY <2>5, <2>6, SetRealtimeFacts
  <2>8. q.object = r.object
    BY <2>2, <2>7 DEF Same, Fields, NewRecorder
  <2>9. Same(r, q, BootstrapFields)
    BY <2>1, <2>2, <2>7 DEF Same, BootstrapFields
  <2>10. QED BY <2>2, <2>4, <2>7, <2>8, <2>9 DEF Refreshed, Installing
<1>4. QED BY <1>2, <1>3

LEMMA RefreshObjectFacts ==
  ASSUME NEW h, NEW t \in Int, NEW p, NEW r, Installing(h, t, p, r), Shape(r.object),
         NEW q, q = RefreshObject(r, t)
  PROVE  Refreshed(h, t, r, q)
<1>1. PICK b : b = ObjectBootstrap(r)
  OBVIOUS
<1>2. CASE q = r
  BY <1>1, <1>2 DEF Refreshed, Installing, Same, Others
<1>3. CASE q # r
  <2>1. PICK s : s = [r EXCEPT !.objBootstrap = b]
    OBVIOUS
  <2>2. DOMAIN s = Fields /\ s.realtime = r.realtime /\ s.err = r.err /\ s.object = r.object
    BY <2>1 DEF Installing, Fields, NewRecorder
  <2>3. PICK u : u = Cyclic(BootstrapID, b, DIIInterval, PriorityBootstrap)
    OBVIOUS
  <2>4. q = SetObject(s, u, t)
    BY <1>1, <1>3, <2>1, <2>3 DEF RefreshObject
  <2>5. Committing(s, s)
    BY <2>2 DEF Committing, Same
  <2>6. Committing(s, q) /\ \A id \in DOMAIN s.object.modules : id \in DOMAIN q.object.modules
    BY <2>4, <2>5, SetObjectFacts
  <2>7. q.realtime = r.realtime
    BY <2>2, <2>6 DEF Committing, Same, Fields, NewRecorder
  <2>8. Same(r, q, BootstrapFields)
    BY <2>1, <2>2, <2>6 DEF Committing, Same, BootstrapFields
  <2>9. QED BY <2>2, <2>6, <2>7, <2>8 DEF Refreshed, Installing, Others, Committing
<1>4. QED BY <1>2, <1>3

LEMMA RefreshBootstrapsFacts ==
  ASSUME NEW h, NEW t \in Int, NEW p, NEW r, Installing(h, t, p, r), Shape(r.object),
         NEW q, q = RefreshBootstraps(r, t)
  PROVE  Refreshed(h, t, r, q)
<1>1. CASE q = r
  BY <1>1 DEF Refreshed, Installing, Same, Others
<1>2. CASE q # r
  <2>1. PICK a : a = RefreshRealtime(r, t)
    OBVIOUS
  <2>2. PICK b : b = RefreshObject(a, t)
    OBVIOUS
  <2>3. Refreshed(h, t, r, a)
    BY <2>1, RefreshRealtimeFacts
  <2>4. Refreshed(h, t, a, b)
    BY <2>2, <2>3, RefreshObjectFacts DEF Refreshed
  <2>5. q = [b EXCEPT !.haveBootstraps = TRUE, !.realtime.touched = FALSE,
                      !.object.touched = FALSE, !.bootstrapLatest = Latest(r)]
    BY <1>2, <2>1, <2>2 DEF RefreshBootstraps
  <2>6. DOMAIN b = Fields /\ Shape(b.realtime) /\ Shape(b.object)
    BY <2>4 DEF Refreshed, Installing
  <2>7. /\ DOMAIN q = Fields /\ q.err = b.err
        /\ q.realtime = [b.realtime EXCEPT !.touched = FALSE]
        /\ q.object = [b.object EXCEPT !.touched = FALSE]
        /\ Same(b, q, BootstrapFields)
    BY <2>5, <2>6 DEF Same, Fields, NewRecorder, BootstrapFields
  <2>8. /\ Shape(q.realtime) /\ Shape(q.object)
        /\ q.realtime.modules = b.realtime.modules /\ q.object.modules = b.object.modules
    BY <2>6, <2>7 DEF Shape, CarouselFields, NewCarousel
  <2>9. Same(r, q, BootstrapFields)
    BY <2>3, <2>4, <2>7 DEF Refreshed, Same
  <2>10. Others(r.realtime, q.realtime, "bootstrap")
    BY <2>3, <2>4, <2>8 DEF Refreshed, Others
  <2>11. Installing(h, t, r, q)
    BY <2>3, <2>4, <2>7, <2>8 DEF Refreshed, Installing, Fresh
  <2>12. DOMAIN r.object.modules \subseteq DOMAIN q.object.modules
    BY <2>3, <2>4, <2>8 DEF Refreshed
  <2>13. QED BY <2>8, <2>9, <2>10, <2>11, <2>12 DEF Refreshed
<1>3. QED BY <1>1, <1>2

(* The whole installation.                                                 *)

InstallFields ==
  {"realtime", "err", "pending", "losses", "lossSeq", "codecDirty",
   "avmap", "avmapDirty", "lastAVMap"} \cup CommitFields \cup BootstrapFields

MapDue(r, t) == r.avmapDirty /\ t - r.lastAVMap >= SegmentInterval

\* q is r with everything installed at t
MapInstalled(t, r, q) ==
  IF MapDue(r, t)
  THEN /\ q.avmap = {Noted(slot) : slot \in r.avmap}
       /\ q.avmapDirty = FALSE
       /\ \A slot \in r.avmap : InMap(q, slot.entry)
  ELSE /\ q.avmap = r.avmap
       /\ q.avmapDirty = r.avmapDirty /\ q.lastAVMap = r.lastAVMap
       /\ \A e : InMap(r, e) => InMap(q, e)

Committed(t, r, q) ==
  IF CommitDue(r, t)
  THEN q.objectsDirty = FALSE /\ ManifestID \in DOMAIN q.object.modules
  ELSE /\ q.objectsDirty = r.objectsDirty
       /\ ManifestID \in DOMAIN r.object.modules => ManifestID \in DOMAIN q.object.modules

SegmentsInstalled(r, q) ==
  /\ q.pending = <<>> /\ q.losses = <<>>
  /\ Distinct(r.pending) =>
       \A i \in DOMAIN r.pending : ~ r.pending[i].remove => OnAir(q, r.pending[i].update)
  /\ r.losses # <<>> =>
       \E id \in DOMAIN q.realtime.modules :
         id[1] = "loss" /\ q.realtime.modules[id].stored.entries = r.losses
  /\ r.pending = <<>> /\ r.losses = <<>> =>
       \A id \in DOMAIN r.realtime.modules : id[1] \in {"timed", "loss"} =>
         /\ id \in DOMAIN q.realtime.modules
         /\ q.realtime.modules[id].stored = r.realtime.modules[id].stored
  /\ \A id, x : id[1] = "timed" => (InCarousel(q.realtime, id, x) <=> On(r, id, x))

\* what an installation needs
Ready(h, t, r) ==
  /\ Installing(h, t, r, r)
  /\ Shape(r.object) /\ IsObjects(r.objects)
  /\ OfSegments(r.pending) /\ \E n \in Nat : DOMAIN r.pending = 1 .. n
  /\ r.avmap \subseteq Slot
  /\ r.avmapDirty \in BOOLEAN /\ r.objectsDirty \in BOOLEAN

LEMMA InstallAllFacts ==
  ASSUME NEW h, NEW t \in Int, NEW r, Ready(h, t, r), NEW q, q = InstallAll(r, t), q.err = "none"
  PROVE  /\ r.err = "none"
         /\ Installing(h, t, r, q) /\ Shape(q.object)
         /\ Same(r, q, InstallFields)
         /\ SegmentsInstalled(r, q)
         /\ MapInstalled(t, r, q)
         /\ Committed(t, r, q)
<1>1. r.err = "none"
  BY DEF InstallAll
<1>2. PICK r1 : r1 = InstallPending(r, t)
  OBVIOUS
<1>3. PICK r2 : r2 = InstallLosses(r1, t)
  OBVIOUS
<1>4. PICK r3 : r3 = InstallCodecConfig(r2, t)
  OBVIOUS
<1>5. PICK r4 : r4 = InstallAVMap(r3, t)
  OBVIOUS
<1>6. PICK r5 : r5 = CommitObjects(r4, t)
  OBVIOUS
<1>7. q = RefreshBootstraps(r5, t)
  BY <1>1, <1>2, <1>3, <1>4, <1>5, <1>6 DEF InstallAll
<1>8. /\ Installing(h, t, r, r1)
      /\ Same(r, r1, {"realtime", "err", "pending"})
      /\ r1.pending = <<>>
      /\ Others(r.realtime, r1.realtime, "timed")
      /\ r.pending = <<>> => r1.realtime = r.realtime
      /\ r1.err = "none" /\ Distinct(r.pending) =>
           \A i \in DOMAIN r.pending : ~ r.pending[i].remove => OnAir(r1, r.pending[i].update)
      /\ r1.err = "none" => Settled(r.pending, DOMAIN r.pending, r.realtime, r1.realtime)
  <2>1. PICK n \in Nat : DOMAIN r.pending = 1 .. n
    BY DEF Ready
  <2>2. Installing(h, t, r, r) /\ OfSegments(r.pending)
    BY DEF Ready
  <2>3. PendingInstalled(h, t, r, r1)
    BY <1>2, <2>1, <2>2, InstallPendingFacts
  <2>4. QED BY <2>3 DEF PendingInstalled
<1>9. /\ Installing(h, t, r1, r2)
      /\ Same(r1, r2, {"realtime", "err", "losses", "lossSeq"})
      /\ r2.losses = <<>>
      /\ Others(r1.realtime, r2.realtime, "loss")
      /\ r1.losses = <<>> => r2.realtime = r1.realtime
      /\ r2.err = "none" /\ r1.losses # <<>> =>
           \E id \in DOMAIN r2.realtime.modules :
             id[1] = "loss" /\ r2.realtime.modules[id].stored.entries = r1.losses
  BY <1>3, <1>8, InstallLossesFacts
<1>10. /\ Installing(h, t, r2, r3)
       /\ Same(r2, r3, {"realtime", "err", "codecDirty"})
       /\ Others(r2.realtime, r3.realtime, "codec")
  BY <1>4, <1>9, InstallCodecConfigFacts
<1>11. /\ r3.avmap = r.avmap /\ r3.avmapDirty = r.avmapDirty /\ r3.lastAVMap = r.lastAVMap
       /\ r3.object = r.object /\ r3.objects = r.objects /\ r3.losses = <<>> /\ r3.pending = <<>>
       /\ r3.objectsDirty = r.objectsDirty /\ r3.lastCommit = r.lastCommit
       /\ r1.losses = r.losses
       /\ Same(r, r3, InstallFields)
  BY <1>8, <1>9, <1>10 DEF Installing, Same, Fields, NewRecorder, InstallFields
<1>12. /\ Installing(h, t, r3, r4)
       /\ Same(r3, r4, {"realtime", "err", "avmap", "avmapDirty", "lastAVMap"})
       /\ Others(r3.realtime, r4.realtime, "avmap")
       /\ \/ r4 = r3 /\ ~ MapDue(r3, t)
          \/ /\ MapDue(r3, t)
             /\ r4.avmap = {Noted(slot) : slot \in r3.avmap}
             /\ r4.avmapDirty = FALSE /\ r4.lastAVMap = t
             /\ r4.err = "none" => \A slot \in r3.avmap : InMap(r4, slot.entry)
  <2>1. r3.avmap \subseteq Slot
    BY <1>11 DEF Ready
  <2>5. /\ Installing(h, t, r3, r4)
        /\ Same(r3, r4, {"realtime", "err", "avmap", "avmapDirty", "lastAVMap"})
        /\ Others(r3.realtime, r4.realtime, "avmap")
    BY <1>5, <1>10, <2>1, InstallAVMapFacts
  <2>2. \/ r4 = r3 /\ ~ (r3.avmapDirty /\ t - r3.lastAVMap >= SegmentInterval)
        \/ MapNoted(t, r3, r4)
    BY <1>5, <1>10, <2>1, InstallAVMapFacts
  <2>3. ~ MapDue(r3, t) => r4 = r3
    BY <1>5 DEF InstallAVMap, MapDue
  <2>4. QED BY <2>5, <2>2, <2>3 DEF MapDue, MapNoted
<1>13. /\ r4.object = r.object /\ r4.objects = r.objects /\ r4.losses = <<>> /\ r4.pending = <<>>
       /\ r4.objectsDirty = r.objectsDirty /\ r4.lastCommit = r.lastCommit
       /\ DOMAIN r4 = Fields
       /\ Same(r, r4, InstallFields)
  BY <1>11, <1>12 DEF Installing, Same, Fields, NewRecorder, InstallFields
<1>14. /\ DOMAIN r5 = Fields /\ Shape(r5.object)
       /\ Same(r4, r5, CommitFields)
       /\ r5.err = "none" => r4.err = "none" /\ r5.losses = r4.losses
       /\ \/ r5 = r4 /\ ~ CommitDue(r4, t)
          \/ /\ CommitDue(r4, t)
             /\ r5.err = "none" => r5.objectsDirty = FALSE /\ ManifestID \in DOMAIN r5.object.modules
  <2>1. Shape(r4.object) /\ IsObjects(r4.objects)
    BY <1>13 DEF Ready
  <2>2. /\ DOMAIN r5 = Fields /\ Shape(r5.object)
        /\ Same(r4, r5, CommitFields)
        /\ r5.err = "none" => r4.err = "none" /\ r5.losses = r4.losses
        /\ \/ r5 = r4 /\ ~ CommitDue(r4, t)
           \/ r5.err = "none" => r5.objectsDirty = FALSE /\ ManifestID \in DOMAIN r5.object.modules
    <3>1. ObjectsInstalled(t, r4, r5)
      BY <1>6, <1>13, <2>1, CommitObjectsFacts
    <3>2. QED BY <3>1 DEF ObjectsInstalled
  <2>3. ~ CommitDue(r4, t) => r5 = r4
    BY <1>6 DEF CommitObjects, CommitDue
  <2>4. QED BY <2>2, <2>3
<1>15. r5.realtime = r4.realtime /\ r5.avmap = r4.avmap /\ r5.avmapDirty = r4.avmapDirty
       /\ r5.lastAVMap = r4.lastAVMap /\ r5.pending = r4.pending
  BY <1>13, <1>14 DEF Same, Fields, NewRecorder, CommitFields
<1>16. Installing(h, t, r4, r5)
  BY <1>12, <1>14, <1>15 DEF Installing
<1>17. Refreshed(h, t, r5, q)
  BY <1>7, <1>14, <1>16, RefreshBootstrapsFacts
<1>18. /\ r5.err = "none" /\ r4.err = "none" /\ r3.err = "none" /\ r2.err = "none" /\ r1.err = "none"
  BY <1>9, <1>10, <1>12, <1>14, <1>17 DEF Refreshed, Installing
<1>19. /\ q.losses = r5.losses /\ q.pending = r5.pending /\ q.avmap = r5.avmap
       /\ q.avmapDirty = r5.avmapDirty /\ q.lastAVMap = r5.lastAVMap
       /\ q.objectsDirty = r5.objectsDirty
  BY <1>14, <1>17 DEF Refreshed, Same, Fields, NewRecorder, BootstrapFields
<1>20. Same(r, q, InstallFields)
  BY <1>13, <1>14, <1>17 DEF Refreshed, Same, InstallFields
<1>21. Installing(h, t, r, q)
  BY <1>1, <1>17 DEF Refreshed, Installing
<1>22. Committed(t, r, q)
  <2>1. CommitDue(r, t) <=> CommitDue(r4, t)
    BY <1>13 DEF CommitDue
  <2>2. CASE CommitDue(r, t)
    BY <1>14, <1>17, <1>18, <1>19, <2>1, <2>2 DEF Committed, Refreshed
  <2>3. CASE ~ CommitDue(r, t)
    BY <1>13, <1>14, <1>17, <1>19, <2>1, <2>3 DEF Committed, Refreshed
  <2>4. QED BY <2>2, <2>3
<1>23. Others(r4.realtime, q.realtime, "bootstrap")
  BY <1>15, <1>17 DEF Refreshed
<1>24. MapInstalled(t, r, q)
  <2>1. MapDue(r, t) <=> MapDue(r3, t)
    BY <1>11 DEF MapDue
  <2>2. AVMapID[1] = "avmap"
    BY DEF AVMapID
  <2>3. \A e : InMap(r4, e) => InMap(q, e)
    BY <1>23, <2>2 DEF Others, InMap
  <2>4. \A e : InMap(r, e) => InMap(r3, e)
    BY <1>8, <1>9, <1>10, <2>2 DEF Others, InMap
  <2>5. CASE MapDue(r, t)
    BY <1>11, <1>12, <1>15, <1>18, <1>19, <2>1, <2>3, <2>5 DEF MapInstalled
  <2>6. CASE ~ MapDue(r, t)
    BY <1>11, <1>12, <1>15, <1>19, <2>1, <2>3, <2>4, <2>6 DEF MapInstalled
  <2>7. QED BY <2>5, <2>6
<1>25. SegmentsInstalled(r, q)
  <2>1. q.pending = <<>> /\ q.losses = <<>>
    BY <1>13, <1>14, <1>15, <1>18, <1>19
  <2>2. ASSUME Distinct(r.pending), NEW i \in DOMAIN r.pending, ~ r.pending[i].remove
        PROVE  OnAir(q, r.pending[i].update)
    <3>1. PICK u : u = r.pending[i].update
      OBVIOUS
    <3>2. OnAir(r1, u)
      BY <1>8, <1>18, <2>2, <3>1
    <3>3. u.id[1] = "timed"
      BY <2>2, <3>1 DEF Ready, OfSegments, PendingID
    <3>4. OnAir(r4, u)
      BY <1>9, <1>10, <1>12, <3>2, <3>3 DEF Others, OnAir
    <3>5. OnAir(q, u)
      BY <1>23, <3>3, <3>4 DEF Others, OnAir
    <3>6. QED BY <3>1, <3>5
  <2>3. ASSUME r.losses # <<>>
        PROVE  \E id \in DOMAIN q.realtime.modules :
                 id[1] = "loss" /\ q.realtime.modules[id].stored.entries = r.losses
    <3>1. PICK id \in DOMAIN r2.realtime.modules :
            id[1] = "loss" /\ r2.realtime.modules[id].stored.entries = r.losses
      BY <1>9, <1>11, <1>18, <2>3
    <3>2. id \in DOMAIN r4.realtime.modules /\ r4.realtime.modules[id] = r2.realtime.modules[id]
      BY <1>10, <1>12, <3>1 DEF Others
    <3>3. id \in DOMAIN q.realtime.modules /\ q.realtime.modules[id] = r4.realtime.modules[id]
      BY <1>23, <3>1, <3>2 DEF Others
    <3>4. QED BY <3>1, <3>2, <3>3
  <2>4. ASSUME r.pending = <<>>, r.losses = <<>>,
               NEW id \in DOMAIN r.realtime.modules, id[1] \in {"timed", "loss"}
        PROVE  /\ id \in DOMAIN q.realtime.modules
               /\ q.realtime.modules[id].stored = r.realtime.modules[id].stored
    <3>1. r2.realtime = r.realtime
      BY <1>8, <1>9, <1>11, <2>4
    <3>2. id \in DOMAIN r4.realtime.modules /\ r4.realtime.modules[id] = r2.realtime.modules[id]
      BY <1>10, <1>12, <2>4, <3>1 DEF Others
    <3>3. id \in DOMAIN q.realtime.modules /\ q.realtime.modules[id] = r4.realtime.modules[id]
      BY <1>23, <2>4, <3>2 DEF Others
    <3>4. QED BY <3>1, <3>2, <3>3
  <2>6. ASSUME NEW id, NEW x, id[1] = "timed"
        PROVE  InCarousel(q.realtime, id, x) <=> On(r, id, x)
    <3>1. InCarousel(r1.realtime, id, x) <=> On(r, id, x)
      BY <1>8, <1>18 DEF Settled, On
    <3>2. InCarousel(r4.realtime, id, x) <=> InCarousel(r1.realtime, id, x)
      BY <1>9, <1>10, <1>12, <2>6 DEF Others, InCarousel
    <3>3. InCarousel(q.realtime, id, x) <=> InCarousel(r4.realtime, id, x)
      BY <1>23, <2>6 DEF Others, InCarousel
    <3>4. QED BY <3>1, <3>2, <3>3
  <2>5. QED BY <2>1, <2>2, <2>3, <2>4, <2>6 DEF SegmentsInstalled
<1>26. Shape(q.object)
  BY <1>17 DEF Refreshed
<1>27. QED BY <1>1, <1>20, <1>21, <1>22, <1>24, <1>25, <1>26
-----------------------------------------------------------------------------
(* Closing a segment.                                                      *)

Record == [id : Nat, size : Nat, bulk : BOOLEAN]

Part ==
  [ epoch : Nat, seq : Nat, part : Nat, count : Nat, duration : Nat, records : Seq(Record) ]

TimedIds == {"timed"} \X Nat \X Nat

PartUpdate ==
  [ id : TimedIds, stored : Part, interval : Nat, retries : Nat, retryInterval : Nat,
    once : BOOLEAN, priority : Nat ]

PendingEntry == [remove : {FALSE}, update : PartUpdate] \cup [remove : {TRUE}, id : TimedIds]

Loss == [epoch : Nat, missing : SUBSET Nat]

\* the fold that splits a segment into parts
InParts(parts) == UNION {IDs(parts[k]) : k \in DOMAIN parts}

PartStep(in, acc, x) == SplitStep(acc, x)

PartKept(in, done, acc) ==
  /\ DOMAIN acc = {"parts", "dropped", "err"}
  /\ acc.parts \in Seq(Seq(Record)) /\ Len(acc.parts) <= MaxSegmentParts
  /\ acc.dropped \in Seq(Record)
  /\ {in[j].id : j \in done} \subseteq InParts(acc.parts) \cup IDs(acc.dropped)
  /\ acc.parts = <<>> => acc.dropped = <<>> /\ ~ acc.err

Parts == INSTANCE FoldFacts WITH Step <- PartStep, Keeps <- PartKept

LEMMA IDsOfAppend ==
  ASSUME NEW T, NEW s \in Seq(T), NEW x \in T
  PROVE  IDs(Append(s, x)) = IDs(s) \cup {x.id}
<1>1. PICK q : q = Append(s, x)
  OBVIOUS
<1>2. Len(s) \in Nat /\ DOMAIN q = 1 .. Len(s) + 1 /\ DOMAIN s = 1 .. Len(s)
  BY <1>1
<1>3. q[Len(s) + 1] = x /\ \A i \in 1 .. Len(s) : q[i] = s[i]
  BY <1>1
<1>4. Range(q) = Range(s) \cup {x}
  <2>1. \A i \in 1 .. Len(s) + 1 : i \in 1 .. Len(s) \/ i = Len(s) + 1
    BY <1>2
  <2>2. Len(s) + 1 \in DOMAIN q /\ \A i \in 1 .. Len(s) : i \in DOMAIN q
    BY <1>2
  <2>3. QED BY <1>2, <1>3, <2>1, <2>2 DEF Range
<1>5. QED BY <1>1, <1>4 DEF IDs

LEMMA PartStepKeeps ==
  ASSUME NEW in, NEW n \in Nat, in \in Seq(Record), n = Len(in), NEW i \in 1 .. n,
         NEW acc, PartKept(in, 1 .. (i - 1), acc)
  PROVE  PartKept(in, 1 .. i, PartStep(in, acc, in[i]))
<1>1. PICK x : x = in[i]
  OBVIOUS
<1>2. x \in Record
  BY <1>1
<1>3. PICK q : q = SplitStep(acc, x)
  OBVIOUS
<1>4. PICK k : k = Len(acc.parts)
  OBVIOUS
<1>5. /\ acc.parts \in Seq(Seq(Record)) /\ k \in Nat /\ k <= MaxSegmentParts
      /\ DOMAIN acc.parts = 1 .. k
      /\ acc.dropped \in Seq(Record) /\ DOMAIN acc = {"parts", "dropped", "err"}
  BY <1>4 DEF PartKept
<1>6. {in[j].id : j \in 1 .. i} = {in[j].id : j \in 1 .. (i - 1)} \cup {x.id}
  <2>1. \A j \in 1 .. i : j \in 1 .. (i - 1) \/ j = i
    OBVIOUS
  <2>2. i \in 1 .. i /\ \A j \in 1 .. (i - 1) : j \in 1 .. i
    OBVIOUS
  <2>3. QED BY <1>1, <2>1, <2>2
<1>7. SUFFICES /\ DOMAIN q = {"parts", "dropped", "err"}
               /\ q.parts \in Seq(Seq(Record)) /\ Len(q.parts) <= MaxSegmentParts
               /\ q.dropped \in Seq(Record)
               /\ InParts(acc.parts) \cup IDs(acc.dropped) \cup {x.id}
                    \subseteq InParts(q.parts) \cup IDs(q.dropped)
  <2>1. ASSUME q.parts = <<>> PROVE FALSE
    <3>1. MaxSegmentParts \in Nat \ {0}
      BY RecorderAssumption
    <3>2. CASE acc.err \/ acc.dropped # <<>>
      <4>1. q = [acc EXCEPT !.dropped = Append(acc.dropped, x)]
        BY <1>3, <3>2 DEF SplitStep
      <4>2. acc.parts = <<>>
        BY <1>5, <2>1, <4>1
      <4>3. QED BY <3>2, <4>2 DEF PartKept
    <3>3. CASE /\ ~ (acc.err \/ acc.dropped # <<>>)
               /\ q = [acc EXCEPT !.parts[k] = Append(acc.parts[k], x)] /\ k > 0
      <4>1. q.parts = [acc.parts EXCEPT ![k] = Append(acc.parts[k], x)]
        BY <1>5, <3>3
      <4>2. DOMAIN q.parts = 1 .. k /\ 1 \in 1 .. k
        BY <1>5, <3>3, <4>1
      <4>3. QED BY <2>1, <4>2
    <3>4. CASE q = [acc EXCEPT !.dropped = <<x>>] /\ k = MaxSegmentParts
      <4>1. q.parts = acc.parts
        BY <1>5, <3>4
      <4>2. QED BY <1>5, <2>1, <3>1, <3>4, <4>1
    <3>5. CASE q = [acc EXCEPT !.parts = Append(acc.parts, <<x>>), !.err = x.size > Capacity]
      <4>1. q.parts = Append(acc.parts, <<x>>)
        BY <1>5, <3>5
      <4>2. Len(q.parts) = k + 1
        BY <1>4, <1>5, <4>1
      <4>3. QED BY <1>5, <2>1, <4>2
    <3>6. \/ acc.err \/ acc.dropped # <<>>
          \/ /\ ~ (acc.err \/ acc.dropped # <<>>)
             /\ q = [acc EXCEPT !.parts[k] = Append(acc.parts[k], x)] /\ k > 0
          \/ q = [acc EXCEPT !.dropped = <<x>>] /\ k = MaxSegmentParts
          \/ q = [acc EXCEPT !.parts = Append(acc.parts, <<x>>), !.err = x.size > Capacity]
      BY <1>3, <1>4 DEF SplitStep
    <3>7. QED BY <3>2, <3>3, <3>4, <3>5, <3>6
  <2>2. QED BY <1>1, <1>3, <1>6, <2>1 DEF PartKept, PartStep
<1>8. CASE q = [acc EXCEPT !.dropped = Append(acc.dropped, x)]
  <2>1. q.parts = acc.parts /\ q.dropped = Append(acc.dropped, x) /\ DOMAIN q = DOMAIN acc
    BY <1>5, <1>8
  <2>2. IDs(q.dropped) = IDs(acc.dropped) \cup {x.id} /\ q.dropped \in Seq(Record)
    BY <1>2, <1>5, <2>1, IDsOfAppend
  <2>3. QED BY <1>4, <1>5, <2>1, <2>2
<1>9. CASE q = [acc EXCEPT !.parts[k] = Append(acc.parts[k], x)] /\ k > 0
  <2>1. /\ q.parts = [acc.parts EXCEPT ![k] = Append(acc.parts[k], x)]
        /\ q.dropped = acc.dropped /\ DOMAIN q = DOMAIN acc
    BY <1>5, <1>9
  <2>2. k \in 1 .. k /\ acc.parts[k] \in Seq(Record)
    BY <1>4, <1>5, <1>9
  <2>3. Append(acc.parts[k], x) \in Seq(Record) /\ IDs(Append(acc.parts[k], x)) = IDs(acc.parts[k]) \cup {x.id}
    BY <1>2, <2>2, IDsOfAppend
  <2>4. q.parts \in Seq(Seq(Record)) /\ Len(q.parts) = k /\ DOMAIN q.parts = 1 .. k
    BY <1>4, <1>5, <2>1, <2>2, <2>3
  <2>5. q.parts[k] = Append(acc.parts[k], x) /\ \A j \in 1 .. k : j # k => q.parts[j] = acc.parts[j]
    BY <1>5, <2>1, <2>2
  <2>6. InParts(acc.parts) \cup {x.id} \subseteq InParts(q.parts)
    <3>1. \A j \in 1 .. k : IDs(acc.parts[j]) \subseteq IDs(q.parts[j])
      BY <2>3, <2>5
    <3>2. x.id \in IDs(q.parts[k])
      BY <2>3, <2>5
    <3>3. \A j \in DOMAIN acc.parts : j \in DOMAIN q.parts /\ IDs(acc.parts[j]) \subseteq IDs(q.parts[j])
      BY <1>5, <2>4, <3>1
    <3>4. k \in DOMAIN q.parts
      BY <2>2, <2>4
    <3>5. InParts(acc.parts) \subseteq InParts(q.parts)
      BY <3>3 DEF InParts
    <3>6. x.id \in InParts(q.parts)
      BY <3>2, <3>4 DEF InParts
    <3>7. QED BY <3>5, <3>6
  <2>7. QED BY <1>5, <2>1, <2>4, <2>6
<1>10. CASE q = [acc EXCEPT !.dropped = <<x>>] /\ acc.dropped = <<>>
  <2>1. q.parts = acc.parts /\ q.dropped = <<x>> /\ DOMAIN q = DOMAIN acc
    BY <1>5, <1>10
  <2>2. IDs(acc.dropped) = {}
    BY <1>10 DEF IDs, Range
  <2>3. x.id \in IDs(<<x>>)
    BY DEF IDs, Range
  <2>4. QED BY <1>2, <1>4, <1>5, <2>1, <2>2, <2>3
<1>11. CASE /\ q = [acc EXCEPT !.parts = Append(acc.parts, <<x>>), !.err = x.size > Capacity]
            /\ k # MaxSegmentParts
  <2>1. q.parts = Append(acc.parts, <<x>>) /\ q.dropped = acc.dropped /\ DOMAIN q = DOMAIN acc
    BY <1>5, <1>11
  <2>2. <<x>> \in Seq(Record) /\ x.id \in IDs(<<x>>)
    BY <1>2 DEF IDs, Range
  <2>3. /\ q.parts \in Seq(Seq(Record)) /\ Len(q.parts) = k + 1 /\ DOMAIN q.parts = 1 .. k + 1
        /\ q.parts[k + 1] = <<x>> /\ \A j \in 1 .. k : q.parts[j] = acc.parts[j]
    BY <1>4, <1>5, <2>1, <2>2
  <2>4. k + 1 <= MaxSegmentParts
    <3>1. MaxSegmentParts \in Nat
      BY RecorderAssumption
    <3>2. QED BY <1>5, <1>11, <3>1
  <2>5. InParts(acc.parts) \cup {x.id} \subseteq InParts(q.parts)
    <3>1. k + 1 \in DOMAIN q.parts /\ \A j \in 1 .. k : j \in DOMAIN q.parts
      BY <1>5, <2>3
    <3>2. QED BY <1>5, <2>2, <2>3, <3>1 DEF InParts
  <2>6. QED BY <1>5, <2>1, <2>3, <2>4, <2>5
<1>12. QED
  <2>1. \/ q = [acc EXCEPT !.dropped = Append(acc.dropped, x)]
        \/ q = [acc EXCEPT !.parts[k] = Append(acc.parts[k], x)] /\ k > 0
        \/ q = [acc EXCEPT !.dropped = <<x>>] /\ acc.dropped = <<>>
        \/ /\ q = [acc EXCEPT !.parts = Append(acc.parts, <<x>>), !.err = x.size > Capacity]
           /\ k # MaxSegmentParts
    BY <1>3, <1>4 DEF SplitStep
  <2>2. QED BY <1>8, <1>9, <1>10, <1>11, <2>1

\* every record is in a part or dropped, and there are not too many parts
LEMMA SplitSegmentFacts ==
  ASSUME NEW s \in Seq(Record), NEW q, q = SplitSegment(s)
  PROVE  /\ q.parts \in Seq(Seq(Record)) /\ Len(q.parts) <= MaxSegmentParts
         /\ q.dropped \in Seq(Record)
         /\ IDs(s) \subseteq InParts(q.parts) \cup IDs(q.dropped)
         /\ s # <<>> => q.parts # <<>>
<1> DEFINE r == [parts |-> <<>>, dropped |-> <<>>, err |-> FALSE]
<1>1. q = Parts!Fold(s, r, s)
  BY DEF SplitSegment, Parts!Fold, Parts!FoldLeft, FoldLeft, Parts!MapThenFoldSet,
     MapThenFoldSet, Parts!Max, Max, PartStep
<1>2. PICK n \in Nat : n = Len(s) /\ DOMAIN s = 1 .. n
  OBVIOUS
<1>3. PartKept(s, 1 .. 0, r)
  <2>1. {s[j].id : j \in 1 .. 0} = {}
    OBVIOUS
  <2>2. MaxSegmentParts \in Nat
    BY RecorderAssumption
  <2>3. QED BY <2>1, <2>2 DEF PartKept
<1>4. \A i \in 1 .. n : \A acc :
        PartKept(s, 1 .. (i - 1), acc) => PartKept(s, 1 .. i, PartStep(s, acc, s[i]))
  BY <1>2, PartStepKeeps
<1>5. PartKept(s, 1 .. n, Parts!Fold(s, r, s))
  <2> HIDE DEF r
  <2>1. QED BY <1>2, <1>3, <1>4, Parts!FoldKeeps
<1>6. {s[j].id : j \in 1 .. n} = IDs(s)
  BY <1>2 DEF IDs, Range
<1>7. ASSUME s # <<>> PROVE q.parts # <<>>
  <2>1. 1 \in DOMAIN s
    BY <1>2, <1>7
  <2>2. s[1].id \in IDs(s)
    BY <2>1 DEF IDs, Range
  <2>3. InParts(<<>>) = {} /\ IDs(<<>>) = {}
    BY DEF InParts, IDs, Range
  <2>4. QED BY <1>1, <1>5, <1>6, <2>2, <2>3 DEF PartKept
<1>8. QED BY <1>1, <1>5, <1>6, <1>7 DEF PartKept
-----------------------------------------------------------------------------
(* Arithmetic: the ring's slots, the segments of a time, the greater and   *)
(* the smaller of two numbers.                                             *)

LEMMA Division ==
  ASSUME NEW d \in Int, d > 0, NEW a \in Int
  PROVE  a = d * (a \div d) + (a % d)
OBVIOUS

LEMMA Quotient ==
  ASSUME NEW d \in Int, d > 0, NEW a \in Nat
  PROVE  a \div d \in Nat /\ a % d \in Nat /\ a % d < d
OBVIOUS

\* numbers less than the modulus apart
LEMMA SlotsApart ==
  ASSUME NEW d \in Int, d > 0, NEW a \in Nat, NEW b \in Nat, 0 < a - b, a - b < d
  PROVE  a % d # b % d
<1>1. SUFFICES ASSUME a % d = b % d PROVE FALSE
  OBVIOUS
<1>2. PICK q \in Nat : q = a \div d
  BY Quotient
<1>3. PICK p \in Nat : p = b \div d
  BY Quotient
<1>4. PICK m \in Nat : m = a % d
  BY Quotient
<1>5. a = d * q + m /\ b = d * p + m
  BY <1>4, <1>1, <1>2, <1>3, Division
<1>6. a - b = d * q - d * p
  BY <1>5
<1>7. d * q - d * p = d * (q - p)
  OBVIOUS
<1>8. CASE q - p <= 0
  <2>1. d * (q - p) <= 0
    BY <1>8
  <2>2. QED BY <1>6, <1>7, <2>1
<1>9. CASE q - p >= 1
  <2>1. d * (q - p) >= d
    BY <1>9
  <2>2. QED BY <1>6, <1>7, <2>1
<1>10. QED BY <1>8, <1>9

\* a longer time has no smaller quotient
LEMMA QuotientMonotone ==
  ASSUME NEW d \in Int, d > 0, NEW a \in Nat, NEW b \in Nat, a <= b
  PROVE  a \div d <= b \div d
<1>1. PICK q \in Nat : q = a \div d
  BY Quotient
<1>2. PICK p \in Nat : p = b \div d
  BY Quotient
<1>3. PICK m \in Nat : m = a % d /\ m < d
  BY Quotient
<1>4. PICK n \in Nat : n = b % d /\ n < d
  BY Quotient
<1>5. a = d * q + m /\ b = d * p + n
  BY <1>1, <1>2, <1>3, <1>4, Division
<1>6. q <= p
  <2>1. SUFFICES ASSUME q - p >= 1 PROVE FALSE
    OBVIOUS
  <2>2. d * (q - p) >= d
    BY <2>1
  <2>3. d * (q - p) = d * q - d * p
    OBVIOUS
  <2>4. QED BY <1>3, <1>4, <1>5, <2>2, <2>3
<1>7. QED BY <1>1, <1>2, <1>6

\* and f units add at most f to it
LEMMA QuotientGrows ==
  ASSUME NEW d \in Int, d > 0, NEW a \in Nat, NEW b \in Nat, NEW f \in Nat, b <= a + f * d
  PROVE  b \div d <= a \div d + f
<1>1. PICK q \in Nat : q = a \div d
  BY Quotient
<1>2. PICK p \in Nat : p = b \div d
  BY Quotient
<1>3. PICK m \in Nat : m = a % d /\ m < d
  BY Quotient
<1>4. PICK n \in Nat : n = b % d /\ n < d
  BY Quotient
<1>5. a = d * q + m /\ b = d * p + n
  BY <1>1, <1>2, <1>3, <1>4, Division
<1>6. p <= q + f
  <2>1. SUFFICES ASSUME p - q - f >= 1 PROVE FALSE
    OBVIOUS
  <2>2. d * (p - q - f) >= d
    BY <2>1
  <2>3. d * (p - q - f) = d * p - d * q - f * d
    OBVIOUS
  <2>4. QED BY <1>3, <1>4, <1>5, <2>2, <2>3
<1>7. QED BY <1>1, <1>2, <1>6

LEMMA MaxOfTwo ==
  ASSUME NEW a \in Int, NEW b \in Int
  PROVE  Max({a, b}) \in {a, b} /\ Max({a, b}) >= a /\ Max({a, b}) >= b
<1>1. \E x \in {a, b} : \A y \in {a, b} : x >= y
  BY a >= b \/ b >= a
<1>2. QED BY <1>1 DEF Max

LEMMA MinOfTwo ==
  ASSUME NEW a \in Int, NEW b \in Int
  PROVE  Min({a, b}) \in {a, b} /\ Min({a, b}) <= a /\ Min({a, b}) <= b
<1>1. \E x \in {a, b} : \A y \in {a, b} : x <= y
  BY a >= b \/ b >= a
<1>2. QED BY <1>1 DEF Min
-----------------------------------------------------------------------------
(* The updates of a closed segment: its parts in their order, the removals *)
(* of the parts it does not have, then those of the segment that leaves    *)
(* the window.                                                             *)

LEMMA WindowFacts ==
  ASSUME NEW r, r.duration \in {LongDuration, ShortDuration}
  PROVE  RepeatWindow(r) \in Nat \ {0} /\ RepeatWindow(r) <= Ring
<1>1. r.duration \in Nat \ {0} /\ PlayoutLimit \in Nat /\ Ring \in Nat \ {0}
  BY RecorderAssumption
<1>2. PICK n : n = (PlayoutLimit + r.duration - 1) \div r.duration + 1
  OBVIOUS
<1>3. n \in Nat
  <2>1. PlayoutLimit + r.duration - 1 \in Nat /\ r.duration \in Int /\ r.duration > 0
    BY <1>1
  <2>2. (PlayoutLimit + r.duration - 1) \div r.duration \in Nat
    BY <2>1, Quotient
  <2>3. QED BY <1>2, <2>2
<1>4. PICK m : m = Max({n, 3})
  OBVIOUS
<1>5. m \in Nat /\ m >= 3
  BY <1>3, <1>4, MaxOfTwo
<1>6. RepeatWindow(r) = Min({m, Ring})
  BY <1>2, <1>4 DEF RepeatWindow
<1>7. Min({m, Ring}) \in {m, Ring} /\ Min({m, Ring}) <= Ring
  BY <1>1, <1>5, MinOfTwo
<1>8. QED BY <1>1, <1>5, <1>6, <1>7

\* what a recorder is made of while it closes segments
Segments(r) ==
  /\ DOMAIN r = Fields
  /\ r.epochID \in Nat /\ r.duration \in {LongDuration, ShortDuration}
  /\ r.pending \in Seq(PendingEntry)
  /\ r.losses \in Seq(Loss)
  /\ IsFiniteSet(DOMAIN r.open) /\ DOMAIN r.open \subseteq Nat
  /\ \A seq \in DOMAIN r.open : r.open[seq] \in Seq(Record)
  /\ r.closedSegments \in Nat /\ r.nextSeq \in Nat
  /\ r.avmap \subseteq Slot /\ r.avmapDirty \in BOOLEAN

\* an update of the segment of seq, or a removal
OfSegment(r, seq, e) ==
  LET slot == PendingID(e)[2] IN
  \/ slot = seq % Ring
  \/ e.remove /\ seq >= RepeatWindow(r) /\ slot = (seq - RepeatWindow(r)) % Ring

\* what the updates of the segment of seq are, one by one
UpdatesOf(r, seq, n, us) ==
  /\ DOMAIN us = 1 .. MaxSegmentParts + (IF seq < RepeatWindow(r) THEN 0 ELSE MaxSegmentParts)
  /\ \A i \in DOMAIN us :
       \/ /\ i \in 1 .. n /\ ~ us[i].remove /\ PendingID(us[i]) = TimedModuleID(seq, i - 1)
          /\ us[i].update.stored.epoch = r.epochID
          /\ us[i].update.stored.seq = seq /\ us[i].update.stored.count = n
       \/ /\ i \in n + 1 .. MaxSegmentParts /\ us[i].remove
          /\ PendingID(us[i]) = TimedModuleID(seq, i - 1)
       \/ /\ seq >= RepeatWindow(r) /\ i > MaxSegmentParts /\ us[i].remove
          /\ PendingID(us[i]) = TimedModuleID(seq - RepeatWindow(r), i - MaxSegmentParts - 1)

LEMMA ConcatFacts ==
  ASSUME NEW S, NEW a \in Seq(S), NEW b \in Seq(S)
  PROVE  a \o b \in Seq(S) /\ Len(a \o b) = Len(a) + Len(b)
OBVIOUS

LEMMA SegmentUpdatesFacts ==
  ASSUME NEW r, Segments(r), NEW seq \in DOMAIN r.open,
         NEW us, us = SegmentUpdates(r, seq),
         NEW parts, parts = SplitSegment(r.open[seq]).parts
  PROVE  /\ us \in Seq(PendingEntry)
         /\ \A i \in DOMAIN us : OfSegment(r, seq, us[i])
         /\ \A k \in DOMAIN parts :
              k \in DOMAIN us /\ ~ us[k].remove /\ us[k].update.stored.records = parts[k]
         /\ RepeatWindow(r) < Ring => Distinct(us)
         /\ UpdatesOf(r, seq, Len(parts), us)
<1>1. PICK w : w = RepeatWindow(r)
  OBVIOUS
<1>2. w \in Nat \ {0} /\ Ring \in Nat \ {0} /\ MaxSegmentParts \in Nat /\ seq \in Nat
  <2>1. w \in Nat \ {0}
    BY <1>1, WindowFacts DEF Segments
  <2>2. Ring \in Nat \ {0} /\ MaxSegmentParts \in Nat
    BY RecorderAssumption
  <2>3. QED BY <2>1, <2>2 DEF Segments
<1>3. PICK n : n = Len(parts)
  OBVIOUS
<1>4. parts \in Seq(Seq(Record)) /\ n \in Nat /\ n <= MaxSegmentParts /\ DOMAIN parts = 1 .. n
  BY <1>3, SplitSegmentFacts DEF Segments
<1>5. PICK once : once = Once(r.open[seq])
  OBVIOUS
<1>6. PICK a : a = [i \in 1 .. n |-> SegmentUpdate(r, seq, parts, i - 1, once)]
  OBVIOUS
<1>7. PICK b : b = [i \in 1 .. MaxSegmentParts - n |-> Removal(TimedModuleID(seq, n + i - 1))]
  OBVIOUS
<1>8. PICK c : c = IF seq < w THEN <<>>
                   ELSE [i \in 1 .. MaxSegmentParts |-> Removal(TimedModuleID(seq - w, i - 1))]
  OBVIOUS
<1>9. us = (a \o b) \o c
  BY <1>1, <1>3, <1>5, <1>6, <1>7, <1>8 DEF SegmentUpdates
<1>10. \A s \in Nat, k \in Nat :
         /\ TimedModuleID(s, k) \in TimedIds
         /\ TimedModuleID(s, k)[1] = "timed" /\ TimedModuleID(s, k)[2] = s % Ring
         /\ TimedModuleID(s, k)[3] = k
  BY <1>2, Quotient DEF TimedModuleID, TimedIds
<1>11. \A s \in Nat, k \in Nat :
         LET e == Removal(TimedModuleID(s, k)) IN
         e \in PendingEntry /\ e.remove /\ PendingID(e) = TimedModuleID(s, k)
  BY <1>10 DEF Removal, PendingEntry, PendingID
<1>12. \A i \in 1 .. n :
         LET e == SegmentUpdate(r, seq, parts, i - 1, once) IN
         /\ e \in PendingEntry /\ ~ e.remove /\ e.update.stored.records = parts[i]
         /\ PendingID(e) = TimedModuleID(seq, i - 1)
         /\ e.update.stored.epoch = r.epochID
         /\ e.update.stored.seq = seq /\ e.update.stored.count = n
  <2>1. SUFFICES ASSUME NEW i \in 1 .. n, NEW e, e = SegmentUpdate(r, seq, parts, i - 1, once)
                 PROVE  /\ e \in PendingEntry /\ ~ e.remove /\ e.update.stored.records = parts[i]
                        /\ PendingID(e) = TimedModuleID(seq, i - 1)
                        /\ e.update.stored.epoch = r.epochID
                        /\ e.update.stored.seq = seq /\ e.update.stored.count = n
    OBVIOUS
  <2>2. i - 1 \in Nat /\ (i - 1) + 1 = i /\ parts[i] \in Seq(Record)
    BY <1>4
  <2>3. once \in BOOLEAN
    BY <1>5 DEF Once
  <2>4. PICK stored : stored =
          [ epoch |-> r.epochID, seq |-> seq, part |-> i - 1, count |-> n,
            duration |-> r.duration, records |-> parts[i] ]
    OBVIOUS
  <2>5. /\ stored \in Part /\ stored.records = parts[i]
        /\ stored.epoch = r.epochID /\ stored.seq = seq /\ stored.count = n
    BY <1>2, <1>4, <2>2, <2>4, RecorderAssumption DEF Part, Segments
  <2>6. PICK u : u = [ id |-> TimedModuleID(seq, i - 1), stored |-> stored,
          interval |-> PlayoutLimit, retries |-> 1, retryInterval |-> SegmentInterval,
          once |-> once, priority |-> PriorityContent ]
    OBVIOUS
  <2>7. u \in PartUpdate
    BY <1>2, <1>10, <2>2, <2>3, <2>5, <2>6, RecorderAssumption DEF PartUpdate, PriorityContent
  <2>8. e = Install(u)
    BY <1>3, <2>1, <2>2, <2>4, <2>6 DEF SegmentUpdate
  <2>9. QED BY <2>5, <2>6, <2>7, <2>8 DEF Install, PendingEntry, PendingID
<1>13. a \in Seq(PendingEntry) /\ Len(a) = n
  <2>1. \A i \in 1 .. n : SegmentUpdate(r, seq, parts, i - 1, once) \in PendingEntry
    BY <1>12
  <2>2. QED BY <1>4, <1>6, <2>1
<1>14. b \in Seq(PendingEntry) /\ Len(b) = MaxSegmentParts - n
  <2>1. \A i \in 1 .. MaxSegmentParts - n : n + i - 1 \in Nat
    BY <1>2, <1>4
  <2>2. MaxSegmentParts - n \in Nat
    BY <1>2, <1>4
  <2>3. QED BY <1>2, <1>7, <1>11, <2>1, <2>2
<1>15. /\ c \in Seq(PendingEntry) /\ (Len(c) = 0 \/ (seq >= w /\ Len(c) = MaxSegmentParts))
       /\ Len(c) = IF seq < w THEN 0 ELSE MaxSegmentParts
  <2>1. CASE seq < w
    BY <1>8, <2>1
  <2>2. CASE ~ (seq < w)
    <3>1. seq - w \in Nat /\ seq >= w
      BY <1>2, <2>2
    <3>2. \A i \in 1 .. MaxSegmentParts : i - 1 \in Nat
      BY <1>2
    <3>3. QED BY <1>2, <1>8, <1>11, <2>2, <3>1, <3>2
  <2>3. QED BY <2>1, <2>2
<1>16. us \in Seq(PendingEntry) /\ Len(us) = MaxSegmentParts + Len(c)
  <2>1. PICK ab : ab = a \o b
    OBVIOUS
  <2>2. ab \in Seq(PendingEntry) /\ Len(ab) = MaxSegmentParts
    <3>1. ab \in Seq(PendingEntry) /\ Len(ab) = Len(a) + Len(b)
      BY <1>13, <1>14, <2>1, ConcatFacts
    <3>2. QED BY <1>2, <1>4, <1>13, <1>14, <3>1
  <2>3. us = ab \o c
    BY <1>9, <2>1
  <2>4. c \in Seq(PendingEntry) /\ ab \in Seq(PendingEntry)
    BY <1>15, <2>2
  <2>5. us \in Seq(PendingEntry) /\ Len(us) = Len(ab) + Len(c)
    BY <2>3, <2>4
  <2>6. QED BY <2>2, <2>5
<1>17. \A i \in DOMAIN us :
         \/ i \in 1 .. n /\ us[i] = SegmentUpdate(r, seq, parts, i - 1, once)
         \/ i \in n + 1 .. MaxSegmentParts /\ us[i] = Removal(TimedModuleID(seq, i - 1))
         \/ /\ seq >= w /\ i > MaxSegmentParts /\ i - MaxSegmentParts - 1 \in Nat
            /\ us[i] = Removal(TimedModuleID(seq - w, i - MaxSegmentParts - 1))
  <2>1. SUFFICES ASSUME NEW i \in 1 .. MaxSegmentParts + Len(c)
                 PROVE  \/ i \in 1 .. n /\ us[i] = SegmentUpdate(r, seq, parts, i - 1, once)
                        \/ i \in n + 1 .. MaxSegmentParts /\ us[i] = Removal(TimedModuleID(seq, i - 1))
                        \/ /\ seq >= w /\ i > MaxSegmentParts /\ i - MaxSegmentParts - 1 \in Nat
                           /\ us[i] = Removal(TimedModuleID(seq - w, i - MaxSegmentParts - 1))
    BY <1>16
  <2>2. PICK ab : ab = a \o b
    OBVIOUS
  <2>3. ab \in Seq(PendingEntry) /\ Len(ab) = MaxSegmentParts
    <3>1. ab \in Seq(PendingEntry) /\ Len(ab) = Len(a) + Len(b)
      BY <1>13, <1>14, <2>2, ConcatFacts
    <3>2. QED BY <1>2, <1>4, <1>13, <1>14, <3>1
  <2>4. CASE i \in 1 .. n
    <3>4. us = ab \o c /\ i \in 1 .. Len(ab)
      BY <1>2, <1>4, <1>9, <2>2, <2>3, <2>4
    <3>1. us[i] = ab[i]
      BY <1>15, <2>3, <3>4
    <3>2. ab[i] = a[i]
      BY <1>13, <1>14, <2>2, <2>4
    <3>3. QED BY <1>6, <2>4, <3>1, <3>2
  <2>5. CASE i \in n + 1 .. MaxSegmentParts
    <3>6. us = ab \o c
      BY <1>9, <2>2
    <3>7. i \in 1 .. Len(ab)
      BY <1>4, <2>3, <2>5
    <3>1. us[i] = ab[i]
      BY <1>15, <2>3, <3>6, <3>7
    <3>2. i - n \in 1 .. MaxSegmentParts - n
      BY <1>2, <1>4, <2>5
    <3>3. ab[i] = b[i - n]
      BY <1>2, <1>4, <1>13, <1>14, <2>2, <2>5
    <3>4. n + (i - n) - 1 = i - 1
      BY <1>4, <2>5
    <3>5. QED BY <1>7, <2>5, <3>1, <3>2, <3>3, <3>4
  <2>6. CASE i > MaxSegmentParts
    <3>1. seq >= w /\ Len(c) = MaxSegmentParts /\ i - MaxSegmentParts \in 1 .. MaxSegmentParts
      BY <1>2, <1>15, <2>6
    <3>2. us[i] = c[i - MaxSegmentParts]
      BY <1>2, <1>9, <1>15, <2>2, <2>3, <2>6
    <3>3. ~ (seq < w) /\ i - MaxSegmentParts - 1 \in Nat
      BY <1>2, <3>1
    <3>4. QED BY <1>8, <2>6, <3>1, <3>2, <3>3
  <2>7. i \in 1 .. n \/ i \in n + 1 .. MaxSegmentParts \/ i > MaxSegmentParts
    BY <1>2, <1>4, <1>15
  <2>8. QED BY <2>4, <2>5, <2>6, <2>7, Zenon
<1>18. \A i \in DOMAIN us : OfSegment(r, seq, us[i])
  <2>1. SUFFICES ASSUME NEW i \in DOMAIN us PROVE OfSegment(r, seq, us[i])
    OBVIOUS
  <2>2. CASE i \in 1 .. n /\ us[i] = SegmentUpdate(r, seq, parts, i - 1, once)
    <3>1. i - 1 \in Nat
      BY <1>4, <2>2
    <3>2. PendingID(us[i]) = TimedModuleID(seq, i - 1)
      BY <1>12, <2>2
    <3>3. QED BY <1>2, <1>10, <3>1, <3>2 DEF OfSegment
  <2>3. CASE i \in n + 1 .. MaxSegmentParts /\ us[i] = Removal(TimedModuleID(seq, i - 1))
    <3>1. i - 1 \in Nat
      BY <1>2, <1>4, <2>3
    <3>2. PendingID(us[i]) = TimedModuleID(seq, i - 1)
      BY <1>2, <1>11, <2>3, <3>1
    <3>3. QED BY <1>2, <1>10, <3>1, <3>2 DEF OfSegment
  <2>4. CASE /\ seq >= w /\ i > MaxSegmentParts /\ i - MaxSegmentParts - 1 \in Nat
             /\ us[i] = Removal(TimedModuleID(seq - w, i - MaxSegmentParts - 1))
    <3>1. seq - w \in Nat
      BY <1>2, <2>4
    <3>2. us[i].remove /\ PendingID(us[i]) = TimedModuleID(seq - w, i - MaxSegmentParts - 1)
      BY <1>11, <2>4, <3>1
    <3>3. PendingID(us[i])[2] = (seq - w) % Ring
      BY <1>10, <2>4, <3>1, <3>2
    <3>4. QED BY <1>1, <2>4, <3>2, <3>3 DEF OfSegment
  <2>5. QED BY <1>17, <2>2, <2>3, <2>4
<1>19. \A k \in DOMAIN parts :
         k \in DOMAIN us /\ ~ us[k].remove /\ us[k].update.stored.records = parts[k]
  <2>1. SUFFICES ASSUME NEW k \in 1 .. n
                 PROVE  k \in DOMAIN us /\ ~ us[k].remove /\ us[k].update.stored.records = parts[k]
    BY <1>4
  <2>2. k \in DOMAIN us
    BY <1>2, <1>4, <1>15, <1>16
  <2>3. ~ (k \in n + 1 .. MaxSegmentParts) /\ ~ (k > MaxSegmentParts)
    BY <1>2, <1>4
  <2>4. us[k] = SegmentUpdate(r, seq, parts, k - 1, once)
    BY <1>17, <2>2, <2>3
  <2>5. QED BY <1>12, <2>2, <2>4
<1>20. ASSUME w < Ring PROVE Distinct(us)
  <2>1. SUFFICES ASSUME NEW i \in DOMAIN us, NEW j \in DOMAIN us, i < j, ~ us[i].remove
                 PROVE  PendingID(us[i]) # PendingID(us[j])
    BY DEF Distinct
  <2>2. i \in Nat /\ j \in Nat
    BY <1>16
  <2>3. i \in 1 .. n /\ PendingID(us[i]) = TimedModuleID(seq, i - 1)
    <3>1. ~ (i \in n + 1 .. MaxSegmentParts /\ us[i] = Removal(TimedModuleID(seq, i - 1)))
      <4>1. i \in n + 1 .. MaxSegmentParts => i - 1 \in Nat
        BY <1>2, <1>4, <2>2
      <4>2. QED BY <1>2, <1>11, <2>1, <4>1
    <3>2. ~ (/\ seq >= w /\ i > MaxSegmentParts /\ i - MaxSegmentParts - 1 \in Nat
             /\ us[i] = Removal(TimedModuleID(seq - w, i - MaxSegmentParts - 1)))
      <4>1. seq >= w => seq - w \in Nat
        BY <1>2
      <4>2. QED BY <1>11, <2>1, <4>1
    <3>3. QED BY <1>12, <1>17, <2>1, <3>1, <3>2
  <2>4. i - 1 \in Nat
    BY <1>4, <2>3
  <2>5. CASE j \in 1 .. n /\ us[j] = SegmentUpdate(r, seq, parts, j - 1, once)
    <3>1. j - 1 \in Nat /\ j - 1 # i - 1
      BY <1>4, <2>1, <2>2, <2>5
    <3>2. PendingID(us[j]) = TimedModuleID(seq, j - 1)
      BY <1>12, <2>5
    <3>3. TimedModuleID(seq, j - 1)[3] = j - 1 /\ TimedModuleID(seq, i - 1)[3] = i - 1
      BY <1>2, <1>10, <2>4, <3>1, Zenon
    <3>4. QED BY <2>3, <3>1, <3>2, <3>3, Zenon
  <2>6. CASE j \in n + 1 .. MaxSegmentParts /\ us[j] = Removal(TimedModuleID(seq, j - 1))
    <3>1. j - 1 \in Nat /\ j - 1 # i - 1
      BY <1>4, <2>1, <2>2, <2>6
    <3>2. PendingID(us[j]) = TimedModuleID(seq, j - 1)
      BY <1>2, <1>11, <2>6, <3>1
    <3>3. TimedModuleID(seq, j - 1)[3] = j - 1 /\ TimedModuleID(seq, i - 1)[3] = i - 1
      BY <1>2, <1>10, <2>4, <3>1, Zenon
    <3>4. QED BY <2>3, <3>1, <3>2, <3>3, Zenon
  <2>7. CASE /\ seq >= w /\ j > MaxSegmentParts /\ j - MaxSegmentParts - 1 \in Nat
             /\ us[j] = Removal(TimedModuleID(seq - w, j - MaxSegmentParts - 1))
    <3>1. seq - w \in Nat /\ 0 < seq - (seq - w) /\ seq - (seq - w) < Ring
      BY <1>2, <1>20, <2>7
    <3>2. seq % Ring # (seq - w) % Ring
      <4>1. Ring \in Int /\ Ring > 0
        BY <1>2
      <4>2. QED BY <1>2, <3>1, <4>1, SlotsApart
    <3>3. PendingID(us[j]) = TimedModuleID(seq - w, j - MaxSegmentParts - 1)
      BY <1>11, <2>7, <3>1
    <3>4. PendingID(us[j])[2] = (seq - w) % Ring
      BY <1>10, <2>7, <3>1, <3>3
    <3>5. PendingID(us[i])[2] = seq % Ring
      BY <1>2, <1>10, <2>3, <2>4
    <3>6. QED BY <3>2, <3>4, <3>5
  <2>8. QED BY <1>17, <2>5, <2>6, <2>7
<1>21. UpdatesOf(r, seq, n, us)
  <2>1. DOMAIN us = 1 .. MaxSegmentParts + (IF seq < w THEN 0 ELSE MaxSegmentParts)
    BY <1>15, <1>16
  <2>2. ASSUME NEW i \in DOMAIN us
        PROVE  \/ /\ i \in 1 .. n /\ ~ us[i].remove /\ PendingID(us[i]) = TimedModuleID(seq, i - 1)
                  /\ us[i].update.stored.epoch = r.epochID
                  /\ us[i].update.stored.seq = seq /\ us[i].update.stored.count = n
               \/ /\ i \in n + 1 .. MaxSegmentParts /\ us[i].remove
                  /\ PendingID(us[i]) = TimedModuleID(seq, i - 1)
               \/ /\ seq >= w /\ i > MaxSegmentParts /\ us[i].remove
                  /\ PendingID(us[i]) = TimedModuleID(seq - w, i - MaxSegmentParts - 1)
    <3>1. CASE i \in 1 .. n /\ us[i] = SegmentUpdate(r, seq, parts, i - 1, once)
      BY <1>12, <3>1
    <3>2. CASE i \in n + 1 .. MaxSegmentParts /\ us[i] = Removal(TimedModuleID(seq, i - 1))
      <4>1. i - 1 \in Nat
        BY <1>2, <1>4, <3>2
      <4>2. us[i].remove /\ PendingID(us[i]) = TimedModuleID(seq, i - 1)
        BY <1>2, <1>11, <3>2, <4>1
      <4>3. QED BY <3>2, <4>2
    <3>3. CASE /\ seq >= w /\ i > MaxSegmentParts /\ i - MaxSegmentParts - 1 \in Nat
               /\ us[i] = Removal(TimedModuleID(seq - w, i - MaxSegmentParts - 1))
      <4>1. seq - w \in Nat
        BY <1>2, <3>3
      <4>2. us[i].remove /\ PendingID(us[i]) = TimedModuleID(seq - w, i - MaxSegmentParts - 1)
        BY <1>11, <3>3, <4>1
      <4>3. QED BY <3>3, <4>2
    <3>4. QED BY <1>17, <2>2, <3>1, <3>2, <3>3
  <2>3. QED BY <1>1, <2>1, <2>2 DEF UpdatesOf
<1>22. QED BY <1>1, <1>3, <1>16, <1>18, <1>19, <1>20, <1>21

\* the records in the pending updates, and in the loss reports
Queued(pending) ==
  UNION {IDs(pending[i].update.stored.records) : i \in {k \in DOMAIN pending : ~ pending[k].remove}}

Lost(losses) == UNION {e.missing : e \in Range(losses)}

Joined(a, b, q) ==
  \A k \in DOMAIN q :
    \/ k \in DOMAIN a /\ q[k] = a[k]
    \/ \E j \in DOMAIN b : k = Len(a) + j /\ q[k] = b[j]

LEMMA JoinedFacts ==
  ASSUME NEW a \in Seq(PendingEntry), NEW b \in Seq(PendingEntry), NEW q, q = a \o b
  PROVE  /\ q \in Seq(PendingEntry)
         /\ Queued(a) \subseteq Queued(q) /\ Queued(b) \subseteq Queued(q)
         /\ Joined(a, b, q)
         /\ (/\ Distinct(a) /\ Distinct(b)
             /\ \A i \in DOMAIN a, j \in DOMAIN b :
                  ~ a[i].remove => PendingID(a[i]) # PendingID(b[j]))
            => Distinct(q)
<1>1. /\ q \in Seq(PendingEntry) /\ Len(a) \in Nat /\ Len(b) \in Nat /\ Len(q) = Len(a) + Len(b)
      /\ DOMAIN a = 1 .. Len(a) /\ DOMAIN b = 1 .. Len(b) /\ DOMAIN q = 1 .. Len(a) + Len(b)
  OBVIOUS
<1>2. \A i \in DOMAIN a : i \in DOMAIN q /\ q[i] = a[i]
  BY <1>1
<1>3. \A j \in DOMAIN b : Len(a) + j \in DOMAIN q /\ q[Len(a) + j] = b[j]
  BY <1>1
<1>4. ASSUME NEW k \in DOMAIN q
      PROVE  \/ k \in DOMAIN a /\ q[k] = a[k]
             \/ \E j \in DOMAIN b : k = Len(a) + j /\ q[k] = b[j]
  <2>1. CASE k <= Len(a)
    BY <1>1, <1>2, <2>1
  <2>2. CASE k > Len(a)
    <3>1. k - Len(a) \in DOMAIN b /\ k = Len(a) + (k - Len(a))
      BY <1>1, <2>2
    <3>2. QED BY <1>3, <3>1
  <2>3. QED BY <1>1, <2>1, <2>2
<1>5. Queued(a) \subseteq Queued(q)
  BY <1>2 DEF Queued
<1>6. Queued(b) \subseteq Queued(q)
  BY <1>3 DEF Queued
<1>7. ASSUME Distinct(a), Distinct(b),
             \A i \in DOMAIN a, j \in DOMAIN b : ~ a[i].remove => PendingID(a[i]) # PendingID(b[j])
      PROVE  Distinct(q)
  <2>1. SUFFICES ASSUME NEW i \in DOMAIN q, NEW j \in DOMAIN q, i < j, ~ q[i].remove
                 PROVE  PendingID(q[i]) # PendingID(q[j])
    BY DEF Distinct
  <2>2. CASE i \in DOMAIN a /\ q[i] = a[i]
    <3>1. CASE j \in DOMAIN a /\ q[j] = a[j]
      BY <1>7, <2>1, <2>2, <3>1 DEF Distinct
    <3>2. CASE \E l \in DOMAIN b : j = Len(a) + l /\ q[j] = b[l]
      BY <1>7, <2>1, <2>2, <3>2
    <3>3. QED BY <1>4, <3>1, <3>2
  <2>3. CASE \E k \in DOMAIN b : i = Len(a) + k /\ q[i] = b[k]
    <3>1. PICK k \in DOMAIN b : i = Len(a) + k /\ q[i] = b[k]
      BY <2>3
    <3>2. ~ (j \in DOMAIN a)
      BY <1>1, <2>1, <3>1
    <3>3. PICK l \in DOMAIN b : j = Len(a) + l /\ q[j] = b[l]
      BY <1>4, <3>2
    <3>4. k < l
      BY <1>1, <2>1, <3>1, <3>3
    <3>5. QED BY <1>7, <2>1, <3>1, <3>3, <3>4 DEF Distinct
  <2>4. QED BY <1>4, <2>2, <2>3
<1>8. QED BY <1>1, <1>4, <1>5, <1>6, <1>7 DEF Joined

\* trimming removes only entries that were on the air, and says so
Trimmed(r, q) ==
  /\ q.avmap \subseteq r.avmap
  /\ \A slot \in r.avmap \ q.avmap : slot.installed
  /\ r.avmapDirty \/ q.avmap # r.avmap => q.avmapDirty

LEMMA TrimFacts ==
  ASSUME NEW r, DOMAIN r = Fields, r.avmap \subseteq Slot, r.avmapDirty \in BOOLEAN,
         NEW q, q = TrimAVMap(r)
  PROVE  /\ DOMAIN q = Fields
         /\ Same(r, q, {"avmap", "avmapDirty"})
         /\ Trimmed(r, q)
         /\ q.avmapDirty \in BOOLEAN
<1>1. CASE r.closedSegments < RetainedSegments
  <2>1. q = r
    BY <1>1 DEF TrimAVMap
  <2>2. QED BY <2>1 DEF Same, Trimmed
<1>2. CASE ~ (r.closedSegments < RetainedSegments)
  <2>1. PICK kept : kept = {slot \in r.avmap :
                       ~ slot.installed \/ slot.addedAt >= r.closedSegments - RetainedSegments}
    OBVIOUS
  <2>2. q = [r EXCEPT !.avmap = kept, !.avmapDirty = r.avmapDirty \/ kept # r.avmap]
    BY <1>2, <2>1 DEF TrimAVMap
  <2>3. /\ DOMAIN q = Fields /\ q.avmap = kept
        /\ q.avmapDirty = (r.avmapDirty \/ kept # r.avmap)
        /\ Same(r, q, {"avmap", "avmapDirty"})
    BY <2>2 DEF Same, Fields, NewRecorder
  <2>4. kept \subseteq r.avmap /\ \A slot \in r.avmap \ kept : slot.installed
    BY <2>1
  <2>5. QED BY <2>3, <2>4 DEF Trimmed
<1>3. QED BY <1>1, <1>2

CloseFields ==
  {"open", "pending", "err", "losses", "latestComplete", "haveComplete", "nextSeq",
   "closedSegments", "avmap", "avmapDirty"}

LEMMA AddLossFacts ==
  ASSUME NEW r, DOMAIN r = Fields, r.epochID \in Nat, r.losses \in Seq(Loss),
         NEW missing \in SUBSET Nat, NEW q, q = AddLoss(r, missing)
  PROVE  /\ DOMAIN q = Fields /\ Same(r, q, {"losses"})
         /\ q.losses \in Seq(Loss)
         /\ Lost(r.losses) \cup missing \subseteq Lost(q.losses)
<1>1. PICK e : e = [epoch |-> r.epochID, missing |-> missing]
  OBVIOUS
<1>2. e \in Loss /\ e.missing = missing
  BY <1>1 DEF Loss
<1>3. q = [r EXCEPT !.losses = Append(r.losses, e)]
  BY <1>1 DEF AddLoss
<1>4. DOMAIN q = Fields /\ q.losses = Append(r.losses, e) /\ Same(r, q, {"losses"})
  BY <1>3 DEF Same, Fields, NewRecorder
<1>5. PICK n \in Nat : n = Len(r.losses)
  OBVIOUS
<1>6. /\ q.losses \in Seq(Loss) /\ DOMAIN q.losses = 1 .. n + 1 /\ DOMAIN r.losses = 1 .. n
      /\ q.losses[n + 1] = e /\ \A i \in 1 .. n : q.losses[i] = r.losses[i]
  BY <1>2, <1>4, <1>5
<1>7. e \in Range(q.losses) /\ Range(r.losses) \subseteq Range(q.losses)
  <2>1. n + 1 \in DOMAIN q.losses /\ \A i \in 1 .. n : i \in DOMAIN q.losses
    BY <1>6
  <2>2. QED BY <1>6, <2>1 DEF Range
<1>8. QED BY <1>2, <1>4, <1>6, <1>7 DEF Lost

\* q is r with the segment of seq closed, us are its updates
ClosedOne(r, seq, us, q) ==
  /\ Segments(q)
  /\ Same(r, q, CloseFields)
  /\ DOMAIN q.open = DOMAIN r.open \ {seq}
  /\ \A s \in DOMAIN q.open : q.open[s] = r.open[s]
  /\ Trimmed(r, q)
  /\ q.err = "none" =>
       /\ r.err = "none"
       /\ q.nextSeq = seq + 1 /\ q.closedSegments = r.closedSegments + 1
       /\ q.pending = r.pending \o us
       /\ Lost(r.losses) \subseteq Lost(q.losses)
       /\ IDs(r.open[seq]) \subseteq Queued(us) \cup Lost(q.losses)
  /\ \/ q.err # "none" /\ Same(r, q, {"open", "err"})
     \/ /\ q.err = r.err /\ q.pending = r.pending \o us /\ q.nextSeq = seq + 1
        /\ q.haveComplete = TRUE /\ q.latestComplete = seq

LEMMA CloseSegmentFacts ==
  ASSUME NEW r, Segments(r), NEW seq \in DOMAIN r.open, NEW q, q = CloseSegment(r, seq),
         NEW us, us = SegmentUpdates(r, seq)
  PROVE  ClosedOne(r, seq, us, q)
<1>1. PICK split : split = SplitSegment(r.open[seq])
  OBVIOUS
<1>2. r.open[seq] \in Seq(Record) /\ seq \in Nat
  BY DEF Segments
<1>3. /\ split.parts \in Seq(Seq(Record)) /\ split.dropped \in Seq(Record)
      /\ IDs(r.open[seq]) \subseteq InParts(split.parts) \cup IDs(split.dropped)
  BY <1>1, <1>2, SplitSegmentFacts
<1>4. PICK closed : closed = [r EXCEPT !.open = Drop(r.open, seq)]
  OBVIOUS
<1>5. /\ DOMAIN closed = Fields /\ closed.open = Drop(r.open, seq)
      /\ Same(r, closed, {"open"})
  BY <1>4 DEF Segments, Same, Fields, NewRecorder
<1>6. /\ DOMAIN closed.open = DOMAIN r.open \ {seq}
      /\ \A s \in DOMAIN closed.open : closed.open[s] = r.open[s]
  BY <1>5 DEF Drop, Restrict
<1>7. Segments(closed) /\ closed.err = r.err
  <2>1. IsFiniteSet(DOMAIN closed.open)
    BY <1>6, FS_Subset DEF Segments
  <2>2. QED BY <1>5, <1>6, <2>1 DEF Segments, Same, Fields, NewRecorder
<1>8. CASE split.err
  <2>1. q = [closed EXCEPT !.err = IF closed.err = "none" THEN "record" ELSE closed.err]
    BY <1>1, <1>4, <1>8 DEF CloseSegment
  <2>2. DOMAIN q = Fields /\ q.err # "none" /\ Same(closed, q, {"err"})
    BY <1>5, <2>1 DEF Same, Fields, NewRecorder
  <2>3. Segments(q) /\ q.open = closed.open /\ q.avmap = r.avmap /\ q.avmapDirty = r.avmapDirty
    BY <1>5, <1>7, <2>2 DEF Segments, Same, Fields, NewRecorder
  <2>4. Same(r, q, CloseFields)
    BY <1>5, <2>2 DEF Same, CloseFields
  <2>5. Same(r, q, {"open", "err"})
    BY <1>5, <2>2 DEF Same
  <2>6. QED BY <1>6, <2>2, <2>3, <2>4, <2>5 DEF ClosedOne, Trimmed, Segments
<1>9. CASE ~ split.err
  <2>1. PICK missing : missing = {x.id : x \in Range(split.dropped)}
    OBVIOUS
  <2>2. missing \in SUBSET Nat /\ missing = IDs(split.dropped)
    <3>1. \A x \in Range(split.dropped) : x \in Record
      BY <1>3 DEF Range
    <3>2. QED BY <2>1, <3>1 DEF Record, IDs
  <2>3. PICK noted : noted = IF split.dropped = <<>> THEN closed ELSE AddLoss(closed, missing)
    OBVIOUS
  <2>4. /\ DOMAIN noted = Fields /\ Same(closed, noted, {"losses"})
        /\ noted.losses \in Seq(Loss)
        /\ Lost(closed.losses) \cup missing \subseteq Lost(noted.losses)
    <3>1. CASE split.dropped = <<>>
      <4>1. missing = {}
        BY <2>1, <3>1 DEF Range
      <4>2. QED BY <1>7, <2>3, <3>1, <4>1 DEF Same, Segments
    <3>2. CASE split.dropped # <<>>
      <4>1. noted = AddLoss(closed, missing)
        BY <2>3, <3>2
      <4>2. closed.epochID \in Nat /\ closed.losses \in Seq(Loss) /\ DOMAIN closed = Fields
        BY <1>7 DEF Segments
      <4>3. QED BY <2>2, <4>1, <4>2, AddLossFacts
    <3>3. QED BY <3>1, <3>2
  <2>5. /\ noted.pending = r.pending /\ noted.open = closed.open /\ noted.err = r.err
        /\ noted.avmap = r.avmap /\ noted.avmapDirty = r.avmapDirty
        /\ noted.closedSegments = r.closedSegments /\ noted.epochID = r.epochID
        /\ noted.duration = r.duration /\ closed.losses = r.losses
    BY <1>5, <1>7, <2>4 DEF Same, Fields, NewRecorder
  <2>6. PICK full : full =
          [noted EXCEPT !.pending = noted.pending \o us, !.latestComplete = seq,
                        !.haveComplete = TRUE, !.nextSeq = seq + 1,
                        !.closedSegments = noted.closedSegments + 1]
    OBVIOUS
  <2>7. q = TrimAVMap(full)
    BY <1>1, <1>4, <1>9, <2>1, <2>3, <2>6 DEF CloseSegment
  <2>8. /\ DOMAIN full = Fields
        /\ full.pending = r.pending \o us /\ full.nextSeq = seq + 1
        /\ full.closedSegments = r.closedSegments + 1
        /\ full.open = closed.open /\ full.err = r.err /\ full.losses = noted.losses
        /\ full.avmap = r.avmap /\ full.avmapDirty = r.avmapDirty
        /\ full.epochID = r.epochID /\ full.duration = r.duration
        /\ Same(r, full, CloseFields)
        /\ full.haveComplete = TRUE /\ full.latestComplete = seq
    <3>1. DOMAIN full = Fields
      BY <2>4, <2>6
    <3>2. /\ full.pending = r.pending \o us /\ full.nextSeq = seq + 1
          /\ full.closedSegments = r.closedSegments + 1
          /\ full.open = closed.open /\ full.err = r.err /\ full.losses = noted.losses
          /\ full.avmap = r.avmap /\ full.avmapDirty = r.avmapDirty
          /\ full.epochID = r.epochID /\ full.duration = r.duration
          /\ full.haveComplete = TRUE /\ full.latestComplete = seq
      BY <2>4, <2>5, <2>6 DEF Fields, NewRecorder
    <3>3. Same(noted, full, CloseFields)
      BY <2>6 DEF Same, CloseFields
    <3>4. Same(r, full, CloseFields)
      BY <1>5, <2>4, <3>3 DEF Same, CloseFields
    <3>5. QED BY <3>1, <3>2, <3>4
  <2>9. us \in Seq(PendingEntry)
        /\ \A k \in DOMAIN split.parts :
             k \in DOMAIN us /\ ~ us[k].remove /\ us[k].update.stored.records = split.parts[k]
    BY <1>1, SegmentUpdatesFacts
  <2>10. full.avmap \subseteq Slot /\ full.avmapDirty \in BOOLEAN
    BY <2>8 DEF Segments
  <2>11. /\ DOMAIN q = Fields /\ Same(full, q, {"avmap", "avmapDirty"})
         /\ Trimmed(full, q) /\ q.avmapDirty \in BOOLEAN
    BY <2>7, <2>8, <2>10, TrimFacts
  <2>12. /\ q.pending = full.pending /\ q.nextSeq = full.nextSeq /\ q.open = full.open
         /\ q.closedSegments = full.closedSegments /\ q.err = full.err /\ q.losses = full.losses
         /\ q.epochID = full.epochID /\ q.duration = full.duration
         /\ q.haveComplete = full.haveComplete /\ q.latestComplete = full.latestComplete
    BY <2>8, <2>11 DEF Same, Fields, NewRecorder
  <2>13. Same(r, q, CloseFields)
    BY <2>8, <2>11 DEF Same, CloseFields
  <2>14. Trimmed(r, q)
    BY <2>8, <2>11 DEF Trimmed
  <2>15. r.pending \o us \in Seq(PendingEntry)
    BY <2>9 DEF Segments
  <2>16. Segments(q)
    <3>1. IsFiniteSet(DOMAIN q.open) /\ DOMAIN q.open \subseteq Nat
      BY <1>7, <2>8, <2>12 DEF Segments
    <3>2. \A s \in DOMAIN q.open : q.open[s] \in Seq(Record)
      BY <1>7, <2>8, <2>12 DEF Segments
    <3>3. q.avmap \subseteq Slot
      BY <2>14 DEF Trimmed, Segments
    <3>4. q.closedSegments \in Nat /\ q.nextSeq \in Nat
      BY <1>2, <2>8, <2>12 DEF Segments
    <3>5. q.pending \in Seq(PendingEntry) /\ q.losses \in Seq(Loss)
      BY <2>4, <2>8, <2>12, <2>15
    <3>6. q.epochID \in Nat /\ q.duration \in {LongDuration, ShortDuration}
      BY <2>8, <2>12 DEF Segments
    <3>7. QED BY <2>11, <3>1, <3>2, <3>3, <3>4, <3>5, <3>6 DEF Segments
  <2>17. InParts(split.parts) \subseteq Queued(us)
    BY <2>9 DEF InParts, Queued
  <2>18. IDs(r.open[seq]) \subseteq Queued(us) \cup Lost(q.losses)
    BY <1>3, <2>2, <2>4, <2>8, <2>12, <2>17
  <2>19. Lost(r.losses) \subseteq Lost(q.losses)
    BY <2>4, <2>5, <2>8, <2>12
  <2>20. DOMAIN q.open = DOMAIN r.open \ {seq} /\ \A s \in DOMAIN q.open : q.open[s] = r.open[s]
    BY <1>6, <2>8, <2>12
  <2>21. QED BY <2>8, <2>12, <2>13, <2>14, <2>16, <2>18, <2>19, <2>20 DEF ClosedOne
<1>10. QED BY <1>8, <1>9

(* Closing several segments: the fold of CloseSegments.                    *)

Tight(r, done) == \A a, b \in done : a - b < RepeatWindow(r)

ClosedWell(r, done, acc) ==
  /\ r.err = "none"
  /\ Queued(r.pending) \subseteq Queued(acc.pending) /\ Lost(r.losses) \subseteq Lost(acc.losses)
  /\ \A s \in done :
       IDs(r.open[s]) \subseteq Queued(acc.pending) \cup Lost(acc.losses) /\ s < acc.nextSeq
  /\ done # {} => /\ \E s \in done : acc.nextSeq = s + 1
                  /\ acc.closedSegments > r.closedSegments
  /\ r.pending = <<>> /\ RepeatWindow(r) < Ring /\ Tight(r, done) =>
       /\ Distinct(acc.pending)
       /\ \A i \in DOMAIN acc.pending :
            ~ acc.pending[i].remove => \E s \in done : PendingID(acc.pending[i])[2] = s % Ring

CloseStep(r, acc, seq) == CloseSegment(acc, seq)

CloseKept(r, done, acc) ==
  /\ Segments(acc) /\ Same(r, acc, CloseFields)
  /\ DOMAIN acc.open = DOMAIN r.open \ done
  /\ \A s \in DOMAIN acc.open : acc.open[s] = r.open[s]
  /\ Trimmed(r, acc)
  /\ done = {} => acc = r
  /\ acc.err = "none" => ClosedWell(r, done, acc)

Closings == INSTANCE FoldFacts WITH Step <- CloseStep, Keeps <- CloseKept

LEMMA CloseStepKeeps ==
  ASSUME NEW r, Segments(r), NEW S, S \subseteq DOMAIN r.open, NEW x \in S,
         NEW acc, CloseKept(r, Closings!Under(S, x), acc)
  PROVE  CloseKept(r, Closings!Through(S, x), CloseStep(r, acc, x))
<1>1. PICK done : done = Closings!Under(S, x)
  OBVIOUS
<1>2. PICK through : through = Closings!Through(S, x)
  OBVIOUS
<1>3. PICK q : q = CloseSegment(acc, x)
  OBVIOUS
<1>4. PICK us : us = SegmentUpdates(acc, x)
  OBVIOUS
<1>5. x \in Nat /\ S \subseteq Nat
  BY DEF Segments
<1>6. /\ done \subseteq Nat /\ done \subseteq S /\ x \notin done
      /\ through = done \cup {x} /\ \A s \in done : s < x
  <2>1. \A y \in S : y <= x <=> y < x \/ y = x
    <3>1. \A y \in S : y \in Nat
      BY <1>5
    <3>2. QED BY <1>5, <3>1
  <2>2. ~ (x < x)
    BY <1>5
  <2>3. QED BY <1>1, <1>2, <1>5, <2>1, <2>2 DEF Closings!Under, Closings!Through
<1>7. CloseKept(r, done, acc)
  BY <1>1
<1>8. x \in DOMAIN acc.open /\ acc.open[x] = r.open[x]
  BY <1>6, <1>7 DEF CloseKept
<1>9. /\ Segments(q)
      /\ Same(acc, q, CloseFields)
      /\ DOMAIN q.open = DOMAIN acc.open \ {x}
      /\ \A s \in DOMAIN q.open : q.open[s] = acc.open[s]
      /\ Trimmed(acc, q)
      /\ q.err = "none" =>
           /\ acc.err = "none"
           /\ q.nextSeq = x + 1 /\ q.closedSegments = acc.closedSegments + 1
           /\ q.pending = acc.pending \o us
           /\ Lost(acc.losses) \subseteq Lost(q.losses)
           /\ IDs(acc.open[x]) \subseteq Queued(us) \cup Lost(q.losses)
  <2>1. Segments(acc)
    BY <1>7 DEF CloseKept
  <2>2. ClosedOne(acc, x, us, q)
    BY <1>3, <1>4, <1>8, <2>1, CloseSegmentFacts
  <2>3. QED BY <2>2 DEF ClosedOne
<1>10. Same(r, q, CloseFields)
  BY <1>7, <1>9 DEF CloseKept, Same
<1>11. DOMAIN q.open = DOMAIN r.open \ through /\ \A s \in DOMAIN q.open : q.open[s] = r.open[s]
  BY <1>6, <1>7, <1>9 DEF CloseKept
<1>12. Trimmed(r, q)
  <2>1. Trimmed(r, acc)
    BY <1>7 DEF CloseKept
  <2>2. q.avmap \subseteq r.avmap /\ \A slot \in r.avmap \ q.avmap : slot.installed
    BY <1>9, <2>1 DEF Trimmed
  <2>3. r.avmapDirty \/ q.avmap # r.avmap => q.avmapDirty
    BY <1>9, <2>1 DEF Trimmed
  <2>4. QED BY <2>2, <2>3 DEF Trimmed
<1>13. ASSUME q.err = "none" PROVE ClosedWell(r, through, q)
  <2>1. ClosedWell(r, done, acc)
    BY <1>7, <1>9, <1>13 DEF CloseKept
  <2>2. us \in Seq(PendingEntry) /\ acc.pending \in Seq(PendingEntry)
    BY <1>4, <1>7, <1>8, SegmentUpdatesFacts DEF CloseKept, Segments
  <2>3. q.pending = acc.pending \o us
    BY <1>9, <1>13
  <2>4. Queued(acc.pending) \subseteq Queued(q.pending) /\ Queued(us) \subseteq Queued(q.pending)
    BY <2>2, <2>3, JoinedFacts
  <2>5. Queued(r.pending) \subseteq Queued(q.pending) /\ Lost(r.losses) \subseteq Lost(q.losses)
    BY <1>9, <1>13, <2>1, <2>4 DEF ClosedWell
  <2>6. q.nextSeq = x + 1
    BY <1>9, <1>13
  <2>7. ASSUME NEW s \in through
        PROVE  IDs(r.open[s]) \subseteq Queued(q.pending) \cup Lost(q.losses) /\ s < q.nextSeq
    <3>1. CASE s = x
      BY <1>5, <1>8, <1>9, <1>13, <2>4, <2>6, <3>1
    <3>2. CASE s \in done
      <4>1. s \in Nat /\ s < x
        BY <1>6, <3>2
      <4>2. s < q.nextSeq
        BY <1>5, <2>6, <4>1
      <4>3. QED BY <1>9, <1>13, <2>1, <2>4, <3>2, <4>2 DEF ClosedWell
    <3>3. QED BY <1>6, <3>1, <3>2
  <2>8. (\E s \in through : q.nextSeq = s + 1) /\ q.closedSegments > r.closedSegments
    <3>1. acc.closedSegments \in Nat /\ r.closedSegments \in Nat
      BY <1>7 DEF CloseKept, Segments
    <3>2. acc.closedSegments >= r.closedSegments
      <4>1. CASE done = {}
        BY <1>7, <3>1, <4>1 DEF CloseKept
      <4>2. CASE done # {}
        BY <2>1, <3>1, <4>2 DEF ClosedWell
      <4>3. QED BY <4>1, <4>2
    <3>3. q.closedSegments > r.closedSegments
      BY <1>9, <1>13, <3>1, <3>2
    <3>4. QED BY <1>6, <2>6, <3>3
  <2>9. ASSUME r.pending = <<>>, RepeatWindow(r) < Ring, Tight(r, through)
        PROVE  /\ Distinct(q.pending)
               /\ \A i \in DOMAIN q.pending :
                    ~ q.pending[i].remove => \E s \in through : PendingID(q.pending[i])[2] = s % Ring
    <3>1. PICK w : w = RepeatWindow(r)
      OBVIOUS
    <3>2. w \in Nat \ {0} /\ Ring \in Int /\ Ring > 0 /\ w < Ring
      <4>1. w \in Nat \ {0}
        BY <3>1, WindowFacts DEF Segments
      <4>2. Ring \in Nat \ {0}
        BY RecorderAssumption
      <4>3. QED BY <2>9, <3>1, <4>1, <4>2
    <3>3. RepeatWindow(acc) = w
      <4>1. acc.duration = r.duration
        BY <1>7 DEF CloseKept, Same, Segments, Fields, NewRecorder, CloseFields
      <4>2. QED BY <3>1, <4>1 DEF RepeatWindow
    <3>4. Tight(r, done)
      BY <1>6, <2>9 DEF Tight
    <3>5. /\ Distinct(acc.pending)
          /\ \A i \in DOMAIN acc.pending :
               ~ acc.pending[i].remove => \E s \in done : PendingID(acc.pending[i])[2] = s % Ring
      BY <2>1, <2>9, <3>4 DEF ClosedWell
    <3>6. Distinct(us) /\ \A j \in DOMAIN us : OfSegment(acc, x, us[j])
      BY <1>4, <1>7, <1>8, <3>2, <3>3, SegmentUpdatesFacts DEF CloseKept
    <3>7. ASSUME NEW i \in DOMAIN acc.pending, ~ acc.pending[i].remove, NEW j \in DOMAIN us
          PROVE  PendingID(acc.pending[i]) # PendingID(us[j])
      <4>1. PICK s \in done : PendingID(acc.pending[i])[2] = s % Ring
        BY <3>5, <3>7
      <4>2. s \in Nat /\ 0 < x - s /\ x - s < w
        <5>1. s \in Nat /\ s < x
          BY <1>6
        <5>2. x - s < w
          BY <1>6, <2>9, <3>1 DEF Tight
        <5>3. QED BY <1>5, <5>1, <5>2
      <4>3. x % Ring # s % Ring
        BY <1>5, <3>2, <4>2, SlotsApart
      <4>4. x >= w => (x - w) % Ring # s % Ring
        <5>1. SUFFICES ASSUME x >= w PROVE (x - w) % Ring # s % Ring
          OBVIOUS
        <5>2. x - w \in Nat /\ 0 < s - (x - w) /\ s - (x - w) < Ring
          BY <1>5, <3>2, <4>2, <5>1
        <5>3. QED BY <3>2, <4>2, <5>2, SlotsApart
      <4>5. \/ PendingID(us[j])[2] = x % Ring
            \/ x >= w /\ PendingID(us[j])[2] = (x - w) % Ring
        BY <3>3, <3>6 DEF OfSegment
      <4>6. QED BY <4>1, <4>3, <4>4, <4>5
    <3>8. Distinct(q.pending)
      <4>1. \A i \in DOMAIN acc.pending, j \in DOMAIN us :
              ~ acc.pending[i].remove => PendingID(acc.pending[i]) # PendingID(us[j])
        BY <3>7
      <4>2. Distinct(acc.pending) /\ Distinct(us)
        BY <3>5, <3>6
      <4>3. QED BY <2>2, <2>3, <4>1, <4>2, JoinedFacts
    <3>9. ASSUME NEW i \in DOMAIN q.pending, ~ q.pending[i].remove
          PROVE  \E s \in through : PendingID(q.pending[i])[2] = s % Ring
      <4>1. CASE i \in DOMAIN acc.pending /\ q.pending[i] = acc.pending[i]
        BY <1>6, <3>5, <3>9, <4>1
      <4>2. CASE \E j \in DOMAIN us : i = Len(acc.pending) + j /\ q.pending[i] = us[j]
        <5>1. PICK j \in DOMAIN us : q.pending[i] = us[j]
          BY <4>2
        <5>2. PendingID(us[j])[2] = x % Ring
          BY <3>6, <3>9, <5>1 DEF OfSegment
        <5>3. QED BY <1>6, <5>1, <5>2
      <4>3. \/ i \in DOMAIN acc.pending /\ q.pending[i] = acc.pending[i]
            \/ \E j \in DOMAIN us : i = Len(acc.pending) + j /\ q.pending[i] = us[j]
        <5>1. Joined(acc.pending, us, q.pending)
          BY <2>2, <2>3, JoinedFacts
        <5>2. QED BY <3>9, <5>1 DEF Joined
      <4>4. QED BY <4>1, <4>2, <4>3
    <3>10. QED BY <3>8, <3>9
  <2>10. QED BY <1>9, <1>13, <2>1, <2>5, <2>7, <2>8, <2>9 DEF ClosedWell
<1>14. through # {}
  BY <1>6
<1>15. CloseKept(r, through, q)
  BY <1>9, <1>10, <1>11, <1>12, <1>13, <1>14 DEF CloseKept
<1>16. QED BY <1>2, <1>3, <1>15 DEF CloseStep

LEMMA CloseSegmentsFacts ==
  ASSUME NEW r, Segments(r), NEW S, S \subseteq DOMAIN r.open
  PROVE  CloseKept(r, S, CloseSegments(r, S))
<1>1. CloseSegments(r, S) = Closings!FoldUp(r, r, S)
  BY DEF CloseSegments, Closings!FoldUp, Closings!MapThenFoldSet, MapThenFoldSet,
     Closings!Max, Max, CloseStep
<1>2. CloseKept(r, {}, r)
  <2>1. r.err = "none" => ClosedWell(r, {}, r)
    BY DEF ClosedWell, Distinct
  <2>2. QED BY <2>1 DEF CloseKept, Same, Trimmed
<1>3. \A x \in S : \A acc :
        CloseKept(r, Closings!Under(S, x), acc)
          => CloseKept(r, Closings!Through(S, x), CloseStep(r, acc, x))
  BY CloseStepKeeps
<1>4. IsFiniteSet(S) /\ S \subseteq Nat
  BY FS_Subset DEF Segments
<1>5. Closings!IsFiniteSet(S)
  BY <1>4 DEF IsFiniteSet, Closings!IsFiniteSet
<1>6. CloseKept(r, S, Closings!FoldUp(r, r, S))
  BY <1>2, <1>3, <1>4, <1>5, Closings!FoldUpKeeps
<1>7. QED BY <1>1, <1>6
=============================================================================
