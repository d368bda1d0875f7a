--------------------------- MODULE CarouselProofs ---------------------------
(***************************************************************************)
(* Proofs about one carousel, for any set of updates, any number of        *)
(* versions, any guard and any clock.                                      *)
(***************************************************************************)
EXTENDS Carousel, TLAPS

USE DEF Nothing
-----------------------------------------------------------------------------
(* The two operators on partial functions keep them partial functions.     *)
LEMMA PutType ==
  ASSUME NEW f, NEW S, NEW T, NEW k \in S, NEW v \in T, PartialFunction(f, S, T)
  PROVE  PartialFunction(Put(f, k, v), S, T)
BY DEF PartialFunction, Put

LEMMA DropType ==
  ASSUME NEW f, NEW S, NEW T, NEW k, PartialFunction(f, S, T)
  PROVE  PartialFunction(Drop(f, k), S, T)
BY DEF PartialFunction, Drop, Restrict

(* Version numbers wrap inside their range.                                *)
LEMMA SuccessorType ==
  ASSUME NEW v \in Int
  PROVE  Successor(v) \in 0 .. Versions - 1
BY CarouselAssumption DEF Successor

LEMMA NextVersionType ==
  ASSUME NEW c, CarouselType(c), NEW id \in Ids
  PROVE  NextVersion(c, id) \in 0 .. Versions - 1
<1>1. CASE Has(c, id)
  <2>1. c.modules[id] \in Module
    BY <1>1 DEF CarouselType, PartialFunction, Has
  <2>2. c.modules[id].version \in Int
    BY <2>1, CarouselAssumption DEF Module
  <2>3. QED BY <1>1, <2>2, SuccessorType DEF NextVersion
<1>2. CASE ~Has(c, id) /\ id \in DOMAIN c.lastVersion
  <2>1. c.lastVersion[id] \in Int
    BY <1>2 DEF CarouselType, PartialFunction
  <2>2. QED BY <1>2, <2>1, SuccessorType DEF NextVersion
<1>3. CASE ~Has(c, id) /\ id \notin DOMAIN c.lastVersion
  BY <1>3, CarouselAssumption DEF NextVersion
<1>4. QED BY <1>1, <1>2, <1>3

LEMMA RetireType ==
  ASSUME NEW c, CarouselType(c), NEW id \in Ids, NEW t \in Int
  PROVE  PartialFunction(Retire(c, id, t), Pairs, Int)
<1>1. CASE Has(c, id)
  <2>1. c.modules[id] \in Module
    BY <1>1 DEF CarouselType, PartialFunction, Has
  <2>2. <<id, c.modules[id].version>> \in Pairs
    BY <2>1 DEF Module, Pairs
  <2>3. QED BY <1>1, <2>2, PutType DEF Retire, CarouselType
<1>2. CASE ~Has(c, id)
  BY <1>2 DEF Retire, CarouselType
<1>3. QED BY <1>1, <1>2

(* Set installs a well-formed module.                                      *)
LEMMA InstalledType ==
  ASSUME NEW c, CarouselType(c), NEW u \in Updates, NEW t \in Int
  PROVE  CarouselType(Installed(c, u, t))
<1> DEFINE version == NextVersion(c, u.id)
<1>1. u.id \in Ids /\ u.stored \in Contents
  BY DEF Ids, Contents
<1>2. version \in 0 .. Versions - 1
  BY <1>1, NextVersionType
<1>3. NewModule(u, version, t) \in Module
  BY <1>1, <1>2, UpdatesAssumption DEF NewModule, Module
<1>4. PartialFunction(Put(c.modules, u.id, NewModule(u, version, t)), Ids, Module)
  BY <1>1, <1>3, PutType DEF CarouselType
<1>5. PartialFunction(Drop(Retire(c, u.id, t), <<u.id, version>>), Pairs, Int)
  BY <1>1, RetireType, DropType
<1>6. PartialFunction(Put(c.lastVersion, u.id, version), Ids, 0 .. Versions - 1)
  BY <1>1, <1>2, PutType DEF CarouselType
<1>7. Installed(c, u, t) =
        [c EXCEPT !.modules     = Put(c.modules, u.id, NewModule(u, version, t)),
                  !.retired     = Drop(Retire(c, u.id, t), <<u.id, version>>),
                  !.lastVersion = Put(c.lastVersion, u.id, version),
                  !.dirty       = TRUE,
                  !.touched     = TRUE]
  BY Zenon DEF Installed, CarouselType
<1> HIDE DEF version
<1>8. QED
  BY <1>4, <1>5, <1>6, <1>7 DEF CarouselType

LEMMA RemovedType ==
  ASSUME NEW c, CarouselType(c), NEW id \in Ids, NEW t \in Int
  PROVE  CarouselType(AfterRemove(c, id, t))
<1>1. PartialFunction(Drop(c.modules, id), Ids, Module)
  BY DropType DEF CarouselType
<1>2. PartialFunction(Retire(c, id, t), Pairs, Int)
  BY RetireType
<1>3. QED BY <1>1, <1>2 DEF AfterRemove, CarouselType

(* A module that was sent stays well-formed.                               *)
LEMMA SentType ==
  ASSUME NEW m \in Module, NEW t \in Int
  PROVE  Sent(m, t) \in Module
<1> DEFINE sent == IF m.sent > m.retries THEN m.retries + 2 ELSE m.sent + 1
<1>1. sent \in Nat
  BY DEF Module
<1>2. NextDue(m, sent, t) \in Int
  BY <1>1, CarouselAssumption DEF NextDue, Module
<1> HIDE DEF sent
<1>3. [m EXCEPT !.sent = sent, !.next = NextDue(m, sent, t)] \in Module
  BY <1>1, <1>2 DEF Module
<1>4. QED BY <1>3 DEF Sent, sent

LEMMA RebuiltType ==
  ASSUME NEW c, CarouselType(c), NEW t \in Int
  PROVE  CarouselType(Rebuilt(c, t))
<1>1. CASE ~c.dirty
  BY <1>1 DEF Rebuilt
<1>2. CASE c.dirty
  <2> DEFINE dii == [id \in DOMAIN c.modules |-> c.modules[id].version]
  <2>1. PartialFunction(dii, Ids, 0 .. Versions - 1)
    BY DEF CarouselType, PartialFunction, Module
  <2>2. (c.transaction + 1) % Transactions \in 0 .. Transactions - 1
    BY CarouselAssumption DEF CarouselType
  <2>3. t - DIIInterval \in Int
    BY CarouselAssumption
  <2>4. Rebuilt(c, t) =
          [c EXCEPT !.transaction = (c.transaction + 1) % Transactions, !.dii = dii,
                    !.dirty = FALSE, !.diiLast = t - DIIInterval]
    BY <1>2, Zenon DEF Rebuilt, CarouselType
  <2> HIDE DEF dii
  <2>5. QED BY <2>1, <2>2, <2>3, <2>4 DEF CarouselType
<1>3. QED BY <1>1, <1>2

LEMMA EmitType ==
  ASSUME NEW c, CarouselType(c), NEW t \in Int
  PROVE  CarouselType(AfterEmit(c, t))
<1> DEFINE r       == Rebuilt(c, t)
           diiLast == IF DIIDue(r, t) THEN t ELSE r.diiLast
           modules == [id \in DOMAIN r.modules |->
                         IF id \in Due(r, t) THEN Sent(r.modules[id], t) ELSE r.modules[id]]
<1>1. CarouselType(r)
  BY RebuiltType
<1>2. AfterEmit(c, t) = [r EXCEPT !.diiLast = diiLast, !.modules = modules]
  BY DEF AfterEmit
<1> HIDE DEF r
<1>3. PartialFunction(modules, Ids, Module)
  BY <1>1, SentType DEF CarouselType, PartialFunction
<1>4. diiLast \in Int
  BY <1>1 DEF CarouselType
<1> HIDE DEF diiLast, modules
<1>5. QED BY <1>1, <1>2, <1>3, <1>4 DEF CarouselType

(* The pairs on the air are pairs of module ids and version numbers.       *)
LEMMA AiredType ==
  ASSUME TypeOK, NEW c, CarouselType(c), NEW t \in Int
  PROVE  PartialFunction(Aired(c, t), Pairs, [stored : Contents, at : Nat])
<1>1. \A id \in Due(c, t) : id \in DOMAIN c.modules /\ id \in Ids /\ c.modules[id] \in Module
  BY DEF Due, CarouselType, PartialFunction
<1>2. {<<id, c.modules[id].version>> : id \in Due(c, t)} \subseteq Pairs
  BY <1>1 DEF Pairs, Module
<1>3. \A id \in Due(c, t) : c.modules[id].stored \in Contents
  BY <1>1 DEF Module
<1>4. real \in Nat /\ PartialFunction(heard, Pairs, [stored : Contents, at : Nat])
  BY DEF TypeOK
<1>5. QED BY <1>2, <1>3, <1>4 DEF Aired, PartialFunction
-----------------------------------------------------------------------------
(* The carousel, the clock and the history keep their types.               *)
THEOREM TypeCorrect == Spec => []TypeOK
<1>1. ASSUME Init PROVE TypeOK
  <2>1. \A S, T : PartialFunction(Nothing, S, T)
    BY DEF PartialFunction
  <2>2. Budget \in Nat /\ -DIIInterval \in Int /\ 0 \in 0 .. Transactions - 1
    BY CarouselAssumption, BoundAssumption
  <2> HIDE DEF Nothing
  <2>3. CarouselType(NewCarousel(Budget))
    BY <2>1, <2>2 DEF NewCarousel, CarouselType
  <2>4. /\ announced = [dii |-> announced.dii, at |-> announced.at]
        /\ announced.dii = Nothing /\ announced.at \in Nat
    BY <1>1 DEF Init
  <2>5. /\ carousel = NewCarousel(Budget) /\ heard = Nothing /\ failed \in BOOLEAN
        /\ now \in Nat /\ calls \in Nat /\ real \in Nat /\ setbacks \in Nat
    BY <1>1 DEF Init
  <2>6. PartialFunction(announced.dii, Ids, 0 .. Versions - 1)
    BY <2>4 DEF PartialFunction, Nothing
  <2>7. PartialFunction(heard, Pairs, [stored : Contents, at : Nat])
    BY <2>5 DEF PartialFunction, Nothing
  <2>8. QED BY <2>3, <2>4, <2>5, <2>6, <2>7 DEF TypeOK
<1>2. TypeOK /\ [Next]_vars => TypeOK'
  <2> SUFFICES ASSUME TypeOK, [Next]_vars PROVE TypeOK'
    OBVIOUS
  <2>0. CarouselType(carousel) /\ now \in Int /\ real \in Nat /\ calls \in Nat /\ setbacks \in Nat
    BY DEF TypeOK
  <2>1. ASSUME NEW u \in Updates, Set(u) PROVE TypeOK'
    <3>1. CarouselType(AfterSet(carousel, u, now))
      BY <2>0, InstalledType DEF AfterSet
    <3>2. QED BY <2>0, <2>1, <3>1 DEF Set, Call, TypeOK
  <2>2. ASSUME NEW u \in Updates, SetRefused(u) PROVE TypeOK'
    BY <2>0, <2>2 DEF SetRefused, Call, TypeOK
  <2>3. ASSUME NEW id \in Ids, Remove(id) PROVE TypeOK'
    BY <2>0, <2>3, RemovedType DEF Remove, Call, TypeOK
  <2>4. CASE Emit
    <3> DEFINE r == Rebuilt(carousel, now)
    <3>1. CarouselType(r) /\ CarouselType(carousel')
      BY <2>0, <2>4, RebuiltType, EmitType DEF Emit
    <3>2. PartialFunction(heard', Pairs, [stored : Contents, at : Nat])
      BY <2>0, <2>4, <3>1, AiredType DEF Emit
    <3>3. announced' = IF DIIDue(r, now) THEN [dii |-> r.dii, at |-> real] ELSE announced
      BY <2>4 DEF Emit
    <3>4. UNCHANGED <<now, failed, calls, real, setbacks>>
      BY <2>4 DEF Emit
    <3> HIDE DEF r
    <3>5. /\ PartialFunction(announced.dii, Ids, 0 .. Versions - 1)'
          /\ (announced = [dii |-> announced.dii, at |-> announced.at])'
          /\ (announced.at \in Nat)'
      BY <2>0, <3>1, <3>3 DEF TypeOK, CarouselType
    <3>6. QED BY <2>0, <3>1, <3>2, <3>4, <3>5 DEF TypeOK
  <2>5. CASE Tick
    BY <2>0, <2>5 DEF Tick, TypeOK
  <2>6. ASSUME NEW t \in 0 .. MaxReal, SetBack(t) PROVE TypeOK'
    BY <2>0, <2>6, BoundAssumption DEF SetBack, TypeOK
  <2>7. CASE UNCHANGED vars
    BY <2>7 DEF vars, TypeOK
  <2>8. QED BY <2>1, <2>2, <2>3, <2>4, <2>5, <2>6, <2>7 DEF Next
<1>3. QED BY <1>1, <1>2, PTL DEF Spec
-----------------------------------------------------------------------------
(***************************************************************************)
(* The inductive invariant.  What makes FreshVersions true is what a pair  *)
(* that was on the air may have become: the live pair of its module with   *)
(* the same bytes, the live pair with other bytes after the guard has run  *)
(* out, or a retired pair whose retirement was written down no earlier, on *)
(* the muxer's clock, than the pair was last on the air.  Clock readings   *)
(* and elapsed time are compared through real - now, which a clock that is *)
(* set back only increases.                                                *)
(***************************************************************************)
Live(k) == k[1] \in DOMAIN carousel.modules /\ carousel.modules[k[1]].version = k[2]

Remembered ==
  \A k \in DOMAIN heard :
    /\ heard[k].at <= real
    /\ Live(k) => \/ carousel.modules[k[1]].stored = heard[k].stored
                  \/ real - heard[k].at >= StaleGuard
    /\ ~Live(k) => /\ k \in DOMAIN carousel.retired
                   /\ heard[k].at - carousel.retired[k] <= real - now

(* A module that was not yet on the air with its bytes is due, and its     *)
(* directory is not yet announced.                                         *)
OnAir(id) ==
  LET m == carousel.modules[id]
      k == <<id, m.version>>
  IN  k \in DOMAIN heard /\ heard[k].stored = m.stored

Pending ==
  \A id \in DOMAIN carousel.modules :
    OnAir(id) \/ (carousel.dirty /\ carousel.modules[id].next <= now)

(* The last DII on the air lists the live pairs, unless a new one is due.  *)
Directory == [id \in DOMAIN carousel.modules |-> carousel.modules[id].version]

Announced ==
  ~carousel.dirty =>
    /\ carousel.dii = Directory
    /\ DOMAIN carousel.modules # {} => announced.dii = Directory

IInv == TypeOK /\ Remembered /\ Pending /\ Announced
-----------------------------------------------------------------------------
(* Retire writes down the pair a live module leaves and keeps the others.  *)
LEMMA RetireEffect ==
  ASSUME NEW id, NEW t, NEW k
  PROVE  LET leaves == Has(carousel, id) /\ k = <<id, carousel.modules[id].version>>
         IN  /\ leaves => k \in DOMAIN Retire(carousel, id, t) /\ Retire(carousel, id, t)[k] = t
             /\ (~leaves /\ k \in DOMAIN carousel.retired) =>
                  k \in DOMAIN Retire(carousel, id, t)
                    /\ Retire(carousel, id, t)[k] = carousel.retired[k]
BY DEF Retire, Put

(* Set with a change, on the pairs heard: the pair the module gets is      *)
(* rested, the pair it leaves is retired now.                              *)
LEMMA InstalledRemembered ==
  ASSUME IInv, NEW u \in Updates, ~TooFresh(carousel, u, now),
         carousel' = Installed(carousel, u, now), UNCHANGED <<now, real, heard>>
  PROVE  Remembered'
<1> DEFINE id      == u.id
           version == NextVersion(carousel, id)
           retired == Retire(carousel, id, now)
<1>0. /\ now \in Int /\ real \in Int /\ StaleGuard \in Int
      /\ id \in Ids /\ CarouselType(carousel)
      /\ PartialFunction(heard, Pairs, [stored : Contents, at : Nat])
  BY CarouselAssumption DEF IInv, TypeOK, Ids
<1>1. /\ carousel'.modules = Put(carousel.modules, id, NewModule(u, version, now))
      /\ carousel'.retired = Drop(retired, <<id, version>>)
  BY <1>0 DEF Installed, CarouselType
<1>2. ~(<<id, version>> \in DOMAIN retired /\ now - retired[<<id, version>>] < StaleGuard)
  BY DEF TooFresh
<1>3. NewModule(u, version, now).version = version
  BY DEF NewModule
<1> SUFFICES ASSUME NEW k \in DOMAIN heard
             PROVE  /\ heard[k].at <= real
                    /\ Live(k)' => \/ carousel'.modules[k[1]].stored = heard[k].stored
                                   \/ real - heard[k].at >= StaleGuard
                    /\ ~Live(k)' => /\ k \in DOMAIN carousel'.retired
                                    /\ heard[k].at - carousel'.retired[k] <= real - now
  BY DEF Remembered
<1>4. k \in Pairs /\ k = <<k[1], k[2]>> /\ heard[k].at \in Int /\ heard[k].at <= real
  BY <1>0 DEF PartialFunction, Pairs, IInv, Remembered
<1>5. k \in DOMAIN carousel.retired => carousel.retired[k] \in Int
  BY <1>0 DEF CarouselType, PartialFunction
<1>6. /\ Live(k) => k \in DOMAIN retired \/ k[1] # id
      /\ Live(k) /\ k[1] = id => retired[k] = now
      /\ ~Live(k) => /\ k \in DOMAIN carousel.retired /\ k \in DOMAIN retired
                     /\ retired[k] = carousel.retired[k]
                     /\ heard[k].at - carousel.retired[k] <= real - now
  BY <1>4, RetireEffect DEF Live, Has, IInv, Remembered
<1> HIDE DEF id, version, retired
<1>7. Live(k)' <=> IF k[1] = id THEN k[2] = version ELSE Live(k)
  BY <1>1, <1>3 DEF Live, Put
<1>8. CASE k[1] # id
  <2>1. k # <<id, version>>
    BY <1>4, <1>8
  <2>2. k[1] \in DOMAIN carousel.modules => carousel'.modules[k[1]] = carousel.modules[k[1]]
    BY <1>1, <1>8 DEF Put
  <2>3. ~Live(k) => k \in DOMAIN carousel'.retired /\ carousel'.retired[k] = carousel.retired[k]
    BY <1>1, <1>6, <2>1 DEF Drop, Restrict
  <2>4. QED BY <1>4, <1>6, <1>7, <1>8, <2>2, <2>3 DEF IInv, Remembered, Live
<1>9. CASE k[1] = id /\ k[2] = version
  <2>1. k \in DOMAIN retired /\ now - retired[k] >= StaleGuard
    BY <1>0, <1>2, <1>4, <1>5, <1>6, <1>9
  <2>2. real - heard[k].at >= StaleGuard
    BY <1>0, <1>4, <1>5, <1>6, <1>9, <2>1
  <2>3. QED BY <1>4, <1>7, <1>9, <2>2
<1>10. CASE k[1] = id /\ k[2] # version
  <2>1. k \in DOMAIN retired /\ heard[k].at - retired[k] <= real - now
    BY <1>0, <1>4, <1>5, <1>6, <1>10
  <2>2. k \in DOMAIN carousel'.retired /\ carousel'.retired[k] = retired[k]
    BY <1>1, <1>4, <1>10, <2>1 DEF Drop, Restrict
  <2>3. QED BY <1>4, <1>7, <1>10, <2>1, <2>2
<1>11. QED BY <1>8, <1>9, <1>10

(* Set with a change, on what waits: the module is due now, and the        *)
(* directory waits for its DII.                                            *)
LEMMA InstalledPending ==
  ASSUME IInv, NEW u \in Updates,
         carousel' = Installed(carousel, u, now), UNCHANGED <<now, heard>>
  PROVE  Pending' /\ Announced'
<1>1. /\ carousel'.dirty
      /\ carousel'.modules = Put(carousel.modules, u.id,
                                 NewModule(u, NextVersion(carousel, u.id), now))
  BY DEF Installed, IInv, TypeOK, CarouselType
<1>2. Announced'
  BY <1>1 DEF Announced
<1>3. ASSUME NEW i \in DOMAIN carousel'.modules
      PROVE  OnAir(i)' \/ carousel'.modules[i].next <= now
  <2>1. CASE i = u.id
    BY <1>1, <2>1 DEF Put, NewModule, IInv, TypeOK
  <2>2. CASE i # u.id
    BY <1>1, <2>2 DEF Put, OnAir, IInv, Pending
  <2>3. QED BY <2>1, <2>2
<1>4. QED BY <1>1, <1>2, <1>3 DEF Pending

(* Remove retires the pair of the module it takes away.                    *)
LEMMA RemovedInvariant ==
  ASSUME IInv, NEW id \in Ids, Has(carousel, id),
         carousel' = AfterRemove(carousel, id, now), UNCHANGED <<now, real, heard>>
  PROVE  Remembered' /\ Pending' /\ Announced'
<1>0. /\ now \in Int /\ real \in Int
      /\ PartialFunction(heard, Pairs, [stored : Contents, at : Nat])
  BY DEF IInv, TypeOK
<1>1. /\ carousel'.modules = Drop(carousel.modules, id)
      /\ carousel'.retired = Retire(carousel, id, now)
      /\ carousel'.dirty
  BY DEF AfterRemove, IInv, TypeOK, CarouselType
<1>2. ASSUME NEW k \in DOMAIN heard
      PROVE  /\ heard[k].at <= real
             /\ Live(k)' => \/ carousel'.modules[k[1]].stored = heard[k].stored
                            \/ real - heard[k].at >= StaleGuard
             /\ ~Live(k)' => /\ k \in DOMAIN carousel'.retired
                             /\ heard[k].at - carousel'.retired[k] <= real - now
  <2>1. k = <<k[1], k[2]>> /\ heard[k].at \in Int /\ heard[k].at <= real
    BY <1>0 DEF PartialFunction, Pairs, IInv, Remembered
  <2>2. CASE k[1] = id
    <3>1. ~Live(k)'
      BY <1>1, <2>2 DEF Live, Drop, Restrict
    <3>2. /\ k \in DOMAIN carousel'.retired
          /\ heard[k].at - carousel'.retired[k] <= real - now
      BY <1>0, <1>1, <2>1, <2>2, RetireEffect DEF Live, Has, IInv, Remembered
    <3>3. QED BY <2>1, <3>1, <3>2
  <2>3. CASE k[1] # id
    <3>1. /\ Live(k)' <=> Live(k)
          /\ Live(k) => carousel'.modules[k[1]] = carousel.modules[k[1]]
      BY <1>1, <2>3 DEF Live, Drop, Restrict
    <3>2. k # <<id, carousel.modules[id].version>>
      BY <2>1, <2>3
    <3>3. ~Live(k) => /\ k \in DOMAIN carousel'.retired
                     /\ carousel'.retired[k] = carousel.retired[k]
      BY <1>1, <3>2, RetireEffect DEF IInv, Remembered
    <3>4. QED BY <2>1, <3>1, <3>3 DEF IInv, Remembered, Live
  <2>4. QED BY <2>2, <2>3
<1>3. Remembered'
  BY <1>2 DEF Remembered
<1>4. Announced'
  BY <1>1 DEF Announced
<1>5. \A i \in DOMAIN carousel'.modules : i \in DOMAIN carousel.modules
                                      /\ carousel'.modules[i] = carousel.modules[i]
  BY <1>1 DEF Drop, Restrict
<1>6. Pending'
  BY <1>1, <1>5 DEF Pending, OnAir, IInv
<1>7. QED BY <1>3, <1>4, <1>6
-----------------------------------------------------------------------------
(* What an emission does, in terms of the carousel before it: the versions *)
(* and the bytes stay, the due modules are on the air, and the DII is on   *)
(* the air when the directory had changed.                                 *)
LEMMA EmitEffect ==
  ASSUME TypeOK, Emit
  PROVE  /\ UNCHANGED <<now, real>>
         /\ DOMAIN carousel'.modules = DOMAIN carousel.modules
         /\ \A id \in DOMAIN carousel.modules :
              /\ carousel'.modules[id].version = carousel.modules[id].version
              /\ carousel'.modules[id].stored = carousel.modules[id].stored
         /\ carousel'.retired = carousel.retired
         /\ carousel'.dirty = FALSE
         /\ carousel'.dii = IF carousel.dirty THEN Directory ELSE carousel.dii
         /\ heard' = Aired(carousel, now)
         /\ announced' = announced \/ announced'.dii = carousel'.dii
         /\ (carousel.dirty /\ DOMAIN carousel.modules # {}) => announced'.dii = Directory
<1> DEFINE r == Rebuilt(carousel, now)
<1>0. now \in Int /\ real \in Int /\ DIIInterval \in Int /\ CarouselType(carousel)
  BY CarouselAssumption DEF TypeOK
<1>1. CarouselType(r)
  BY <1>0, RebuiltType
<1>2. /\ r.modules = carousel.modules /\ r.retired = carousel.retired /\ r.dirty = FALSE
      /\ r.dii = IF carousel.dirty THEN Directory ELSE carousel.dii
      /\ carousel.dirty => r.diiLast = now - DIIInterval
  BY <1>0 DEF Rebuilt, Directory, CarouselType
<1>3. /\ announced' = IF DIIDue(r, now) THEN [dii |-> r.dii, at |-> real] ELSE announced
      /\ heard' = Aired(r, now) /\ carousel' = AfterEmit(carousel, now)
      /\ UNCHANGED <<now, real>>
  BY DEF Emit
<1> DEFINE modules == [id \in DOMAIN r.modules |->
                         IF id \in Due(r, now) THEN Sent(r.modules[id], now) ELSE r.modules[id]]
<1>4. /\ carousel'.modules = modules /\ carousel'.retired = r.retired
      /\ carousel'.dii = r.dii /\ carousel'.dirty = r.dirty
  <2> DEFINE diiLast == IF DIIDue(r, now) THEN now ELSE r.diiLast
  <2>1. carousel' = [r EXCEPT !.diiLast = diiLast, !.modules = modules]
    BY <1>3 DEF AfterEmit
  <2> HIDE DEF r, modules, diiLast
  <2>2. QED BY <1>1, <2>1 DEF CarouselType
<1>5. Due(r, now) = Due(carousel, now) /\ Aired(r, now) = Aired(carousel, now)
  BY <1>2 DEF Due, Aired
<1> HIDE DEF r
<1>6. \A id \in DOMAIN r.modules : /\ modules[id].version = r.modules[id].version
                                  /\ modules[id].stored = r.modules[id].stored
  <2>1. \A id \in DOMAIN r.modules : r.modules[id] \in Module
    BY <1>1 DEF CarouselType, PartialFunction
  <2>2. QED BY <2>1 DEF Sent, Module
<1>7. (carousel.dirty /\ DOMAIN carousel.modules # {}) => DIIDue(r, now)
  BY <1>0, <1>2 DEF DIIDue
<1>8. announced' = announced \/ announced'.dii = r.dii
  BY <1>3
<1> HIDE DEF modules
<1>9. DOMAIN modules = DOMAIN r.modules
  BY DEF modules
<1>10. QED BY <1>2, <1>3, <1>4, <1>5, <1>6, <1>7, <1>8, <1>9

(* Emit: the pairs put on the air carry the live bytes.                    *)
LEMMA EmitInvariant ==
  ASSUME IInv, Emit
  PROVE  Remembered' /\ Pending' /\ Announced'
<1> DEFINE sent == {<<id, carousel.modules[id].version>> : id \in Due(carousel, now)}
<1>0. now \in Int /\ real \in Int /\ TypeOK
  BY DEF IInv, TypeOK
<1>1. /\ UNCHANGED <<now, real>>
      /\ DOMAIN carousel'.modules = DOMAIN carousel.modules
      /\ \A id \in DOMAIN carousel.modules :
           /\ carousel'.modules[id].version = carousel.modules[id].version
           /\ carousel'.modules[id].stored = carousel.modules[id].stored
      /\ carousel'.retired = carousel.retired
      /\ carousel'.dirty = FALSE
      /\ carousel'.dii = IF carousel.dirty THEN Directory ELSE carousel.dii
      /\ heard' = Aired(carousel, now)
      /\ announced' = announced \/ announced'.dii = carousel'.dii
      /\ (carousel.dirty /\ DOMAIN carousel.modules # {}) => announced'.dii = Directory
  BY <1>0, EmitEffect
<1>2. /\ DOMAIN heard' = DOMAIN heard \cup sent
      /\ \A k \in sent : heard'[k] = [stored |-> carousel.modules[k[1]].stored, at |-> real]
      /\ \A k \in DOMAIN heard \ sent : heard'[k] = heard[k]
  BY <1>1 DEF Aired
<1>3. \A k \in sent : Live(k)
  BY DEF Live, Due
<1>4. \A k : Live(k)' <=> Live(k)
  BY <1>1 DEF Live
<1>9. \A id \in Due(carousel, now) : <<id, carousel.modules[id].version>> \in sent
  OBVIOUS
<1> HIDE DEF sent
<1>5. Remembered'
  <2>1. ASSUME NEW k \in sent
        PROVE  /\ heard'[k].at <= real
               /\ Live(k)'
               /\ carousel'.modules[k[1]].stored = heard'[k].stored
    <3>1. Live(k) /\ Live(k)'
      BY <1>3, <1>4
    <3>2. heard'[k].at = real /\ heard'[k].stored = carousel.modules[k[1]].stored
      BY <1>2
    <3>3. QED BY <1>0, <1>1, <3>1, <3>2 DEF Live
  <2>2. ASSUME NEW k \in DOMAIN heard \ sent
        PROVE  /\ heard'[k].at <= real
               /\ Live(k)' => \/ carousel'.modules[k[1]].stored = heard'[k].stored
                              \/ real - heard'[k].at >= StaleGuard
               /\ ~Live(k)' => /\ k \in DOMAIN carousel'.retired
                               /\ heard'[k].at - carousel'.retired[k] <= real - now
    <3>1. heard'[k] = heard[k] /\ (Live(k)' <=> Live(k))
      BY <1>2, <1>4
    <3>2. Live(k) => carousel'.modules[k[1]].stored = carousel.modules[k[1]].stored
      BY <1>1 DEF Live
    <3>3. QED BY <1>1, <3>1, <3>2 DEF IInv, Remembered
  <2>3. QED BY <1>1, <1>2, <2>1, <2>2 DEF Remembered
<1>6. Pending'
  <2> SUFFICES ASSUME NEW id \in DOMAIN carousel.modules PROVE OnAir(id)'
    BY <1>1 DEF Pending
  <2> DEFINE k == <<id, carousel.modules[id].version>>
  <2>0. k[1] = id /\ (OnAir(id) => k \in DOMAIN heard /\ heard[k].stored = carousel.modules[id].stored)
    BY DEF OnAir
  <2>1. k \in sent \/ OnAir(id)
    <3>1. CASE id \in Due(carousel, now)
      BY <1>9, <3>1
    <3>2. CASE id \notin Due(carousel, now)
      <4>1. carousel.modules[id].next \in Int
        BY <1>0 DEF TypeOK, CarouselType, PartialFunction, Module
      <4>2. ~(carousel.modules[id].next <= now)
        BY <1>0, <3>2, <4>1 DEF Due
      <4>3. QED BY <4>2 DEF IInv, Pending
    <3>3. QED BY <3>1, <3>2
  <2>2. OnAir(id)' <=> k \in DOMAIN heard' /\ heard'[k].stored = carousel.modules[id].stored
    BY <1>1 DEF OnAir
  <2> HIDE DEF k
  <2>3. k \in DOMAIN heard' /\ heard'[k].stored = carousel.modules[id].stored
    <3>1. CASE k \in sent
      <4>1. heard'[k] = [stored |-> carousel.modules[k[1]].stored, at |-> real]
        BY <1>2, <3>1
      <4>2. QED BY <1>2, <2>0, <3>1, <4>1
    <3>2. CASE k \notin sent
      BY <1>2, <2>0, <2>1, <3>2
    <3>3. QED BY <3>1, <3>2
  <2>4. QED BY <2>2, <2>3
<1>7. Announced'
  <2>1. Directory' = Directory
    BY <1>1 DEF Directory
  <2>2. carousel'.dii = Directory
    BY <1>1 DEF IInv, Announced
  <2>3. DOMAIN carousel.modules # {} => announced'.dii = Directory
    BY <1>1, <2>2 DEF IInv, Announced
  <2>4. QED BY <1>1, <2>1, <2>2, <2>3 DEF Announced
<1>8. QED BY <1>5, <1>6, <1>7

(* The clock: real - now does not decrease, and only moves when nothing    *)
(* waits.                                                                  *)
LEMMA ClockInvariant ==
  ASSUME IInv, NEW advance \in Int, NEW elapse \in Nat,
         now' = now + advance, real' = real + elapse, advance <= elapse,
         ~carousel.dirty, UNCHANGED <<carousel, heard, announced>>
  PROVE  Remembered' /\ Pending' /\ Announced'
<1>0. /\ now \in Int /\ real \in Int /\ StaleGuard \in Int
      /\ PartialFunction(heard, Pairs, [stored : Contents, at : Nat])
      /\ PartialFunction(carousel.retired, Pairs, Int)
  BY CarouselAssumption DEF IInv, TypeOK, CarouselType
<1>1. \A k \in DOMAIN heard : heard[k].at \in Int
  BY <1>0 DEF PartialFunction
<1>2. \A k \in DOMAIN carousel.retired : carousel.retired[k] \in Int
  BY <1>0 DEF PartialFunction
<1>3. Remembered'
  BY <1>0, <1>1, <1>2 DEF IInv, Remembered, Live
<1>4. Pending'
  BY DEF IInv, Pending, OnAir
<1>5. Announced'
  BY DEF IInv, Announced, Directory
<1>6. QED BY <1>3, <1>4, <1>5
-----------------------------------------------------------------------------
LEMMA InitInvariant == Init => Remembered /\ Pending /\ Announced
BY DEF Init, NewCarousel, Remembered, Pending, Announced

LEMMA NextInvariant == IInv /\ [Next]_vars => Remembered' /\ Pending' /\ Announced'
<1> SUFFICES ASSUME IInv, [Next]_vars PROVE Remembered' /\ Pending' /\ Announced'
  OBVIOUS
<1>0. now \in Int /\ real \in Int
  BY DEF IInv, TypeOK
<1>1. ASSUME NEW u \in Updates, Set(u) PROVE Remembered' /\ Pending' /\ Announced'
  <2>1. CASE Unchanged(carousel, u)
    BY <1>1, <2>1 DEF Set, AfterSet, IInv, Remembered, Live, Pending, OnAir, Announced, Directory
  <2>2. CASE ~Unchanged(carousel, u)
    <3>1. /\ ~TooFresh(carousel, u, now) /\ carousel' = Installed(carousel, u, now)
          /\ UNCHANGED <<now, real, heard>>
      BY <1>1, <2>2 DEF Set, SetFails, AfterSet
    <3>2. QED BY <3>1, InstalledRemembered, InstalledPending
  <2>3. QED BY <2>1, <2>2
<1>2. ASSUME NEW u \in Updates, SetRefused(u) PROVE Remembered' /\ Pending' /\ Announced'
  BY <1>2 DEF SetRefused, IInv, Remembered, Live, Pending, OnAir, Announced, Directory
<1>3. ASSUME NEW id \in Ids, Remove(id) PROVE Remembered' /\ Pending' /\ Announced'
  <2>1. CASE Has(carousel, id)
    BY <1>3, <2>1, RemovedInvariant DEF Remove
  <2>2. CASE ~Has(carousel, id)
    BY <1>3, <2>2
    DEF Remove, AfterRemove, IInv, Remembered, Live, Pending, OnAir, Announced, Directory
  <2>3. QED BY <2>1, <2>2
<1>4. CASE Emit
  BY <1>4, EmitInvariant
<1>5. CASE Tick
  <2>1. now' = now + 1 /\ real' = real + 1 /\ ~carousel.dirty
        /\ UNCHANGED <<carousel, heard, announced>>
    BY <1>5 DEF Tick
  <2>2. QED BY <2>1, ClockInvariant
<1>6. ASSUME NEW t \in 0 .. MaxReal, SetBack(t) PROVE Remembered' /\ Pending' /\ Announced'
  <2>1. now' = t /\ t < now /\ real' = real /\ ~carousel.dirty
        /\ UNCHANGED <<carousel, heard, announced>> /\ t \in Int
    BY <1>6, BoundAssumption DEF SetBack
  <2> DEFINE advance == t - now
  <2>2. advance \in Int /\ now' = now + advance /\ real' = real + 0 /\ advance <= 0 /\ 0 \in Nat
    BY <1>0, <2>1
  <2> HIDE DEF advance
  <2>3. QED BY <2>1, <2>2, ClockInvariant
<1>7. CASE UNCHANGED vars
  BY <1>7 DEF vars, IInv, Remembered, Live, Pending, OnAir, Announced, Directory
<1>8. QED BY <1>1, <1>2, <1>3, <1>4, <1>5, <1>6, <1>7 DEF Next

LEMMA Invariance == Spec => []IInv
<1>1. Init => Remembered /\ Pending /\ Announced
  BY InitInvariant
<1>2. IInv /\ [Next]_vars => Remembered' /\ Pending' /\ Announced'
  BY NextInvariant
<1>3. IInv <=> TypeOK /\ Remembered /\ Pending /\ Announced
  BY DEF IInv
<1>4. QED BY <1>1, <1>2, <1>3, TypeCorrect, PTL DEF Spec
-----------------------------------------------------------------------------
(* An emission touches what was heard at the live pairs only.              *)
LEMMA EmitHeard ==
  ASSUME TypeOK, Emit, NEW k \in DOMAIN heard'
  PROVE  \/ k \in DOMAIN heard /\ heard'[k] = heard[k]
         \/ Live(k) /\ heard'[k].stored = carousel.modules[k[1]].stored
<1> DEFINE sent == {<<id, carousel.modules[id].version>> : id \in Due(carousel, now)}
<1>1. heard' = Aired(carousel, now)
  BY EmitEffect
<1>2. /\ DOMAIN heard' = DOMAIN heard \cup sent
      /\ k \in sent => heard'[k] = [stored |-> carousel.modules[k[1]].stored, at |-> real]
      /\ k \notin sent => heard'[k] = heard[k]
  BY <1>1 DEF Aired
<1>3. k \in sent => Live(k)
  BY DEF Live, Due
<1> HIDE DEF sent
<1>4. CASE k \in sent
  BY <1>2, <1>3, <1>4
<1>5. CASE k \notin sent
  BY <1>2, <1>5
<1>6. QED BY <1>4, <1>5

(* What is heard, and what is announced, only changes in an emission.      *)
LEMMA OnlyEmitIsHeard ==
  ASSUME [Next]_vars, ~Emit
  PROVE  UNCHANGED <<heard, announced>>
BY DEF Next, vars, Set, SetRefused, Remove, Tick, SetBack

(* Emit on a carousel of any size: everything a carousel holds has been    *)
(* heard under its present version, once nothing waits to be announced.    *)
THEOREM EverythingHeldIsHeard == Spec => []HeldIsHeard
<1>1. IInv => HeldIsHeard
  BY DEF IInv, Pending, OnAir, HeldIsHeard
<1>2. QED BY <1>1, Invariance, PTL

(* Set and Remove with any number of versions and any clock: bytes heard   *)
(* under a pair are not replaced under it before StaleGuard is over.       *)
THEOREM VersionsAreFresh == Spec => FreshVersions
<1>1. IInv /\ [Next]_vars =>
        [\A k \in DOMAIN heard :
           heard'[k].stored # heard[k].stored => real' - heard[k].at >= StaleGuard]_vars
  <2> SUFFICES ASSUME IInv, [Next]_vars, NEW k \in DOMAIN heard,
                      heard'[k].stored # heard[k].stored
               PROVE  real' - heard[k].at >= StaleGuard
    OBVIOUS
  <2>1. TypeOK
    BY DEF IInv
  <2>2. Emit
    BY OnlyEmitIsHeard
  <2>3. k \in DOMAIN heard'
    BY <2>1, <2>2, EmitEffect DEF Aired
  <2>4. Live(k) /\ heard'[k].stored = carousel.modules[k[1]].stored
    BY <2>1, <2>2, <2>3, EmitHeard
  <2>5. real' = real
    BY <2>2 DEF Emit
  <2>6. QED BY <2>4, <2>5 DEF IInv, Remembered
<1>2. QED BY <1>1, Invariance, PTL DEF Spec, FreshVersions

(* Emit with any directory: no block is on the air before the DII that     *)
(* lists its pair.                                                         *)
THEOREM BlocksAreAnnounced == Spec => AnnouncedBeforeSent
<1>1. IInv /\ IInv' /\ [Next]_vars =>
        [\A k \in DOMAIN heard' :
           (k \notin DOMAIN heard \/ heard'[k] # heard[k]) =>
             k[1] \in DOMAIN announced'.dii /\ announced'.dii[k[1]] = k[2]]_vars
  <2> SUFFICES ASSUME IInv, IInv', [Next]_vars, NEW k \in DOMAIN heard',
                      k \notin DOMAIN heard \/ heard'[k] # heard[k]
               PROVE  k[1] \in DOMAIN announced'.dii /\ announced'.dii[k[1]] = k[2]
    OBVIOUS
  <2>1. TypeOK
    BY DEF IInv
  <2>2. Emit
    BY OnlyEmitIsHeard
  <2>3. Live(k)
    BY <2>1, <2>2, EmitHeard
  <2>4. /\ DOMAIN carousel'.modules = DOMAIN carousel.modules
        /\ \A id \in DOMAIN carousel.modules :
             carousel'.modules[id].version = carousel.modules[id].version
        /\ carousel'.dirty = FALSE
    BY <2>1, <2>2, EmitEffect
  <2>5. announced'.dii = Directory'
    BY <2>3, <2>4 DEF IInv, Announced, Live
  <2>6. Directory' = Directory
    BY <2>4 DEF Directory
  <2>7. QED BY <2>3, <2>5, <2>6 DEF Live, Directory
<1>2. QED BY <1>1, Invariance, PTL DEF Spec, AnnouncedBeforeSent
-----------------------------------------------------------------------------
(***************************************************************************)
(* The schedule.  A module that was sent once waits for a time that never  *)
(* comes.  Of the others, on a clock that was never set back, one that was *)
(* not yet sent is due, and one that was is due no later than its pause    *)
(* after it was last on the air: the cycle that is aligned to the first    *)
(* sending is not longer, because that was not in the future.              *)
(***************************************************************************)
Waits(m) == m.once /\ m.sent > 0 => m.next = NeverAgain

Comes(m) ==
  /\ m.initial <= now
  /\ m.sent = 0 => m.next <= now

Returns(id) ==
  LET m == carousel.modules[id]
      k == <<id, m.version>>
  IN  m.sent > 0 /\ ~m.once => k \in DOMAIN heard /\ m.next <= heard[k].at + Pause(m)

Clocks ==
  /\ now <= real /\ real <= MaxReal
  /\ setbacks = 0 => now = real

Scheduled ==
  \A id \in DOMAIN carousel.modules :
    /\ ~carousel.modules[id].once => carousel.modules[id].interval > 0
    /\ Waits(carousel.modules[id])
    /\ setbacks = 0 => Comes(carousel.modules[id]) /\ Returns(id)

\* the DII counts its interval from the last time it was on the air
Repeated ==
  (setbacks = 0 /\ ~carousel.dirty /\ DOMAIN carousel.modules # {}) =>
    carousel.diiLast <= announced.at

Schedule == Clocks /\ Scheduled /\ Repeated
-----------------------------------------------------------------------------
(* Set installs a module that is due at once and was not yet sent.         *)
LEMMA InstalledSchedule ==
  ASSUME TypeOK, Schedule, NEW u \in Updates,
         carousel' = Installed(carousel, u, now), UNCHANGED <<now, real, setbacks, heard>>
  PROVE  Schedule'
<1> DEFINE m == NewModule(u, NextVersion(carousel, u.id), now)
<1>0. CarouselType(carousel) /\ now \in Nat
  BY DEF TypeOK
<1>1. carousel'.modules = Put(carousel.modules, u.id, m) /\ carousel'.dirty
  BY <1>0 DEF Installed, CarouselType
<1>2. /\ m.sent = 0 /\ m.initial = now /\ m.next = now
      /\ m.once = u.once /\ m.interval = u.interval
  BY DEF NewModule
<1>3. /\ DOMAIN carousel'.modules = DOMAIN carousel.modules \cup {u.id}
      /\ carousel'.modules[u.id] = m
      /\ \A id \in DOMAIN carousel.modules :
           id # u.id => carousel'.modules[id] = carousel.modules[id]
  BY <1>1 DEF Put
<1> HIDE DEF m
<1>4. Scheduled'
  <2> SUFFICES ASSUME NEW id \in DOMAIN carousel'.modules
               PROVE  /\ ~carousel'.modules[id].once => carousel'.modules[id].interval > 0
                      /\ Waits(carousel.modules[id])'
                      /\ setbacks' = 0 => Comes(carousel.modules[id])' /\ Returns(id)'
    BY DEF Scheduled, Waits
  <2>1. CASE id = u.id
    BY <1>0, <1>2, <1>3, <2>1, UpdatesAssumption DEF Waits, Comes, Returns
  <2>2. CASE id # u.id
    BY <1>3, <2>2 DEF Schedule, Scheduled, Waits, Comes, Returns
  <2>3. QED BY <2>1, <2>2
<1>5. QED BY <1>1, <1>4 DEF Schedule, Clocks, Repeated

(* Remove leaves the schedule of the others.                               *)
LEMMA RemovedSchedule ==
  ASSUME TypeOK, Schedule, NEW id \in Ids, Has(carousel, id),
         carousel' = AfterRemove(carousel, id, now), UNCHANGED <<now, real, setbacks, heard>>
  PROVE  Schedule'
<1>0. CarouselType(carousel)
  BY DEF TypeOK
<1>1. carousel'.modules = Drop(carousel.modules, id) /\ carousel'.dirty
  BY <1>0 DEF AfterRemove, CarouselType
<1>2. \A i \in DOMAIN carousel'.modules : i \in DOMAIN carousel.modules
                                      /\ carousel'.modules[i] = carousel.modules[i]
  BY <1>1 DEF Drop, Restrict
<1>3. Scheduled'
  BY <1>2 DEF Schedule, Scheduled, Waits, Comes, Returns
<1>4. QED BY <1>1, <1>3 DEF Schedule, Clocks, Repeated

(* A module that is sent at t is due again after its pause at the latest,  *)
(* or never when it is sent once.                                          *)
LEMMA SentAgain ==
  ASSUME NEW m \in Module, NEW t \in Nat, m.initial <= t
  PROVE  /\ Sent(m, t).sent > 0 /\ Sent(m, t).initial = m.initial
         /\ Sent(m, t).once = m.once /\ Sent(m, t).version = m.version
         /\ Sent(m, t).interval = m.interval /\ Sent(m, t).retryInterval = m.retryInterval
         /\ m.once => Sent(m, t).next = NeverAgain
         /\ ~m.once => Sent(m, t).next <= t + Pause(m)
<1> DEFINE sent == IF m.sent > m.retries THEN m.retries + 2 ELSE m.sent + 1
<1>1. sent \in Nat /\ sent > 0
  BY DEF Module
<1>2. Sent(m, t) = [m EXCEPT !.sent = sent, !.next = NextDue(m, sent, t)]
  BY DEF Sent
<1> HIDE DEF sent
<1>3. m.once => NextDue(m, sent, t) = NeverAgain
  BY DEF NextDue
<1>4. ~m.once => NextDue(m, sent, t) <= t + Pause(m)
  BY <1>1 DEF NextDue, Pause, Module
<1>5. QED BY <1>1, <1>2, <1>3, <1>4 DEF Module

(* What an emission does to the schedule: the due modules are sent and     *)
(* heard now, the DII likewise.                                            *)
LEMMA EmitSchedule ==
  ASSUME TypeOK, Emit
  PROVE  /\ DOMAIN carousel'.modules = DOMAIN carousel.modules
         /\ carousel'.dirty = FALSE
         /\ \A id \in DOMAIN carousel.modules :
              LET m == carousel.modules[id]
                  k == <<id, m.version>>
              IN  IF now >= m.next
                    THEN /\ carousel'.modules[id] = Sent(m, now)
                         /\ k \in DOMAIN heard' /\ heard'[k].at = real
                    ELSE /\ carousel'.modules[id] = m
                         /\ k \in DOMAIN heard => k \in DOMAIN heard' /\ heard'[k] = heard[k]
         /\ DOMAIN carousel.modules # {} =>
              \/ announced'.at = real /\ carousel'.diiLast = now
              \/ /\ ~carousel.dirty /\ now - carousel.diiLast < DIIInterval
                 /\ announced' = announced /\ carousel'.diiLast = carousel.diiLast
<1> DEFINE r == Rebuilt(carousel, now)
           sent == {<<id, carousel.modules[id].version>> : id \in Due(carousel, now)}
<1>0. now \in Int /\ DIIInterval \in Int /\ CarouselType(carousel) /\ carousel.diiLast \in Int
  BY CarouselAssumption DEF TypeOK, CarouselType
<1>1. CarouselType(r)
  BY <1>0, RebuiltType
<1>2. /\ r.modules = carousel.modules /\ r.dirty = FALSE
      /\ r.diiLast = IF carousel.dirty THEN now - DIIInterval ELSE carousel.diiLast
  BY <1>0 DEF Rebuilt, CarouselType
<1>3. /\ announced' = IF DIIDue(r, now) THEN [dii |-> r.dii, at |-> real] ELSE announced
      /\ heard' = Aired(carousel, now) /\ carousel' = AfterEmit(carousel, now)
  BY EmitEffect DEF Emit
<1> DEFINE modules == [id \in DOMAIN r.modules |->
                         IF id \in Due(r, now) THEN Sent(r.modules[id], now) ELSE r.modules[id]]
           diiLast == IF DIIDue(r, now) THEN now ELSE r.diiLast
<1>4. /\ carousel'.modules = modules /\ carousel'.dirty = r.dirty /\ carousel'.diiLast = diiLast
  <2>1. carousel' = [r EXCEPT !.diiLast = diiLast, !.modules = modules]
    BY <1>3 DEF AfterEmit
  <2> HIDE DEF r, modules, diiLast
  <2>2. QED BY <1>1, <2>1 DEF CarouselType
<1> HIDE DEF r
<1>5. /\ DOMAIN heard' = DOMAIN heard \cup sent
      /\ \A k \in DOMAIN heard' :
           heard'[k] = IF k \in sent THEN [stored |-> carousel.modules[k[1]].stored, at |-> real]
                       ELSE heard[k]
  BY <1>3 DEF Aired
<1>6. DOMAIN carousel.modules # {} =>
        \/ announced'.at = real /\ carousel'.diiLast = now
        \/ /\ ~carousel.dirty /\ now - carousel.diiLast < DIIInterval
           /\ announced' = announced /\ carousel'.diiLast = carousel.diiLast
  BY <1>0, <1>2, <1>3, <1>4 DEF DIIDue
<1>7. ASSUME NEW id \in DOMAIN carousel.modules
      PROVE  LET m == carousel.modules[id]
                 k == <<id, m.version>>
             IN  IF now >= m.next
                   THEN /\ carousel'.modules[id] = Sent(m, now)
                        /\ k \in DOMAIN heard' /\ heard'[k].at = real
                   ELSE /\ carousel'.modules[id] = m
                        /\ k \in DOMAIN heard => k \in DOMAIN heard' /\ heard'[k] = heard[k]
  <2> PICK k : k = <<id, carousel.modules[id].version>>
    OBVIOUS
  <2>1. id \in Due(carousel, now) <=> now >= carousel.modules[id].next
    BY DEF Due
  <2>2. k \in sent <=> id \in Due(carousel, now)
    OBVIOUS
  <2>3. carousel'.modules[id] = IF id \in Due(carousel, now) THEN Sent(carousel.modules[id], now)
                                ELSE carousel.modules[id]
    BY <1>2, <1>4 DEF Due
  <2> HIDE DEF sent
  <2>4. IF k \in sent THEN k \in DOMAIN heard' /\ heard'[k].at = real
        ELSE k \in DOMAIN heard => k \in DOMAIN heard' /\ heard'[k] = heard[k]
    <3>1. CASE k \in sent
      <4>1. k \in DOMAIN heard'
        BY <1>5, <3>1
      <4>2. heard'[k] = [stored |-> carousel.modules[k[1]].stored, at |-> real]
        BY <1>5, <3>1, <4>1
      <4>3. QED BY <3>1, <4>1, <4>2
    <3>2. CASE k \notin sent
      BY <1>5, <3>2
    <3>3. QED BY <3>1, <3>2
  <2>5. QED BY <2>1, <2>2, <2>3, <2>4
<1>8. DOMAIN carousel'.modules = DOMAIN carousel.modules /\ carousel'.dirty = FALSE
  BY <1>2, <1>4
<1>9. QED BY <1>6, <1>7, <1>8

(* Emit keeps the schedule.                                                *)
LEMMA EmitKeepsSchedule ==
  ASSUME TypeOK, Schedule, Emit
  PROVE  Schedule'
<1>0. /\ now \in Nat /\ real \in Nat /\ UNCHANGED <<now, real, setbacks>>
      /\ \A id \in DOMAIN carousel.modules : carousel.modules[id] \in Module
      /\ announced.at \in Int /\ carousel.diiLast \in Int
  BY DEF TypeOK, CarouselType, PartialFunction, Emit
<1>1. DOMAIN carousel'.modules = DOMAIN carousel.modules /\ carousel'.dirty = FALSE
  BY EmitSchedule
<1>2. Scheduled'
  <2> SUFFICES ASSUME NEW id \in DOMAIN carousel.modules
               PROVE  /\ ~carousel'.modules[id].once => carousel'.modules[id].interval > 0
                      /\ Waits(carousel.modules[id])'
                      /\ setbacks' = 0 => Comes(carousel.modules[id])' /\ Returns(id)'
    BY <1>1 DEF Scheduled
  <2> PICK m : m = carousel.modules[id]
    OBVIOUS
  <2> PICK k : k = <<id, m.version>>
    OBVIOUS
  <2>1. IF now >= m.next
          THEN /\ carousel'.modules[id] = Sent(m, now)
               /\ k \in DOMAIN heard' /\ heard'[k].at = real
          ELSE /\ carousel'.modules[id] = m
               /\ k \in DOMAIN heard => k \in DOMAIN heard' /\ heard'[k] = heard[k]
    BY EmitSchedule
  <2>2. m \in Module
    BY <1>0
  <2>3. /\ ~m.once => m.interval > 0
        /\ m.once /\ m.sent > 0 => m.next = NeverAgain
        /\ setbacks = 0 => /\ m.initial <= now /\ now = real
                           /\ m.sent = 0 => m.next <= now
                           /\ m.sent > 0 /\ ~m.once => /\ k \in DOMAIN heard
                                                       /\ m.next <= heard[k].at + Pause(m)
    BY DEF Schedule, Clocks, Scheduled, Waits, Comes, Returns
  <2>4. CASE now < m.next
    <3>1. carousel'.modules[id] = m
      BY <1>0, <2>1, <2>2, <2>4 DEF Module
    <3>2. k \in DOMAIN heard => k \in DOMAIN heard' /\ heard'[k] = heard[k]
      BY <1>0, <2>1, <2>2, <2>4 DEF Module
    <3>3. QED BY <1>0, <2>3, <3>1, <3>2 DEF Waits, Comes, Returns
  <2>5. CASE now >= m.next
    <3>1. carousel'.modules[id] = Sent(m, now) /\ k \in DOMAIN heard' /\ heard'[k].at = real
      BY <2>1, <2>5
    <3>2. m.once \in BOOLEAN /\ m.next \in Int
      BY <2>2 DEF Module
    <3>3. CASE setbacks = 0
      <4> PICK n : n = Sent(m, now)
        OBVIOUS
      <4>1. /\ n.sent > 0 /\ n.initial = m.initial
            /\ n.once = m.once /\ n.version = m.version
            /\ n.interval = m.interval /\ n.retryInterval = m.retryInterval
            /\ m.once => n.next = NeverAgain
            /\ ~m.once => n.next <= now + Pause(m)
        BY <1>0, <2>2, <2>3, <3>3, SentAgain
      <4>2. Pause(n) = Pause(m) /\ n \in Module
        BY <1>0, <2>2, <4>1, SentType DEF Pause
      <4>3. n.next \in Int /\ Pause(n) \in Int
        BY <4>2 DEF Module, Pause
      <4>4. QED BY <1>0, <2>3, <3>1, <3>3, <4>1, <4>2, <4>3 DEF Waits, Comes, Returns
    <3>4. CASE setbacks # 0
      <4>1. /\ Sent(m, now).once = m.once /\ Sent(m, now).interval = m.interval
            /\ m.once => Sent(m, now).next = NeverAgain
        BY <2>2 DEF Sent, NextDue, Module
      <4>2. QED BY <1>0, <2>3, <3>1, <3>4, <4>1 DEF Waits
    <3>5. QED BY <3>3, <3>4
  <2>6. QED BY <1>0, <2>2, <2>4, <2>5 DEF Module
<1>3. Repeated'
  BY <1>0, <1>1, EmitSchedule DEF Schedule, Clocks, Repeated
<1>4. QED BY <1>0, <1>2, <1>3 DEF Schedule, Clocks

LEMMA InitSchedule == Init => Schedule
BY BoundAssumption DEF Init, NewCarousel, Schedule, Clocks, Scheduled, Repeated

(* The clock: without being set back it is the elapsed time, and only      *)
(* moves on.                                                               *)
LEMMA NextSchedule == TypeOK /\ Schedule /\ [Next]_vars => Schedule'
<1> SUFFICES ASSUME TypeOK, Schedule, [Next]_vars PROVE Schedule'
  OBVIOUS
<1>0. /\ now \in Nat /\ real \in Nat /\ setbacks \in Nat /\ MaxReal \in Nat
      /\ \A id \in DOMAIN carousel.modules : carousel.modules[id] \in Module
  BY BoundAssumption DEF TypeOK, CarouselType, PartialFunction
<1>1. ASSUME NEW u \in Updates, Set(u) PROVE Schedule'
  <2>1. UNCHANGED <<now, real, setbacks, heard, announced>>
    BY <1>1 DEF Set
  <2>2. CASE Unchanged(carousel, u)
    BY <1>1, <2>1, <2>2 DEF Set, AfterSet, Schedule, Clocks, Scheduled, Repeated, Waits,
                            Comes, Returns
  <2>3. CASE ~Unchanged(carousel, u)
    BY <1>1, <2>1, <2>3, InstalledSchedule DEF Set, AfterSet
  <2>4. QED BY <2>2, <2>3
<1>2. ASSUME NEW u \in Updates, SetRefused(u) PROVE Schedule'
  BY <1>2 DEF SetRefused, Schedule, Clocks, Scheduled, Repeated, Waits, Comes, Returns
<1>3. ASSUME NEW id \in Ids, Remove(id) PROVE Schedule'
  <2>1. CASE Has(carousel, id)
    BY <1>3, <2>1, RemovedSchedule DEF Remove
  <2>2. CASE ~Has(carousel, id)
    BY <1>3, <2>2 DEF Remove, AfterRemove, Schedule, Clocks, Scheduled, Repeated, Waits,
                      Comes, Returns
  <2>3. QED BY <2>1, <2>2
<1>4. CASE Emit
  BY <1>4, EmitKeepsSchedule
<1>5. CASE Tick
  <2>1. /\ now' = now + 1 /\ real' = real + 1 /\ real < MaxReal
        /\ UNCHANGED <<carousel, setbacks, heard, announced>>
    BY <1>5 DEF Tick
  <2>2. Clocks'
    BY <1>0, <2>1 DEF Schedule, Clocks
  <2>3. Scheduled'
    BY <1>0, <2>1 DEF Schedule, Scheduled, Waits, Comes, Returns, Module
  <2>4. QED BY <2>1, <2>2, <2>3 DEF Schedule, Repeated
<1>6. ASSUME NEW t \in 0 .. MaxReal, SetBack(t) PROVE Schedule'
  <2>1. /\ now' = t /\ t < now /\ real' = real /\ setbacks' = setbacks + 1
        /\ UNCHANGED <<carousel, heard, announced>> /\ t \in Nat
    BY <1>0, <1>6 DEF SetBack
  <2>2. setbacks' # 0
    BY <1>0, <2>1
  <2>3. Clocks'
    BY <1>0, <2>1, <2>2 DEF Schedule, Clocks
  <2>4. QED BY <2>1, <2>2, <2>3 DEF Schedule, Scheduled, Repeated, Waits
<1>7. CASE UNCHANGED vars
  BY <1>7 DEF vars, Schedule, Clocks, Scheduled, Repeated, Waits, Comes, Returns
<1>8. QED BY <1>1, <1>2, <1>3, <1>4, <1>5, <1>6, <1>7 DEF Next

(* Emit with any schedule of retries and cycles: on a clock that was never *)
(* set back nothing that is repeated is off the air for longer than its    *)
(* pause, nor the DII for longer than DIIInterval; and what is sent once   *)
(* is sent once on any clock.                                              *)
THEOREM RepetitionsAreOnTime == Spec => RepeatedOnTime
<1> DEFINE OnceSent ==
             \A id \in DOMAIN carousel.modules :
               LET m == carousel.modules[id]
                   k == <<id, m.version>>
               IN  (m.once /\ m.sent > 0) => heard'[k] = heard[k]
           OnTime ==
             setbacks = 0 =>
               /\ \A id \in DOMAIN carousel'.modules :
                    LET m == carousel'.modules[id] IN
                    ~m.once => real - heard'[<<id, m.version>>].at < Pause(m)
               /\ DOMAIN carousel'.modules # {} => real - announced'.at < DIIInterval
<1>1. IInv /\ Schedule /\ [Next]_vars => [Emit => OnceSent /\ OnTime]_vars
  <2> SUFFICES ASSUME IInv, Schedule, Emit PROVE OnceSent /\ OnTime
    OBVIOUS
  <2>0. /\ TypeOK /\ now \in Nat /\ real \in Nat /\ MaxReal \in Nat /\ NeverAgain \in Nat
        /\ DIIInterval \in Nat \ {0}
        /\ now <= real /\ real <= MaxReal /\ MaxReal < NeverAgain
        /\ setbacks = 0 => now = real
        /\ \A id \in DOMAIN carousel.modules : carousel.modules[id] \in Module
        /\ announced.at \in Nat /\ carousel.diiLast \in Int
    BY CarouselAssumption, BoundAssumption
    DEF IInv, TypeOK, CarouselType, PartialFunction, Schedule, Clocks
  <2>1. OnceSent
    <3> SUFFICES ASSUME NEW id \in DOMAIN carousel.modules,
                        carousel.modules[id].once, carousel.modules[id].sent > 0
                 PROVE  heard'[<<id, carousel.modules[id].version>>]
                          = heard[<<id, carousel.modules[id].version>>]
      OBVIOUS
    <3>1. carousel.modules[id].next = NeverAgain
      BY DEF Schedule, Scheduled, Waits
    <3>2. ~(now >= carousel.modules[id].next)
      BY <2>0, <3>1
    <3>3. OnAir(id)
      BY <2>0, <3>2 DEF IInv, Pending, Module
    <3>4. QED BY <2>0, <3>2, <3>3, EmitSchedule DEF OnAir
  <2>2. ASSUME setbacks = 0, NEW id \in DOMAIN carousel'.modules, ~carousel'.modules[id].once
        PROVE  real - heard'[<<id, carousel'.modules[id].version>>].at
                 < Pause(carousel'.modules[id])
    <3> PICK m : m = carousel.modules[id]
      OBVIOUS
    <3> PICK n : n = carousel'.modules[id]
      OBVIOUS
    <3> PICK k : k = <<id, m.version>>
      OBVIOUS
    <3>1. id \in DOMAIN carousel.modules /\ m \in Module
      BY <2>0, EmitSchedule
    <3>2. IF now >= m.next
            THEN n = Sent(m, now) /\ k \in DOMAIN heard' /\ heard'[k].at = real
            ELSE n = m /\ (k \in DOMAIN heard => k \in DOMAIN heard' /\ heard'[k] = heard[k])
      BY <2>0, <3>1, EmitSchedule
    <3>3. /\ ~m.once => m.interval > 0
          /\ m.initial <= now /\ (m.sent = 0 => m.next <= now)
          /\ m.sent > 0 /\ ~m.once => k \in DOMAIN heard /\ m.next <= heard[k].at + Pause(m)
      BY <2>2, <3>1 DEF Schedule, Scheduled, Comes, Returns
    <3>4. CASE now >= m.next
      <4>1. /\ n.once = m.once /\ n.version = m.version
            /\ n.interval = m.interval /\ n.retryInterval = m.retryInterval
        BY <2>0, <3>1, <3>2, <3>3, <3>4, SentAgain
      <4>2. Pause(n) > 0
        BY <2>2, <3>1, <3>3, <4>1 DEF Pause, Module
      <4>3. QED BY <2>0, <3>2, <3>4, <4>1, <4>2
    <3>5. CASE now < m.next
      <4>1. n = m /\ (k \in DOMAIN heard => k \in DOMAIN heard' /\ heard'[k] = heard[k])
        BY <2>0, <3>1, <3>2, <3>5 DEF Module
      <4>2. m.sent > 0 /\ ~m.once
        BY <2>0, <2>2, <3>1, <3>3, <3>5, <4>1 DEF Module
      <4>3. k \in DOMAIN heard /\ heard'[k] = heard[k] /\ heard[k].at \in Nat
        BY <2>0, <3>3, <4>1, <4>2 DEF TypeOK, PartialFunction
      <4>4. m.next <= heard[k].at + Pause(m) /\ Pause(m) \in Nat /\ m.next \in Int
        BY <3>1, <3>3, <4>2 DEF Pause, Module
      <4>5. real - heard[k].at < Pause(m)
        BY <2>0, <2>2, <3>5, <4>3, <4>4
      <4>6. QED BY <4>1, <4>3, <4>5
    <3>6. QED BY <2>0, <3>1, <3>4, <3>5 DEF Module
  <2>3. ASSUME setbacks = 0, DOMAIN carousel'.modules # {}
        PROVE  real - announced'.at < DIIInterval
    <3>1. DOMAIN carousel.modules # {}
      BY <2>0, <2>3, EmitSchedule
    <3>2. CASE announced'.at = real
      BY <2>0, <3>2
    <3>3. CASE ~carousel.dirty /\ now - carousel.diiLast < DIIInterval /\ announced' = announced
      BY <2>0, <2>3, <3>1, <3>3 DEF Schedule, Repeated
    <3>4. QED BY <2>0, <3>1, <3>2, <3>3, EmitSchedule
  <2>4. QED BY <2>1, <2>2, <2>3
<1>2. Spec => []Schedule
  BY InitSchedule, NextSchedule, TypeCorrect, PTL DEF Spec
<1>3. QED BY <1>1, <1>2, Invariance, PTL DEF Spec, RepeatedOnTime
=============================================================================
