------------------------------- MODULE AppData -------------------------------
(***************************************************************************)
(* appdata.Store: the items of a data broadcast.  Their bytes come in      *)
(* pieces that carry an MPU and an item number and no offset, again and    *)
(* again; their sizes come in a DAMT or in an index item, itself carried   *)
(* as an item of an MPU the DAMT names; their names come in a DDMT or in   *)
(* the index item.  All of this arrives in any order.                      *)
(*                                                                         *)
(* A piece is one byte: a record with the index entries of the index item  *)
(* it is part of ("entries", empty for the piece of a file), its place     *)
(* "part" among "of" pieces.                                               *)
(***************************************************************************)
EXTENDS Integers, Sequences, FiniteSets, FiniteSetsExt

CONSTANTS
  MaxItemBytes,   \* the most bytes of items held
  MaxIndexBytes,  \* the most bytes a candidate for an index item grows to
  NoName          \* an item's name or path before one is known

With(f, k, v) == [x \in DOMAIN f \cup {k} |-> IF x = k THEN v ELSE f[x]]
Without(f, K) == [x \in DOMAIN f \ K |-> f[x]]
At(f, k, other) == IF k \in DOMAIN f THEN f[k] ELSE other

Nothing == [x \in {} |-> 0]

NewStore ==
  [ items |-> Nothing, byNode |-> Nothing, paths |-> Nothing, pending |-> Nothing,
    indexMPUs |-> {}, indexDone |-> {}, carriers |-> {}, cand |-> Nothing, held |-> 0 ]

NewItem ==
  [ announced |-> FALSE, size |-> 0, version |-> 0, name |-> NoName, path |-> NoName,
    data |-> <<>>, received |-> 0, mpu |-> 0, hasMPU |-> FALSE ]

Complete(it) == it.announced /\ it.received = it.size
-----------------------------------------------------------------------------
\* parseIndexItem: only a payload read to its last byte is an index item
IsIndex(buf) ==
  /\ buf[1].entries # {} /\ Len(buf) = buf[1].of
  /\ \A k \in DOMAIN buf : buf[k].entries = buf[1].entries /\ buf[k].part = k

Announced(it, e) ==
  [it EXCEPT !.announced = TRUE, !.size = e.size, !.version = e.version, !.name = e.name]

ApplyIndex(items, entries) ==
  [id \in DOMAIN items \cup {e.id : e \in entries} |->
     LET mine == {e \in entries : e.id = id}
         it   == At(items, id, NewItem)
     IN  IF mine = {} THEN it ELSE Announced(it, CHOOSE e \in mine : TRUE)]

\* mutant: the bytes of the dropped item stay counted
DropCarrierUncounted(s, id) ==
  IF id \in DOMAIN s.items /\ ~ s.items[id].announced
  THEN [s EXCEPT !.items = Without(@, {id})]
  ELSE s

\* dropIndexCarrier: the item it was taken for before it could be read
DropCarrier(s, id) ==
  IF id \in DOMAIN s.items /\ ~ s.items[id].announced
  THEN [s EXCEPT !.held = @ - Len(s.items[id].data), !.items = Without(@, {id})]
  ELSE s

\* pushIndexData
PushIndex(s, mpu, id, x) ==
  LET k    == <<mpu, id>>
      buf  == Append(At(s.cand, k, <<>>), x)
      read == [s EXCEPT !.items = ApplyIndex(@, buf[1].entries),
                        !.indexDone = @ \cup {mpu}, !.carriers = @ \cup {id},
                        !.cand = Without(@, {c \in DOMAIN @ : c[1] = mpu})]
  IN  CASE Len(buf) > MaxIndexBytes -> [s EXCEPT !.cand = Without(@, {k})]
        [] Len(buf) <= MaxIndexBytes /\ ~ IsIndex(buf) -> [s EXCEPT !.cand = With(@, k, buf)]
        [] OTHER -> DropCarrier(read, id)

\* an item received to its end, or again in another MPU, starts anew
Restarts(it, mpu) ==
  \/ it.announced /\ it.received >= it.size
  \/ it.hasMPU /\ it.mpu # mpu /\ it.received > 0 /\ ~ it.announced

PushItem(s, mpu, id, x) ==
  LET was  == At(s.items, id, NewItem)
      it   == IF Restarts(was, mpu) THEN [was EXCEPT !.data = <<>>, !.received = 0] ELSE was
      held == s.held - (Len(was.data) - Len(it.data))
      fits == held + 1 <= MaxItemBytes
  IN  [s EXCEPT
        !.held  = IF fits THEN held + 1 ELSE held,
        !.items = With(@, id,
          [it EXCEPT !.mpu = mpu, !.hasMPU = TRUE, !.received = @ + 1,
                     !.data = IF fits THEN Append(@, x) ELSE @])]

\* PushItemData
PushItemData(s, mpu, id, x) ==
  LET open   == mpu \notin s.indexDone
      tried  == IF open /\ (id \in s.carriers \/ mpu \in s.indexMPUs)
                THEN PushIndex(s, mpu, id, x) ELSE s
  IN  IF id \in s.carriers \/ id \in tried.carriers THEN tried
      ELSE PushItem(tried, mpu, id, x)
-----------------------------------------------------------------------------
\* damtItem: with an index item the DAMT names no items, which makes it item 0
DAMTItem(s, index, e) ==
  LET id == IF index THEN 0 ELSE e.id
      it == At(s.items, id, NewItem)
  IN  [s EXCEPT
        !.items  = With(@, id, [it EXCEPT !.announced = TRUE, !.size = e.size,
                                          !.version = e.version,
                                          !.path = At(s.paths, e.node, NoName)]),
        !.byNode = With(@, e.node, id)]

\* damt for one MPU, with at most one item
PushDAMT(s, t) ==
  LET noted == IF t.index THEN [s EXCEPT !.indexMPUs = @ \cup {t.mpu}] ELSE s
  IN  IF t.items = {} THEN noted
      ELSE DAMTItem(noted, t.index, CHOOSE e \in t.items : TRUE)

Named(items, id, name, path) == [items EXCEPT ![id] = [@ EXCEPT !.name = name, !.path = path]]

\* ddmt for one node with one file
PushDDMT(s, t) ==
  LET paths == With(With(s.paths, t.node, t.path), t.file, t.path)
      known == t.file \in DOMAIN s.byNode
      there == known /\ s.byNode[t.file] \in DOMAIN s.items
  IN  [s EXCEPT
        !.paths   = paths,
        !.items   = IF there THEN Named(@, s.byNode[t.file], t.name, t.path) ELSE @,
        !.pending = IF known THEN @ ELSE With(@, t.file, [name |-> t.name, path |-> t.path])]

\* Finish
FinishStore(s) ==
  LET due == {f \in DOMAIN s.pending : f \in DOMAIN s.byNode}
  IN  [s EXCEPT
        !.items = [id \in DOMAIN @ |->
                     LET mine == {f \in due : s.byNode[f] = id} IN
                     IF mine = {} THEN @[id]
                     ELSE LET p == s.pending[CHOOSE f \in mine : TRUE]
                          IN  [@[id] EXCEPT !.name = p.name, !.path = p.path]],
        !.pending = Nothing, !.cand = Nothing]

Unread(s) == s.indexMPUs \ s.indexDone

HeldBytes(s) == MapThenSumSet(LAMBDA id : Len(s.items[id].data), DOMAIN s.items)

\* Graph, for an application at <<path, name>>: the items are looked through in
\* no particular order, and the first of that name decides
Resolutions(s, path, name) ==
  LET named == {id \in DOMAIN s.items : s.items[id].name = name}
  IN  IF named = {} THEN {FALSE} ELSE {Complete(s.items[id]) : id \in named}
=============================================================================
