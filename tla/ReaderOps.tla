------------------------------ MODULE ReaderOps ------------------------------
(***************************************************************************)
(* The carousel reader of ts2mmt (internal/tsremux/carouselin) as values   *)
(* and operators.  A reader has one side per carousel; pushing a section   *)
(* is an operator from a side to the next one.                             *)
(*                                                                         *)
(* Bytes are abstract as in CarouselOps: block n of a module is the pair   *)
(* of the module's stored value and n, and a module is whole when all its  *)
(* blocks come from one stored value, which is what the checksums of       *)
(* ParseModule tell.  The role of a carousel is that of its PID.           *)
(***************************************************************************)
EXTENDS RecorderOps

CONSTANT Blocks  \* how many blocks a module is cut into (1 to 256)

ASSUME ReaderAssumption == Blocks \in Nat \ {0}

NewSide ==
  [ modules       |-> Nothing,   \* id -> version, as the last DII lists them
    pending       |-> Nothing,   \* id -> the version and the blocks collected
    version       |-> Nothing,   \* id -> the version last taken
    bootstrap     |-> Nothing,   \* the directory of the last bootstrap
    segmentParts  |-> Nothing,   \* sequence -> part number -> records
    segments      |-> <<>>,      \* the completed segments, in order
    losses        |-> {},        \* the loss entries
    lossSeen      |-> {},
    codec         |-> Nothing,
    avmap         |-> <<>>,      \* the AV map entries, in order
    objects       |-> Nothing,   \* object module -> its bytes
    objectVersion |-> Nothing,
    manifest      |-> Nothing,
    resolved      |-> Nothing,   \* object -> its bytes
    resolvedParts |-> Nothing ]  \* object -> the modules and versions it was cut from
-----------------------------------------------------------------------------
(* Sections on the air.                                                    *)

\* the order of the numbers of the code
Number(id) ==
  CASE id[1] = "bootstrap" -> 0
    [] id[1] = "manifest"  -> 1
    [] id[1] = "timed"     -> 256 + id[2] * MaxSegmentParts + id[3]
    [] id[1] = "object"    -> 255 + id[2]
    [] id[1] = "loss"      -> 512 + id[2]
    [] id[1] = "codec"     -> 768
    [] id[1] = "avmap"     -> 769

\* mutant: the bootstrap goes first
SentBeforeByNumber(c, i, j) == Number(i) < Number(j)

SentBefore(c, i, j) ==
  LET p == c.modules[i].priority
      q == c.modules[j].priority
  IN  p < q \/ (p = q /\ Number(i) < Number(j))

BlocksOf(role, c, id) ==
  [n \in 1 .. Blocks |->
     [role |-> role, table |-> "DDB", id |-> id, version |-> c.modules[id].version,
      block |-> n, stored |-> c.modules[id].stored]]

\* the due modules in the order they are sent
DueInOrder(c, t) ==
  SortSeq(FoldSet(LAMBDA id, ids : Append(ids, id), <<>>, Due(c, t)),
          LAMBDA i, j : SentBefore(c, i, j))

\* what a carousel, its directory rebuilt, sends at t
Sections(role, c, t) ==
  LET ids == DueInOrder(c, t) IN
  (IF DIIDue(c, t) THEN <<[role |-> role, table |-> "DII", modules |-> c.dii]>> ELSE <<>>)
  \o FlattenSeq([i \in DOMAIN ids |-> BlocksOf(role, c, ids[i])])
-----------------------------------------------------------------------------
(* Timed segments.  A part's number comes from the bootstrap, if that      *)
(* lists the segment under the module; else the part is taken for a whole  *)
(* segment.                                                                *)

PartOf(s, id, m) ==
  IF id \in DOMAIN s.bootstrap /\ s.bootstrap[id].stored.seq = m.seq
  THEN [number |-> s.bootstrap[id].stored.part, count |-> s.bootstrap[id].stored.count]
  ELSE [number |-> 0, count |-> 1]

\* each part has a record count of its own, and nothing may follow the counted
\* records: joined parts are no segment
ParseSegment(parts) == [ok |-> Len(parts) = 1, records |-> parts[1]]

\* mutant: a part waits for the bootstrap that lists it
AddSegmentPartListed(s, id, m) ==
  LET part   == PartOf(s, id, m)
      parts  == Put(IF m.seq \in DOMAIN s.segmentParts THEN s.segmentParts[m.seq] ELSE Nothing,
                    part.number, m.records)
      parsed == ParseSegment([i \in 1 .. part.count |-> parts[i - 1]])
  IN  IF id \notin DOMAIN s.bootstrap \/ ~(0 .. part.count - 1 \subseteq DOMAIN parts)
      THEN [s EXCEPT !.segmentParts = Put(@, m.seq, parts)]
      ELSE [s EXCEPT
              !.segmentParts = Drop(@, m.seq),
              !.segments     = IF parsed.ok
                               THEN Append(@, [epoch |-> m.epoch, seq |-> m.seq,
                                               records |-> parsed.records])
                               ELSE @]

AddSegmentPart(s, id, m) ==
  LET part   == PartOf(s, id, m)
      parts  == Put(IF m.seq \in DOMAIN s.segmentParts THEN s.segmentParts[m.seq] ELSE Nothing,
                    part.number, m.records)
      parsed == ParseSegment([i \in 1 .. part.count |-> parts[i - 1]])
  IN  IF ~(0 .. part.count - 1 \subseteq DOMAIN parts)
      THEN [s EXCEPT !.segmentParts = Put(@, m.seq, parts)]
      ELSE [s EXCEPT
              !.segmentParts = Drop(@, m.seq),
              !.segments     = IF parsed.ok
                               THEN Append(@, [epoch |-> m.epoch, seq |-> m.seq,
                                               records |-> parsed.records])
                               ELSE @]
-----------------------------------------------------------------------------
(* Objects.  A manifest lists the modules it was made with; an object is   *)
(* cut out of them once they are there under these versions, and not again *)
(* while it is listed with the same ones.                                  *)

\* the modules that an object's bytes lie in
PartsOf(manifest, id) ==
  LET at == manifest.at[id] IN
  {n \in DOMAIN manifest.versions :
     (n - 1) * Capacity < at.offset + at.size /\ at.offset < n * Capacity}

PartsKey(manifest, id) == [n \in PartsOf(manifest, id) |-> manifest.versions[n]]

\* mutant: neither versions nor hashes are compared
ResolvableUnchecked(s, id) ==
  \A n \in PartsOf(s.manifest, id) : ObjectModuleID(n) \in DOMAIN s.objects

\* byte i of the packed objects, which may lie past the end of the module received
ByteAt(s, i) ==
  LET host == s.objects[ObjectModuleID(i \div Capacity + 1)]
      k    == (i % Capacity) + 1
  IN  IF k \in DOMAIN host THEN host[k] ELSE "missing"

CutOut(s, id) ==
  LET at == s.manifest.at[id] IN [i \in 1 .. at.size |-> ByteAt(s, at.offset + i - 1)]

Resolvable(s, id) ==
  /\ \A n \in PartsOf(s.manifest, id) :
       /\ ObjectModuleID(n) \in DOMAIN s.objects
       /\ s.objectVersion[ObjectModuleID(n)] = s.manifest.versions[n]
  /\ CutOut(s, id) = s.manifest.at[id].hashed

ResolveCommitted(s) ==
  IF s.manifest = Nothing THEN s
  ELSE LET listed == DOMAIN s.manifest.at
           fresh  == {id \in listed :
                        /\ ~(id \in DOMAIN s.resolvedParts
                             /\ s.resolvedParts[id] = PartsKey(s.manifest, id))
                        /\ Resolvable(s, id)}
       IN  [s EXCEPT
              !.resolved = [id \in DOMAIN @ \cup fresh |->
                              IF id \in fresh THEN CutOut(s, id) ELSE @[id]],
              !.resolvedParts = [id \in DOMAIN @ \cup fresh |->
                              IF id \in fresh THEN PartsKey(s.manifest, id) ELSE @[id]]]
-----------------------------------------------------------------------------
(* A complete module.                                                      *)

AddLossReport(s, m) ==
  IF m.seq \in s.lossSeen THEN s
  ELSE [s EXCEPT !.lossSeen = @ \cup {m.seq}, !.losses = @ \cup Range(m.entries)]

\* the first configuration under an id stays
AddCodecConfigs(s, m) ==
  [s EXCEPT !.codec = [id \in DOMAIN @ \cup DOMAIN m.codec |->
                         IF id \in DOMAIN @ THEN @[id] ELSE m.codec[id]]]

AddAVMap(s, m) ==
  [s EXCEPT !.avmap = @ \o SetToSortSeq(m.entries \ Range(@), <)]

Take(s, id, version, m) ==
  CASE id[1] = "bootstrap" -> [s EXCEPT !.bootstrap = m.entries]
    [] id[1] = "timed"     -> AddSegmentPart(s, id, m)
    [] id[1] = "object"    -> ResolveCommitted([s EXCEPT
                                !.objects       = Put(@, id, m),
                                !.objectVersion = Put(@, id, version)])
    [] id[1] = "manifest"  -> ResolveCommitted([s EXCEPT !.manifest = m])
    [] id[1] = "codec"     -> AddCodecConfigs(s, m)
    [] id[1] = "avmap"     -> AddAVMap(s, m)
    [] id[1] = "loss"      -> AddLossReport(s, m)

ModuleComplete(s, id, version, blocks) ==
  IF id \in DOMAIN s.version /\ s.version[id] = version THEN s
  ELSE IF Cardinality(Range(blocks)) > 1 THEN s
  ELSE Take([s EXCEPT !.version = Put(@, id, version)], id, version, blocks[1])
-----------------------------------------------------------------------------
(* Sections.                                                               *)

AfterDII(s, modules) ==
  [s EXCEPT !.modules = modules,
            !.pending = Restrict(@, {id \in DOMAIN @ \cap DOMAIN modules :
                                       @[id].version = modules[id]})]

Collected(s, id, version) ==
  IF id \in DOMAIN s.pending /\ s.pending[id].version = version
  THEN s.pending[id].blocks ELSE Nothing

AfterDDB(s, id, version, block, stored) ==
  LET blocks == Put(Collected(s, id, version), block, stored) IN
  IF \/ id \notin DOMAIN s.modules \/ s.modules[id] # version
     \/ block \in DOMAIN Collected(s, id, version)
  THEN s
  ELSE IF DOMAIN blocks # 1 .. Blocks
       THEN [s EXCEPT !.pending = Put(@, id, [version |-> version, blocks |-> blocks])]
       ELSE ModuleComplete([s EXCEPT !.pending = Drop(@, id)], id, version, blocks)

Push(reader, x) ==
  [reader EXCEPT ![x.role] =
     IF x.table = "DII" THEN AfterDII(@, x.modules)
     ELSE AfterDDB(@, x.id, x.version, x.block, x.stored)]
=============================================================================
