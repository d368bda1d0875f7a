------------------------ MODULE ParallelReaderProofs ------------------------
(***************************************************************************)
(* ParallelReader keeps the promise of a stream, for any number of workers *)
(* and buffers and any file, when a read that fails has read nothing.      *)
(***************************************************************************)
EXTENDS ParallelReader, TLAPS

\* the units of the file that a read at p returns; At(p, i) is where the i-th
\* block of a worker begins when the first begins at p
Stride     == Workers * BlockSize
At(p, i)   == p + (i - 1) * Stride
Avail(p)   == IF p >= FileSize THEN 0 ELSE Least(BlockSize, FileSize - p)
Count(n)   == [i \in 1 .. n |-> i]
Data(p, n) == [i \in 1 .. n |-> p + i]
Succ(w)    == IF w + 1 = Workers THEN 0 ELSE w + 1

Errors == {"none", "EOF", "failed"}
Block  == [buf : Buffers \cup {NoBuffer}, from : Nat, to : Nat, err : Errors]

\* the consumer reads on
Live == ~stopped /\ err = "none"

ReaderTypeOK ==
  /\ pc \in [WorkerIds -> {"take", "read", "block", "error", "done"}]
  /\ off \in [WorkerIds -> Nat]
  /\ held \in [WorkerIds -> Block]
  /\ ready \in [WorkerIds -> Seq(Block)]
  /\ closed \in [WorkerIds -> BOOLEAN]
  /\ free \in [WorkerIds -> Seq(Buffers)]
  /\ memory \in [Buffers -> Seq(Nat)]
  /\ next \in WorkerIds
  /\ cur \in Block
  /\ out \in Seq(Nat)

\* no buffer of worker w is in two places: its free and its queued buffers,
\* fr and rd, and the one it holds, hd, are different ones
Once(w, fr, rd, hd) ==
  /\ \A i \in 1 .. Len(fr) :
       /\ fr[i][1] = w
       /\ \A j \in 1 .. Len(fr) : i # j => fr[i] # fr[j]
  /\ \A i \in 1 .. Len(rd) : rd[i].buf # NoBuffer =>
       /\ rd[i].buf[1] = w
       /\ \A j \in 1 .. Len(fr) : fr[j] # rd[i].buf
       /\ \A j \in 1 .. Len(rd) : i # j => rd[j].buf # rd[i].buf
  /\ hd.buf # NoBuffer =>
       /\ hd.buf[1] = w
       /\ \A j \in 1 .. Len(fr) : fr[j] # hd.buf
       /\ \A j \in 1 .. Len(rd) : rd[j].buf # hd.buf

\* buffer b is none of them
Outside(b, fr, rd, hd) ==
  /\ \A j \in 1 .. Len(fr) : fr[j] # b
  /\ \A j \in 1 .. Len(rd) : rd[j].buf # b
  /\ hd.buf # b

Exclusive ==
  /\ \A w \in WorkerIds : Once(w, free[w], ready[w], held[w])
  /\ cur.buf # NoBuffer => \A w \in WorkerIds : Outside(cur.buf, free[w], ready[w], held[w])

\* block b is the file's from p on
Holds(b, p) ==
  /\ b.buf \in Buffers /\ b.from = 0 /\ b.to = Avail(p) /\ b.to > 0
  /\ memory[b.buf] = Data(p, b.to)

\* what a worker has sent as the block from p on
Sent(b, p) ==
  /\ b.err = "none" => Holds(b, p)
  /\ b.err = "EOF" => p >= FileSize

\* what a worker does about the block from p on, the next it has to send
Working(w, p) ==
  /\ pc[w] \in {"take", "read", "block"} => off[w] = p
  /\ pc[w] = "read" => held[w].buf \in Buffers /\ held[w].from = 0
  /\ pc[w] = "block" => /\ Holds(held[w], p)
                        /\ held[w].err \in {"none", "EOF"}
                        /\ held[w].err = "EOF" => p + BlockSize >= FileSize
  /\ pc[w] = "error" => /\ held[w].err \in {"EOF", "failed"}
                        /\ held[w].err = "EOF" => p >= FileSize
  /\ closed[w] => /\ pc[w] = "done"
                  /\ \/ p >= FileSize
                     \/ Len(ready[w]) > 0 /\ ready[w][Len(ready[w])].err # "none"

\* start[w] is where the next block begins that the consumer takes from w:
\* the worker whose turn it is has the first, each other a block behind the
\* one before it
Turns(start) ==
  \A w \in WorkerIds :
    start[Succ(w)] = IF Succ(w) = next THEN start[w] + BlockSize - Stride ELSE start[w] + BlockSize

Passing(start) ==
  /\ out = Count(Len(out))
  /\ Len(out) + (cur.to - cur.from) = Least(start[next], FileSize)
  /\ \/ cur = NoBlock
     \/ /\ cur.from < cur.to /\ cur.err = "none" /\ cur.buf \in Buffers
        /\ memory[cur.buf] = Data(Len(out) - cur.from, cur.to)

Ordered(start) ==
  /\ start \in [WorkerIds -> Nat]
  /\ Turns(start)
  /\ Passing(start)
  /\ \A w \in WorkerIds : \A i \in 1 .. Len(ready[w]) : Sent(ready[w][i], At(start[w], i))
  /\ \A w \in WorkerIds : Working(w, At(start[w], Len(ready[w]) + 1))

Reading(start) == ReaderTypeOK /\ Exclusive /\ Ordered(start)

IInv ==
  /\ err # "none" => cur = NoBlock
  /\ Live => \E start : Reading(start)
-----------------------------------------------------------------------------
(* Arithmetic of blocks: products of a number with the stride stay out of  *)
(* what follows.                                                           *)
LEMMA StrideType == Stride \in Nat /\ Stride >= BlockSize
BY ReaderAssumption DEF Stride

LEMMA Strides ==
  /\ \A n \in Nat : (n + 1) * BlockSize = n * BlockSize + BlockSize
  /\ Stride = (Workers - 1) * BlockSize + BlockSize
BY ReaderAssumption DEF Stride

LEMMA AtFacts ==
  ASSUME NEW p \in Nat, NEW i \in Nat \ {0}
  PROVE  /\ At(p, i) \in Nat
         /\ At(p, 1) = p
         /\ At(p, i + 1) = At(p, i) + Stride
         /\ At(p + Stride, i) = At(p, i + 1)
<1>1. /\ Stride \in Nat
      /\ (i - 1) * Stride \in Nat
      /\ (i + 1 - 1) * Stride = (i - 1) * Stride + Stride
      /\ (1 - 1) * Stride = 0
  BY StrideType
<1>2. QED BY <1>1 DEF At

LEMMA AvailFacts ==
  ASSUME NEW p \in Nat
  PROVE  /\ Avail(p) \in 0 .. BlockSize
         /\ Least(p, FileSize) + Avail(p) = Least(p + BlockSize, FileSize)
         /\ Avail(p) = 0 <=> p >= FileSize
         /\ Avail(p) < BlockSize => p + BlockSize >= FileSize
BY ReaderAssumption DEF Avail, Least

LEMMA NextTurn ==
  ASSUME NEW w \in WorkerIds
  PROVE  Succ(w) \in WorkerIds /\ (w + 1) % Workers = Succ(w)
BY ReaderAssumption DEF WorkerIds, Succ

LEMMA Owners ==
  /\ NoBuffer \notin Buffers
  /\ \A b \in Buffers : b[1] \in WorkerIds
  /\ NoBlock \in Block /\ NoBlock.buf = NoBuffer
  /\ NoBlock.from = 0 /\ NoBlock.to = 0 /\ NoBlock.err = "none"
BY DEF NoBuffer, Buffers, WorkerIds, NoBlock, Block, Errors

LEMMA Empty ==
  ASSUME NEW b \in Buffers
  PROVE  [NoBlock EXCEPT !.buf = b] \in Block
<1>1. [NoBlock EXCEPT !.buf = b] = [buf |-> b, from |-> 0, to |-> 0, err |-> "none"]
  BY DEF NoBlock
<1>2. QED BY <1>1 DEF Block, Errors



LEMMA PartLeft ==
  ASSUME NEW L \in Nat, NEW n \in Nat \ {0}, NEW b,
         b.from \in Nat, b.to \in Nat, b.from + n <= b.to, b.from + n # b.to
  PROVE  /\ b.from + n < b.to
         /\ L + n + (b.to - (b.from + n)) = L + (b.to - b.from)
OBVIOUS

(* What Read appends from a block continues the count.                     *)
LEMMA Continues ==
  ASSUME NEW L \in Nat, NEW from \in Nat, NEW to \in Nat, NEW n \in Nat, from + n <= to
  PROVE  Count(L) \o SubSeq(Data(L - from, to), from + 1, from + n) = Count(L + n)
BY DEF Count, Data

LEMMA CountPrefix ==
  ASSUME NEW n \in Nat, NEW m \in 0 .. n
  PROVE  Promise!IsPrefix(Count(m), Count(n)) /\ Len(Count(n)) = n
BY DEF Count, Promise!IsPrefix
-----------------------------------------------------------------------------
(* Where the buffers of one worker go.                                     *)
LEMMA OnceTaken ==
  ASSUME NEW w, NEW fr \in Seq(Buffers), NEW rd \in Seq(Block), NEW hd \in Block,
         Once(w, fr, rd, hd), fr # <<>>, NEW c
  PROVE  LET taken == [NoBlock EXCEPT !.buf = Head(fr)] IN
         /\ Once(w, Tail(fr), rd, taken)
         /\ Outside(c, fr, rd, hd) => Outside(c, Tail(fr), rd, taken)
<1> DEFINE taken == [NoBlock EXCEPT !.buf = Head(fr)]
<1>1. taken.buf = fr[1] BY DEF NoBlock
<1>2. Len(Tail(fr)) = Len(fr) - 1 /\ \A i \in 1 .. Len(Tail(fr)) : Tail(fr)[i] = fr[i + 1]
  OBVIOUS
<1>3. Len(fr) \in Nat \ {0}
  OBVIOUS
<1> HIDE DEF taken
<1>4. Once(w, Tail(fr), rd, taken)
  BY <1>1, <1>2, <1>3 DEF Once
<1>5. Outside(c, fr, rd, hd) => Outside(c, Tail(fr), rd, taken)
  BY <1>1, <1>2, <1>3 DEF Outside
<1>6. QED BY <1>4, <1>5 DEF taken

LEMMA OnceQueued ==
  ASSUME NEW w, NEW fr \in Seq(Buffers), NEW rd \in Seq(Block), NEW hd \in Block,
         Once(w, fr, rd, hd), NEW c,
         NEW b \in Block, NEW left \in Block,
         b.buf = hd.buf, left.buf = NoBuffer
  PROVE  /\ Once(w, fr, Append(rd, b), left)
         /\ c # NoBuffer /\ Outside(c, fr, rd, hd) => Outside(c, fr, Append(rd, b), left)
<1>1. /\ Len(Append(rd, b)) = Len(rd) + 1
      /\ Append(rd, b)[Len(rd) + 1] = b
      /\ \A i \in 1 .. Len(rd) : Append(rd, b)[i] = rd[i]
      /\ Len(rd) \in Nat
  OBVIOUS
<1>2. QED BY <1>1 DEF Once, Outside

LEMMA OnceError ==
  ASSUME NEW w, NEW fr \in Seq(Buffers), NEW rd \in Seq(Block), NEW hd \in Block,
         Once(w, fr, rd, hd), NEW c,
         NEW b \in Block, b.buf = NoBuffer
  PROVE  /\ Once(w, fr, Append(rd, b), hd)
         /\ c # NoBuffer /\ Outside(c, fr, rd, hd) => Outside(c, fr, Append(rd, b), hd)
<1>1. /\ Len(Append(rd, b)) = Len(rd) + 1
      /\ Append(rd, b)[Len(rd) + 1] = b
      /\ \A i \in 1 .. Len(rd) : Append(rd, b)[i] = rd[i]
      /\ Len(rd) \in Nat
  OBVIOUS
<1>2. QED BY <1>1 DEF Once, Outside

LEMMA OnceGivenBack ==
  ASSUME NEW w, NEW fr \in Seq(Buffers), NEW rd \in Seq(Block), NEW hd \in Block,
         Once(w, fr, rd, hd), NEW c \in Buffers, c[1] = w, Outside(c, fr, rd, hd)
  PROVE  Once(w, Append(fr, c), rd, hd)
<1>1. /\ Len(Append(fr, c)) = Len(fr) + 1
      /\ Append(fr, c)[Len(fr) + 1] = c
      /\ \A i \in 1 .. Len(fr) : Append(fr, c)[i] = fr[i]
      /\ Len(fr) \in Nat
  OBVIOUS
<1>2. QED BY <1>1 DEF Once, Outside

LEMMA OnceReceived ==
  ASSUME NEW w, NEW fr \in Seq(Buffers), NEW rd \in Seq(Block), NEW hd \in Block,
         Once(w, fr, rd, hd), rd # <<>>
  PROVE  /\ Once(w, fr, Tail(rd), hd)
         /\ Head(rd).buf # NoBuffer =>
              Head(rd).buf[1] = w /\ Outside(Head(rd).buf, fr, Tail(rd), hd)
<1>1. /\ Len(Tail(rd)) = Len(rd) - 1
      /\ \A i \in 1 .. Len(Tail(rd)) : Tail(rd)[i] = rd[i + 1]
      /\ Head(rd) = rd[1]
      /\ Len(rd) \in Nat \ {0}
  OBVIOUS
<1>2. QED BY <1>1 DEF Once, Outside

LEMMA OfAnother ==
  ASSUME NEW w, NEW fr \in Seq(Buffers), NEW rd \in Seq(Block), NEW hd \in Block,
         Once(w, fr, rd, hd), NEW c, c # NoBuffer, c[1] # w
  PROVE  Outside(c, fr, rd, hd)
BY DEF Once, Outside
-----------------------------------------------------------------------------
(* A worker's steps.  Nothing of another worker's changes but what the     *)
(* memory holds, and that only in a buffer of its own.                     *)
LEMMA TakeStep ==
  ASSUME NEW start, Reading(start), NEW w \in WorkerIds, Take(w)
  PROVE  Reading(start)'
<1> USE DEF Reading
<1>1. /\ free[w] \in Seq(Buffers) /\ free[w] # <<>>
      /\ Head(free[w]) \in Buffers /\ Tail(free[w]) \in Seq(Buffers)
      /\ [NoBlock EXCEPT !.buf = Head(free[w])] \in Block
  <2>1. free[w] \in Seq(Buffers) /\ free[w] # <<>>
    BY DEF Take, ReaderTypeOK
  <2>2. Head(free[w]) \in Buffers /\ Tail(free[w]) \in Seq(Buffers)
    BY <2>1
  <2>3. QED BY <2>1, <2>2, Empty
<1>2. ReaderTypeOK'
  BY <1>1 DEF Take, ReaderTypeOK, reading
<1>3. Exclusive'
  <2>1. ASSUME NEW v \in WorkerIds PROVE Once(v, free[v], ready[v], held[v])'
    <3>1. CASE v = w
      BY <3>1, <1>1, OnceTaken DEF Take, Exclusive, ReaderTypeOK
    <3>2. CASE v # w
      BY <3>2 DEF Take, Exclusive, ReaderTypeOK
    <3>3. QED BY <3>1, <3>2
  <2>2. ASSUME cur.buf # NoBuffer, NEW v \in WorkerIds
        PROVE  Outside(cur.buf, free[v], ready[v], held[v])'
    <3>1. CASE v = w
      BY <2>2, <3>1, <1>1, OnceTaken DEF Take, Exclusive, ReaderTypeOK, reading
    <3>2. CASE v # w
      BY <2>2, <3>2 DEF Take, Exclusive, ReaderTypeOK, reading
    <3>3. QED BY <3>1, <3>2
  <2>3. QED BY <2>1, <2>2 DEF Exclusive, Take, reading
<1>4. Ordered(start)'
  <2>1. Turns(start)' /\ Passing(start)'
    BY DEF Ordered, Turns, Passing, Take, reading
  <2>2. \A v \in WorkerIds : \A i \in 1 .. Len(ready'[v]) : Sent(ready[v][i], At(start[v], i))'
    BY DEF Ordered, Sent, Holds, Take
  <2>3. ASSUME NEW v \in WorkerIds PROVE Working(v, At(start[v], Len(ready[v]) + 1))'
    <3>1. Working(v, At(start[v], Len(ready[v]) + 1))
      BY DEF Ordered
    <3>2. CASE v = w
      BY <3>1, <3>2, <1>1 DEF Working, Take, ReaderTypeOK, NoBlock
    <3>3. CASE v # w
      BY <3>1, <3>3 DEF Working, Holds, Take, ReaderTypeOK
    <3>4. QED BY <3>2, <3>3
  <2>4. QED BY <2>1, <2>2, <2>3 DEF Ordered, Take
<1>5. QED BY <1>2, <1>3, <1>4

LEMMA EndsStep ==
  ASSUME NEW start, Reading(start), NEW w \in WorkerIds, Ends(w)
  PROVE  Reading(start)'
<1> USE DEF Reading
<1>1. ReaderTypeOK'
  BY DEF Ends, Return, ReaderTypeOK, reading
<1>2. Exclusive'
  BY DEF Ends, Exclusive, reading
<1>3. Ordered(start)'
  <2>1. Turns(start)' /\ Passing(start)'
    BY DEF Ordered, Turns, Passing, Ends, reading
  <2>2. \A v \in WorkerIds : \A i \in 1 .. Len(ready'[v]) : Sent(ready[v][i], At(start[v], i))'
    BY DEF Ordered, Sent, Holds, Ends
  <2>3. ASSUME NEW v \in WorkerIds PROVE Working(v, At(start[v], Len(ready[v]) + 1))'
    <3>1. Working(v, At(start[v], Len(ready[v]) + 1))
      BY DEF Ordered
    <3>2. CASE v = w
      <4>1. off[w] = At(start[w], Len(ready[w]) + 1) /\ off[w] >= FileSize
        BY <3>1, <3>2, ReaderAssumption DEF Working, Ends, More, ReaderTypeOK
      <4>2. QED BY <4>1, <3>2 DEF Working, Ends, Return, ReaderTypeOK
    <3>3. CASE v # w
      BY <3>1, <3>3 DEF Working, Holds, Ends, Return, ReaderTypeOK
    <3>4. QED BY <3>2, <3>3
  <2>4. QED BY <2>1, <2>2, <2>3 DEF Ordered, Ends
<1>4. QED BY <1>1, <1>2, <1>3

LEMMA ReadBlockStep ==
  ASSUME NEW start, Reading(start), NEW w \in WorkerIds, ReadBlock(w), Failing \subseteq {0}
  PROVE  Reading(start)'
<1> USE DEF Reading
<1>p. PICK p : p = At(start[w], Len(ready[w]) + 1)
  OBVIOUS
<1>0. /\ pc[w] = "read"
      /\ UNCHANGED <<off, ready, closed, free, next, cur, err, out, stopped>>
  BY DEF ReadBlock, reading
<1>1. /\ off[w] = p /\ p \in Nat
      /\ held[w] \in Block /\ held[w].buf \in Buffers /\ held[w].from = 0
      /\ Working(w, p)
  BY <1>p DEF Ordered, Working, ReadBlock, ReaderTypeOK
<1>2. PICK n \in 0 .. BlockSize, e \in {"none", "EOF", "failed"} :
        /\ Reads(w, n, e)
        /\ memory' = [memory EXCEPT ![held[w].buf] = Data(p, n)]
        /\ held' = [held EXCEPT ![w].to = n, ![w].err = e]
        /\ pc' = [pc EXCEPT ![w] = IF n > 0 THEN "block" ELSE "error"]
  BY <1>1 DEF ReadBlock, Data
<1>3. /\ n > 0 => n = Avail(p) /\ e \in {"none", "EOF"} /\ (e = "EOF" => p + BlockSize >= FileSize)
      /\ n = 0 => e \in {"EOF", "failed"} /\ (e = "EOF" => p >= FileSize)
  <2>1. Available(w) = Avail(p)
    BY <1>1 DEF Available, Avail
  <2>2. QED BY <2>1, <1>2, <1>1, AvailFacts, ReaderAssumption DEF Reads
<1>4. Data(p, n) \in Seq(Nat)
  BY <1>1 DEF Data
<1>5. /\ held'[w] \in Block
      /\ held'[w].buf = held[w].buf /\ held'[w].from = 0 /\ held'[w].to = n /\ held'[w].err = e
      /\ \A v \in WorkerIds : v # w => held'[v] = held[v]
      /\ \A v \in WorkerIds : held'[v].buf = held[v].buf
  <2> DEFINE filled == [held[w] EXCEPT !.to = n, !.err = e]
  <2>1. held' = [held EXCEPT ![w] = filled]
    BY <1>2 DEF ReaderTypeOK
  <2>2. n \in Nat /\ e \in Errors
    BY <1>2, ReaderAssumption DEF Errors
  <2>3. filled \in Block
    BY <1>1, <2>2 DEF Block
  <2>4. filled.buf = held[w].buf /\ filled.from = 0 /\ filled.to = n /\ filled.err = e
    BY <1>1 DEF Block
  <2> HIDE DEF filled
  <2>5. QED BY <2>1, <2>3, <2>4 DEF ReaderTypeOK
<1>6. ReaderTypeOK'
  BY <1>0, <1>2, <1>4, <1>5 DEF ReaderTypeOK
<1>7. Exclusive'
  BY <1>0, <1>5 DEF Exclusive, Once, Outside
<1>8. \A b \in Buffers : b # held[w].buf => memory'[b] = memory[b]
  BY <1>2 DEF ReaderTypeOK
<1>9. Ordered(start)'
  <2>1. Turns(start)'
    BY DEF Ordered, Turns, ReadBlock, reading
  <2>2. Passing(start)'
    <3>1. cur.buf \in Buffers => memory'[cur.buf] = memory[cur.buf]
      BY <1>8, <1>1, Owners DEF Exclusive, Outside
    <3>2. QED BY <3>1 DEF Ordered, Passing, ReadBlock, reading
  <2>3. ASSUME NEW v \in WorkerIds, NEW i \in 1 .. Len(ready'[v])
        PROVE  Sent(ready[v][i], At(start[v], i))'
    <3>1. ready' = ready /\ Sent(ready[v][i], At(start[v], i))
      BY DEF Ordered, ReadBlock
    <3>2. ready[v][i].buf \in Buffers => ready[v][i].buf # held[w].buf
      BY <1>1, <3>1, Owners DEF Exclusive, Once
    <3>3. QED BY <3>1, <3>2, <1>8 DEF Sent, Holds
  <2>4. ASSUME NEW v \in WorkerIds PROVE Working(v, At(start[v], Len(ready[v]) + 1))'
    <3>1. Working(v, At(start[v], Len(ready[v]) + 1))
      BY DEF Ordered
    <3>2. CASE v = w
      <4>1. memory'[held[w].buf] = Data(p, n)
        BY <1>1, <1>2 DEF ReaderTypeOK
      <4>2. At(start[w], Len(ready[w]) + 1)' = p
        BY <1>0, <1>p
      <4>3. Working(w, p)'
        <5>1. pc'[w] = IF n > 0 THEN "block" ELSE "error"
          BY <1>2 DEF ReaderTypeOK
        <5>2. off'[w] = p /\ ready' = ready /\ ~closed'[w]
          BY <1>0, <1>1 DEF Working
        <5>3. CASE n > 0
          BY <1>1, <1>3, <1>5, <4>1, <5>1, <5>2, <5>3 DEF Working, Holds
        <5>4. CASE n = 0
          BY <1>1, <1>3, <1>5, <5>1, <5>2, <5>4 DEF Working
        <5>5. QED BY <5>3, <5>4, ReaderAssumption
      <4>4. QED BY <3>2, <4>2, <4>3
    <3>3. CASE v # w
      <4>1. held[v].buf \in Buffers => held[v].buf # held[w].buf
        BY <1>1, <3>3, Owners DEF Exclusive, Once
      <4>2. QED BY <3>1, <3>3, <4>1, <1>2, <1>5, <1>8 DEF Working, Holds, ReadBlock, ReaderTypeOK
    <3>4. QED BY <3>2, <3>3
  <2>5. QED BY <2>1, <2>2, <2>3, <2>4 DEF Ordered
<1>10. QED BY <1>6, <1>7, <1>9

LEMMA SendBlockStep ==
  ASSUME NEW start, Reading(start), NEW w \in WorkerIds, SendBlock(w)
  PROVE  Reading(start)'
<1> USE DEF Reading
<1>p. PICK p : p = At(start[w], Len(ready[w]) + 1)
  OBVIOUS
<1>b. PICK b : b = [held[w] EXCEPT !.err = "none"]
  OBVIOUS
<1>l. PICK left : left = [held[w] EXCEPT !.buf = NoBuffer, !.to = 0]
  OBVIOUS
<1>0. /\ pc[w] = "block"
      /\ ready' = [ready EXCEPT ![w] = Append(@, b)]
      /\ held' = [held EXCEPT ![w] = left]
      /\ UNCHANGED <<closed, free, memory, next, cur, err, out, stopped>>
  BY <1>b, <1>l DEF SendBlock, reading, ReaderTypeOK
<1>1. held[w] \in Block /\ start[w] \in Nat /\ Working(w, p) /\ off[w] = p /\ Holds(held[w], p)
  BY <1>0, <1>p DEF Ordered, Working, ReaderTypeOK
<1>2. p \in Nat /\ At(start[w], Len(ready[w]) + 2) = p + Stride
  <2>1. ready[w] \in Seq(Block)
    BY DEF ReaderTypeOK
  <2>2. Len(ready[w]) + 1 \in Nat \ {0} /\ Len(ready[w]) + 1 + 1 = Len(ready[w]) + 2
    BY <2>1
  <2>3. QED BY <1>1, <1>p, <2>2, AtFacts
<1>3. b \in Block /\ b.buf = held[w].buf /\ b.from = held[w].from /\ b.to = held[w].to /\ b.err = "none"
  BY <1>b, <1>1 DEF Block, Errors
<1>4. left \in Block /\ left.buf = NoBuffer /\ left.err = held[w].err
  BY <1>l, <1>1 DEF Block
<1>5. /\ pc' = [pc EXCEPT ![w] = IF held[w].err = "none" THEN "take" ELSE "error"]
      /\ off' = [off EXCEPT ![w] = IF held[w].err = "none" THEN p + Stride ELSE p]
  BY <1>1 DEF SendBlock, Stride
<1>6. /\ ready'[w] = Append(ready[w], b) /\ held'[w] = left
      /\ \A v \in WorkerIds : v # w =>
           /\ ready'[v] = ready[v] /\ held'[v] = held[v] /\ off'[v] = off[v] /\ pc'[v] = pc[v]
  BY <1>0, <1>5 DEF ReaderTypeOK
<1>7. ReaderTypeOK'
  <2>1. Append(ready[w], b) \in Seq(Block)
    BY <1>3 DEF ReaderTypeOK
  <2>2. p + Stride \in Nat
    BY <1>2, StrideType
  <2>3. QED BY <1>0, <1>2, <1>4, <1>5, <2>1, <2>2 DEF ReaderTypeOK
<1>8. Exclusive'
  <2>1. ASSUME NEW v \in WorkerIds PROVE Once(v, free[v], ready[v], held[v])'
    <3>1. CASE v = w
      BY <3>1, <1>0, <1>1, <1>3, <1>4, <1>6, OnceQueued DEF Exclusive, ReaderTypeOK
    <3>2. CASE v # w
      BY <3>2, <1>0, <1>6 DEF Exclusive
    <3>3. QED BY <3>1, <3>2
  <2>2. ASSUME cur.buf # NoBuffer, NEW v \in WorkerIds
        PROVE  Outside(cur.buf, free[v], ready[v], held[v])'
    <3>1. CASE v = w
      BY <2>2, <3>1, <1>0, <1>1, <1>3, <1>4, <1>6, OnceQueued DEF Exclusive, ReaderTypeOK
    <3>2. CASE v # w
      BY <2>2, <3>2, <1>0, <1>6 DEF Exclusive
    <3>3. QED BY <3>1, <3>2
  <2>3. QED BY <2>1, <2>2, <1>0 DEF Exclusive
<1>9. Ordered(start)'
  <2>1. Turns(start)' /\ Passing(start)'
    BY <1>0 DEF Ordered, Turns, Passing
  <2>2. ASSUME NEW v \in WorkerIds, NEW i \in 1 .. Len(ready'[v])
        PROVE  Sent(ready[v][i], At(start[v], i))'
    <3>1. CASE v = w /\ i = Len(ready[w]) + 1
      <4>1. ready'[v][i] = b /\ At(start[v], i) = p
        BY <3>1, <1>6, <1>3, <1>p DEF ReaderTypeOK
      <4>2. Holds(b, p)
        BY <1>1, <1>3 DEF Holds
      <4>3. QED BY <4>1, <4>2, <1>0, <1>3 DEF Sent, Holds
    <3>2. CASE v # w \/ i # Len(ready[w]) + 1
      <4>1. i \in 1 .. Len(ready[v]) /\ ready'[v][i] = ready[v][i]
        BY <3>2, <1>6, <1>3 DEF ReaderTypeOK
      <4>2. Sent(ready[v][i], At(start[v], i))
        BY <4>1 DEF Ordered
      <4>3. QED BY <4>1, <4>2, <1>0 DEF Sent, Holds
    <3>3. QED BY <3>1, <3>2
  <2>3. ASSUME NEW v \in WorkerIds PROVE Working(v, At(start[v], Len(ready[v]) + 1))'
    <3>1. CASE v = w
      <4>1. At(start[w], Len(ready[w]) + 1)' = p + Stride
        BY <1>6, <1>2, <1>3 DEF ReaderTypeOK
      <4>2. PICK q : q = p + Stride
        OBVIOUS
      <4>3. ~closed'[w]
        BY <1>0, <1>1 DEF Working
      <4>4. CASE held[w].err = "none"
        <5>1. pc'[w] = "take" /\ off'[w] = q
          BY <4>2, <4>4, <1>5 DEF ReaderTypeOK
        <5>2. Working(w, q)'
          BY <5>1, <4>3 DEF Working
        <5>3. QED BY <3>1, <4>1, <4>2, <5>2
      <4>5. CASE held[w].err # "none"
        <5>1. pc'[w] = "error" /\ held'[w].err = "EOF" /\ q >= FileSize
          <6>1. held[w].err = "EOF" /\ p + BlockSize >= FileSize
            BY <4>5, <1>0, <1>1 DEF Working
          <6>2. pc'[w] = "error"
            BY <4>5, <1>5 DEF ReaderTypeOK
          <6>3. q >= FileSize
            BY <6>1, <4>2, <1>2, StrideType, ReaderAssumption
          <6>4. QED BY <6>1, <6>2, <6>3, <1>4, <1>6
        <5>2. Working(w, q)'
          BY <5>1, <4>3 DEF Working
        <5>3. QED BY <3>1, <4>1, <4>2, <5>2
      <4>6. QED BY <4>4, <4>5
    <3>2. CASE v # w
      <4>1. Working(v, At(start[v], Len(ready[v]) + 1))
        BY DEF Ordered
      <4>2. QED BY <3>2, <4>1, <1>0, <1>6 DEF Working, Holds
    <3>3. QED BY <3>1, <3>2
  <2>4. QED BY <2>1, <2>2, <2>3 DEF Ordered
<1>10. QED BY <1>7, <1>8, <1>9

LEMMA SendErrorStep ==
  ASSUME NEW start, Reading(start), NEW w \in WorkerIds, SendError(w)
  PROVE  Reading(start)'
<1> USE DEF Reading
<1>p. PICK p : p = At(start[w], Len(ready[w]) + 1)
  OBVIOUS
<1>b. PICK b : b = [NoBlock EXCEPT !.err = held[w].err]
  OBVIOUS
<1>0. /\ pc[w] = "error"
      /\ ready' = [ready EXCEPT ![w] = Append(@, b)]
      /\ pc' = [pc EXCEPT ![w] = "done"]
      /\ closed' = [closed EXCEPT ![w] = TRUE]
      /\ UNCHANGED <<off, held, free, memory, next, cur, err, out, stopped>>
  BY <1>b DEF SendError, Return, reading, ReaderTypeOK
<1>1. held[w] \in Block /\ Working(w, p)
  BY <1>p DEF Ordered, ReaderTypeOK
<1>2. b \in Block /\ b.buf = NoBuffer /\ b.err = held[w].err
  BY <1>b, <1>1, Owners DEF Block
<1>3. /\ ready'[w] = Append(ready[w], b) /\ pc'[w] = "done"
      /\ \A v \in WorkerIds : v # w =>
           ready'[v] = ready[v] /\ pc'[v] = pc[v] /\ closed'[v] = closed[v]
  BY <1>0 DEF ReaderTypeOK
<1>4. /\ ready[w] \in Seq(Block) /\ Len(ready[w]) \in Nat
      /\ Len(ready'[w]) = Len(ready[w]) + 1 /\ ready'[w][Len(ready[w]) + 1] = b
      /\ \A i \in 1 .. Len(ready[w]) : ready'[w][i] = ready[w][i]
  BY <1>2, <1>3 DEF ReaderTypeOK
<1>5. ReaderTypeOK'
  <2>1. Append(ready[w], b) \in Seq(Block)
    BY <1>2 DEF ReaderTypeOK
  <2>2. QED BY <1>0, <2>1 DEF ReaderTypeOK
<1>6. Exclusive'
  <2>1. ASSUME NEW v \in WorkerIds PROVE Once(v, free[v], ready[v], held[v])'
    <3>1. CASE v = w
      BY <3>1, <1>0, <1>2, <1>3, OnceError DEF Exclusive, ReaderTypeOK
    <3>2. CASE v # w
      BY <3>2, <1>0, <1>3 DEF Exclusive
    <3>3. QED BY <3>1, <3>2
  <2>2. ASSUME cur.buf # NoBuffer, NEW v \in WorkerIds
        PROVE  Outside(cur.buf, free[v], ready[v], held[v])'
    <3>1. CASE v = w
      BY <2>2, <3>1, <1>0, <1>2, <1>3, OnceError DEF Exclusive, ReaderTypeOK
    <3>2. CASE v # w
      BY <2>2, <3>2, <1>0, <1>3 DEF Exclusive
    <3>3. QED BY <3>1, <3>2
  <2>3. QED BY <2>1, <2>2, <1>0 DEF Exclusive
<1>7. Ordered(start)'
  <2>1. Turns(start)' /\ Passing(start)'
    BY <1>0 DEF Ordered, Turns, Passing
  <2>2. ASSUME NEW v \in WorkerIds, NEW i \in 1 .. Len(ready'[v])
        PROVE  Sent(ready[v][i], At(start[v], i))'
    <3>1. CASE v = w /\ i = Len(ready[w]) + 1
      BY <3>1, <1>0, <1>1, <1>2, <1>4, <1>p DEF Sent, Working
    <3>2. CASE v # w \/ i # Len(ready[w]) + 1
      <4>1. i \in 1 .. Len(ready[v]) /\ ready'[v][i] = ready[v][i]
        BY <3>2, <1>3, <1>4
      <4>2. Sent(ready[v][i], At(start[v], i))
        BY <4>1 DEF Ordered
      <4>3. QED BY <4>1, <4>2, <1>0 DEF Sent, Holds
    <3>3. QED BY <3>1, <3>2
  <2>3. ASSUME NEW v \in WorkerIds PROVE Working(v, At(start[v], Len(ready[v]) + 1))'
    <3>1. CASE v = w
      <4>1. pc'[w] = "done" /\ Len(ready'[w]) > 0 /\ ready'[w][Len(ready'[w])].err # "none"
        BY <1>0, <1>1, <1>2, <1>3, <1>4 DEF Working
      <4>2. QED BY <3>1, <4>1 DEF Working
    <3>2. CASE v # w
      <4>1. Working(v, At(start[v], Len(ready[v]) + 1))
        BY DEF Ordered
      <4>2. QED BY <3>2, <4>1, <1>0, <1>3 DEF Working, Holds
    <3>3. QED BY <3>1, <3>2
  <2>4. QED BY <2>1, <2>2, <2>3, <1>0 DEF Ordered
<1>8. QED BY <1>5, <1>6, <1>7
-----------------------------------------------------------------------------
(* The consumer's steps.  rd is what is queued once block b was received.  *)
LEMMA Delivers ==
  ASSUME ReaderTypeOK,
         NEW b \in Block, NEW k \in Asks, NEW rd \in [WorkerIds -> Seq(Block)], NEW L \in Nat,
         Deliver(b, k),
         b.buf \in Buffers, b.from < b.to, b.err = "none",
         out = Count(L), memory[b.buf] = Data(L - b.from, b.to),
         \A w \in WorkerIds : /\ Once(w, free[w], rd[w], held[w])
                              /\ Outside(b.buf, free[w], rd[w], held[w])
  PROVE  /\ cur' \in Block /\ out' \in Seq(Nat) /\ free' \in [WorkerIds -> Seq(Buffers)]
         /\ out' = Count(Len(out')) /\ L <= Len(out')
         /\ Len(out') + (cur'.to - cur'.from) = L + (b.to - b.from)
         /\ \/ cur' = NoBlock
            \/ /\ cur'.from < cur'.to /\ cur'.err = "none" /\ cur'.buf \in Buffers
               /\ memory[cur'.buf] = Data(Len(out') - cur'.from, cur'.to)
         /\ \A w \in WorkerIds : Once(w, free'[w], rd[w], held[w])
         /\ cur'.buf # NoBuffer =>
              \A w \in WorkerIds : Outside(cur'.buf, free'[w], rd[w], held[w])
<1>1. PICK n \in Nat \ {0} : n = Least(k, b.to - b.from) /\ b.from + n <= b.to
  <2>1. b.from \in Nat /\ b.to \in Nat
    BY DEF Block
  <2>2. k \in Nat \ {0}
    BY ReaderAssumption
  <2>3. QED BY <2>1, <2>2 DEF Least
<1>2. PICK w : w = b.buf[1]
  OBVIOUS
<1>3. /\ b.from \in Nat /\ b.to \in Nat /\ n \in Nat \ {0} /\ b.from + n <= b.to
      /\ w \in WorkerIds
  <2>1. b.from \in Nat /\ b.to \in Nat
    BY DEF Block
  <2>2. w \in WorkerIds
    BY <1>2, Owners
  <2>3. QED BY <2>1, <2>2, <1>1
<1>4. out' = Count(L + n)
  <2>1. out' = out \o SubSeq(memory[b.buf], b.from + 1, b.from + n)
    BY <1>1 DEF Deliver
  <2>2. Count(L) \o SubSeq(Data(L - b.from, b.to), b.from + 1, b.from + n) = Count(L + n)
    BY <1>3, Continues
  <2>3. QED BY <2>1, <2>2
<1>5. /\ out' = Count(Len(out')) /\ Len(out') = L + n
      /\ L <= Len(out') /\ out' \in Seq(Nat)
  <2>1. PICK m : m = L + n
    OBVIOUS
  <2>2. m \in Nat /\ L <= m
    BY <2>1, <1>3
  <2>3. Len(Count(m)) = m /\ Count(m) \in Seq(Nat)
    BY <2>2 DEF Count
  <2>4. QED BY <2>1, <2>2, <2>3, <1>4
<1>6. CASE b.from + n = b.to
  <2>1. /\ cur' = NoBlock
        /\ free' = IF Len(free[w]) <= Depth THEN [free EXCEPT ![w] = Append(@, b.buf)] ELSE free
    BY <1>6, <1>1, <1>2 DEF Deliver
  <2>2. Append(free[w], b.buf) \in Seq(Buffers)
    BY <1>3 DEF ReaderTypeOK
  <2>3. free' \in [WorkerIds -> Seq(Buffers)]
    BY <2>1, <2>2 DEF ReaderTypeOK
  <2>4. ASSUME NEW v \in WorkerIds PROVE Once(v, free'[v], rd[v], held[v])
    <3>1. CASE free'[v] = free[v]
      BY <3>1
    <3>2. CASE free'[v] # free[v]
      <4>1. v = w /\ free'[v] = Append(free[w], b.buf)
        BY <3>2, <2>1, <1>3 DEF ReaderTypeOK
      <4>2. QED BY <4>1, <1>2, <1>3, OnceGivenBack DEF ReaderTypeOK
    <3>3. QED BY <3>1, <3>2
  <2>5. cur' \in Block /\ cur'.from = 0 /\ cur'.to = 0 /\ cur'.buf = NoBuffer
    BY <2>1, Owners
  <2>6. Len(out') + (cur'.to - cur'.from) = L + (b.to - b.from)
    BY <2>5, <1>3, <1>5, <1>6
  <2>7. QED BY <2>1, <2>3, <2>4, <2>5, <2>6, <1>5
<1>7. CASE b.from + n # b.to
  <2>1. cur' = [b EXCEPT !.from = b.from + n] /\ free' = free
    BY <1>7, <1>1 DEF Deliver
  <2>2. /\ cur' \in Block /\ cur'.from = b.from + n /\ cur'.to = b.to
        /\ cur'.err = b.err /\ cur'.buf = b.buf
    <3>1. PICK m : m = b.from + n
      OBVIOUS
    <3>2. m \in Nat /\ cur' = [b EXCEPT !.from = m]
      BY <2>1, <3>1, <1>3
    <3>3. QED BY <3>1, <3>2 DEF Block
  <2>3. Len(out') - cur'.from = L - b.from
    BY <2>2, <1>3, <1>5
  <2>4. /\ cur'.from < cur'.to
        /\ Len(out') + (cur'.to - cur'.from) = L + (b.to - b.from)
    <3>1. PICK m : m = Len(out')
      OBVIOUS
    <3>2. m = L + n /\ cur'.from = b.from + n /\ cur'.to = b.to
      BY <3>1, <2>2, <1>5
    <3>3. /\ b.from + n < b.to
          /\ L + n + (b.to - (b.from + n)) = L + (b.to - b.from)
      BY <1>3, <1>7, PartLeft
    <3>4. QED BY <3>1, <3>2, <3>3
  <2>5. memory[cur'.buf] = Data(Len(out') - cur'.from, cur'.to)
    BY <2>2, <2>3
  <2>6. free' \in [WorkerIds -> Seq(Buffers)]
    BY <2>1 DEF ReaderTypeOK
  <2>7. /\ \A v \in WorkerIds : Once(v, free'[v], rd[v], held[v])
        /\ \A v \in WorkerIds : Outside(cur'.buf, free'[v], rd[v], held[v])
    BY <2>1, <2>2
  <2>8. QED BY <2>2, <2>4, <2>5, <2>6, <2>7, <1>5
<1>8. QED BY <1>6, <1>7

LEMMA ReadRestStep ==
  ASSUME NEW start, Reading(start), NEW k \in Asks, ReadRest(k)
  PROVE  Reading(start)' /\ Len(out) <= Len(out')
<1> USE DEF Reading
<1>0. /\ Deliver(cur, k) /\ cur.from < cur.to
      /\ UNCHANGED <<pc, off, held, ready, closed, memory, next>>
  BY DEF ReadRest
<1>1. /\ out = Count(Len(out))
      /\ Len(out) + (cur.to - cur.from) = Least(start[next], FileSize)
      /\ cur.err = "none" /\ cur.buf \in Buffers /\ cur \in Block
      /\ memory[cur.buf] = Data(Len(out) - cur.from, cur.to)
  BY <1>0, Owners DEF Ordered, Passing, ReaderTypeOK
<1>2. \A w \in WorkerIds : /\ Once(w, free[w], ready[w], held[w])
                           /\ Outside(cur.buf, free[w], ready[w], held[w])
  BY <1>1, Owners DEF Exclusive
<1>3. ready \in [WorkerIds -> Seq(Block)]
  BY DEF ReaderTypeOK
<1>4. /\ cur' \in Block /\ out' \in Seq(Nat) /\ free' \in [WorkerIds -> Seq(Buffers)]
      /\ out' = Count(Len(out')) /\ Len(out) <= Len(out')
      /\ Len(out') + (cur'.to - cur'.from) = Len(out) + (cur.to - cur.from)
      /\ \/ cur' = NoBlock
         \/ /\ cur'.from < cur'.to /\ cur'.err = "none" /\ cur'.buf \in Buffers
            /\ memory[cur'.buf] = Data(Len(out') - cur'.from, cur'.to)
      /\ \A w \in WorkerIds : Once(w, free'[w], ready[w], held[w])
      /\ cur'.buf # NoBuffer =>
           \A w \in WorkerIds : Outside(cur'.buf, free'[w], ready[w], held[w])
  <2>1. PICK L : L = Len(out)
    OBVIOUS
  <2>2. L \in Nat /\ out = Count(L) /\ memory[cur.buf] = Data(L - cur.from, cur.to)
    BY <2>1, <1>1 DEF ReaderTypeOK
  <2>3. QED BY <2>1, <2>2, <1>0, <1>1, <1>2, <1>3, Delivers
<1>5. ReaderTypeOK'
  BY <1>0, <1>4 DEF ReaderTypeOK
<1>6. Exclusive'
  BY <1>0, <1>4 DEF Exclusive
<1>7. Ordered(start)'
  <2>1. Turns(start)'
    BY <1>0 DEF Ordered, Turns
  <2>2. Passing(start)'
    BY <1>0, <1>1, <1>4 DEF Passing
  <2>3. \A v \in WorkerIds : \A i \in 1 .. Len(ready'[v]) : Sent(ready[v][i], At(start[v], i))'
    BY <1>0 DEF Ordered, Sent, Holds
  <2>4. \A v \in WorkerIds : Working(v, At(start[v], Len(ready[v]) + 1))'
    BY <1>0 DEF Ordered, Working, Holds
  <2>5. QED BY <2>1, <2>2, <2>3, <2>4 DEF Ordered
<1>8. QED BY <1>4, <1>5, <1>6, <1>7

LEMMA TurnsGoOn ==
  ASSUME NEW start \in [WorkerIds -> Nat], next \in WorkerIds, Turns(start), next' = Succ(next),
         NEW later, later = [start EXCEPT ![next] = @ + Stride]
  PROVE  /\ later \in [WorkerIds -> Nat]
         /\ Turns(later)'
         /\ later[next'] = start[next] + BlockSize
<1>1. /\ Stride \in Nat /\ BlockSize \in Nat
      /\ \A w \in WorkerIds : start[w] \in Nat /\ Succ(w) \in WorkerIds
  BY StrideType, NextTurn, ReaderAssumption
<1>2. /\ later[next] = start[next] + Stride
      /\ \A w \in WorkerIds : w # next => later[w] = start[w]
      /\ later \in [WorkerIds -> Nat]
  BY <1>1
<1>3. \A w \in WorkerIds : Succ(w) = Succ(next) => w = next
  BY ReaderAssumption DEF Succ, WorkerIds
<1>4. later[Succ(next)] = start[next] + BlockSize
  <2>1. CASE Succ(next) = next
    BY <2>1, <1>1, <1>2 DEF Turns
  <2>2. CASE Succ(next) # next
    BY <2>2, <1>1, <1>2 DEF Turns
  <2>3. QED BY <2>1, <2>2
<1>5. ASSUME NEW w \in WorkerIds
      PROVE  later[Succ(w)] = IF Succ(w) = Succ(next) THEN later[w] + BlockSize - Stride
                                                      ELSE later[w] + BlockSize
  <2>1. CASE w = next
    BY <2>1, <1>1, <1>2, <1>4
  <2>2. CASE w # next /\ Succ(w) = next
    <3>1. start[next] = start[w] + BlockSize - Stride
      BY <2>2 DEF Turns
    <3>2. later[Succ(w)] = later[w] + BlockSize
      BY <3>1, <2>2, <1>1, <1>2
    <3>3. QED BY <3>2, <2>2, <1>3
  <2>3. CASE w # next /\ Succ(w) # next
    <3>1. start[Succ(w)] = start[w] + BlockSize
      BY <2>3 DEF Turns
    <3>2. QED BY <3>1, <2>3, <1>1, <1>2, <1>3
  <2>4. QED BY <2>1, <2>2, <2>3
<1>6. QED BY <1>2, <1>4, <1>5 DEF Turns

LEMMA ReadNextStep ==
  ASSUME NEW start, Reading(start), NEW k \in Asks, ReadNext(k), Head(ready[next]).err = "none"
  PROVE  (\E later : Reading(later)') /\ Len(out) <= Len(out')
<1> USE DEF Reading
<1>b. PICK b : b = Head(ready[next])
  OBVIOUS
<1>r. PICK rd : rd = [ready EXCEPT ![next] = Tail(@)]
  OBVIOUS
<1>s. PICK later : later = [start EXCEPT ![next] = @ + Stride]
  OBVIOUS
<1>0. /\ cur = NoBlock /\ ready[next] # <<>> /\ b.err = "none"
      /\ ready' = rd /\ Deliver(b, k) /\ next' = (next + 1) % Workers
      /\ UNCHANGED <<pc, off, held, closed, memory>>
  BY <1>b, <1>r DEF ReadNext, Advance
<1>1. /\ next \in WorkerIds /\ start \in [WorkerIds -> Nat] /\ ready[next] \in Seq(Block)
      /\ start[next] \in Nat
  BY DEF Ordered, ReaderTypeOK
<1>2. /\ Len(ready[next]) \in Nat \ {0} /\ b = ready[next][1] /\ b \in Block
      /\ Tail(ready[next]) \in Seq(Block) /\ Len(Tail(ready[next])) = Len(ready[next]) - 1
      /\ \A i \in 1 .. Len(Tail(ready[next])) : Tail(ready[next])[i] = ready[next][i + 1]
  BY <1>0, <1>1, <1>b
<1>3. /\ rd \in [WorkerIds -> Seq(Block)] /\ rd[next] = Tail(ready[next])
      /\ \A w \in WorkerIds : w # next => rd[w] = ready[w]
  BY <1>1, <1>2, <1>r DEF ReaderTypeOK
<1>4. next' = Succ(next) /\ next' \in WorkerIds
  BY <1>0, <1>1, NextTurn
<1>5. /\ later \in [WorkerIds -> Nat] /\ Turns(later)'
      /\ later[next'] = start[next] + BlockSize
  BY <1>1, <1>4, <1>s, TurnsGoOn DEF Ordered
<1>6. Holds(b, start[next])
  <2>1. Sent(ready[next][1], At(start[next], 1))
    BY <1>1, <1>2 DEF Ordered
  <2>2. At(start[next], 1) = start[next]
    BY <1>1, AtFacts
  <2>3. QED BY <2>1, <2>2, <1>0, <1>2 DEF Sent
<1>7. PICK L \in Nat : /\ L = Len(out) /\ out = Count(L)
                       /\ L = Least(start[next], FileSize)
                       /\ L = start[next]
  <2>1. /\ Len(out) \in Nat /\ out = Count(Len(out))
        /\ Len(out) + (cur.to - cur.from) = Least(start[next], FileSize)
    BY DEF Ordered, Passing, ReaderTypeOK
  <2>2. cur.to - cur.from = 0
    BY <1>0, Owners
  <2>3. start[next] < FileSize
    BY <1>6, <1>1, AvailFacts, ReaderAssumption DEF Holds
  <2>4. Least(start[next], FileSize) = start[next]
    BY <2>3 DEF Least
  <2>5. QED BY <2>1, <2>2, <2>4
<1>8. /\ b.buf \in Buffers /\ b.from = 0 /\ b.from < b.to /\ b.to = Avail(start[next])
      /\ memory[b.buf] = Data(L - b.from, b.to)
  <2>1. b.to \in Nat /\ L - 0 = L
    BY <1>2, <1>7 DEF Block
  <2>2. QED BY <2>1, <1>6, <1>7 DEF Holds
<1>9. \A w \in WorkerIds : /\ Once(w, free[w], rd[w], held[w])
                           /\ Outside(b.buf, free[w], rd[w], held[w])
  <2>1. /\ \A w \in WorkerIds : Once(w, free[w], ready[w], held[w])
        /\ free \in [WorkerIds -> Seq(Buffers)] /\ held \in [WorkerIds -> Block]
        /\ ready \in [WorkerIds -> Seq(Block)] /\ b.buf # NoBuffer
    BY <1>8, Owners DEF Exclusive, ReaderTypeOK
  <2>2. /\ Once(next, free[next], rd[next], held[next])
        /\ b.buf[1] = next /\ Outside(b.buf, free[next], rd[next], held[next])
    <3>1. /\ Once(next, free[next], ready[next], held[next])
          /\ free[next] \in Seq(Buffers) /\ held[next] \in Block
          /\ ready[next] \in Seq(Block) /\ ready[next] # <<>>
      BY <2>1, <1>0, <1>1
    <3>2. /\ Once(next, free[next], Tail(ready[next]), held[next])
          /\ b.buf # NoBuffer =>
               b.buf[1] = next /\ Outside(b.buf, free[next], Tail(ready[next]), held[next])
      BY <3>1, <1>b, OnceReceived
    <3>3. QED BY <3>2, <2>1, <1>3
  <2>3. ASSUME NEW w \in WorkerIds, w # next
        PROVE  /\ Once(w, free[w], rd[w], held[w])
               /\ Outside(b.buf, free[w], rd[w], held[w])
    BY <2>1, <2>2, <2>3, <1>3, OfAnother
  <2>4. QED BY <2>2, <2>3
<1>10. /\ cur' \in Block /\ out' \in Seq(Nat) /\ free' \in [WorkerIds -> Seq(Buffers)]
       /\ out' = Count(Len(out')) /\ L <= Len(out')
       /\ Len(out') + (cur'.to - cur'.from) = L + (b.to - b.from)
       /\ \/ cur' = NoBlock
          \/ /\ cur'.from < cur'.to /\ cur'.err = "none" /\ cur'.buf \in Buffers
             /\ memory[cur'.buf] = Data(Len(out') - cur'.from, cur'.to)
       /\ \A w \in WorkerIds : Once(w, free'[w], rd[w], held[w])
       /\ cur'.buf # NoBuffer =>
            \A w \in WorkerIds : Outside(cur'.buf, free'[w], rd[w], held[w])
  BY <1>0, <1>2, <1>3, <1>7, <1>8, <1>9, Delivers
<1>11. ReaderTypeOK'
  BY <1>0, <1>3, <1>4, <1>10 DEF ReaderTypeOK
<1>12. Exclusive'
  BY <1>0, <1>10 DEF Exclusive
<1>13. Ordered(later)'
  <2>1. Passing(later)'
    <3>1. L + (b.to - b.from) = Least(start[next] + BlockSize, FileSize)
      <4>1. Least(start[next], FileSize) + Avail(start[next]) = Least(start[next] + BlockSize, FileSize)
        BY <1>1, AvailFacts
      <4>2. b.to \in Nat /\ b.to - b.from = b.to
        BY <1>2, <1>8 DEF Block
      <4>3. QED BY <4>1, <4>2, <1>7, <1>8
    <3>2. QED BY <3>1, <1>0, <1>5, <1>10 DEF Passing
  <2>2. ASSUME NEW v \in WorkerIds, NEW i \in Nat \ {0}
        PROVE  At(later[v], i) = IF v = next THEN At(start[v], i + 1) ELSE At(start[v], i)
    <3>1. later[v] = IF v = next THEN start[v] + Stride ELSE start[v]
      BY <1>1, <1>s
    <3>2. start[v] \in Nat
      BY <1>1
    <3>3. At(start[v] + Stride, i) = At(start[v], i + 1)
      BY <3>2, AtFacts
    <3>4. QED BY <3>1, <3>3
  <2>3. ASSUME NEW v \in WorkerIds, NEW i \in 1 .. Len(ready'[v])
        PROVE  Sent(ready[v][i], At(later[v], i))'
    <3>1. CASE v = next
      <4>1. /\ i \in Nat \ {0} /\ i + 1 \in 1 .. Len(ready[next])
            /\ ready'[v][i] = ready[next][i + 1]
        BY <3>1, <1>0, <1>2, <1>3
      <4>2. Sent(ready[next][i + 1], At(start[next], i + 1))
        BY <4>1, <1>1 DEF Ordered
      <4>3. QED BY <3>1, <4>1, <4>2, <2>2, <1>0 DEF Sent, Holds
    <3>2. CASE v # next
      <4>1. i \in Nat \ {0} /\ ready'[v][i] = ready[v][i] /\ i \in 1 .. Len(ready[v])
        BY <3>2, <1>0, <1>3 DEF ReaderTypeOK
      <4>2. Sent(ready[v][i], At(start[v], i))
        BY <4>1 DEF Ordered
      <4>3. QED BY <3>2, <4>1, <4>2, <2>2, <1>0 DEF Sent, Holds
    <3>3. QED BY <3>1, <3>2
  <2>4. ASSUME NEW v \in WorkerIds PROVE Working(v, At(later[v], Len(ready[v]) + 1))'
    <3>1. Working(v, At(start[v], Len(ready[v]) + 1))
      BY DEF Ordered
    <3>2. CASE v = next
      <4>1. At(later[v], Len(ready'[v]) + 1) = At(start[v], Len(ready[v]) + 1)
        BY <3>2, <2>2, <1>0, <1>2, <1>3
      <4>2. closed[v] /\ Len(ready[v]) > 0 /\ ready[v][Len(ready[v])].err # "none"
              => Len(ready'[v]) > 0 /\ ready'[v][Len(ready'[v])].err # "none"
        BY <3>2, <1>0, <1>2, <1>3
      <4>3. QED BY <3>1, <4>1, <4>2, <1>0 DEF Working, Holds
    <3>3. CASE v # next
      <4>1. ready'[v] = ready[v] /\ Len(ready[v]) + 1 \in Nat \ {0}
        BY <3>3, <1>0, <1>3 DEF ReaderTypeOK
      <4>2. QED BY <3>1, <3>3, <4>1, <2>2, <1>0 DEF Working, Holds
    <3>4. QED BY <3>2, <3>3
  <2>5. QED BY <2>1, <2>3, <2>4, <1>5 DEF Ordered
<1>14. QED BY <1>7, <1>10, <1>11, <1>12, <1>13
-----------------------------------------------------------------------------
(* The invariant.                                                          *)
LEMMA Initially == Init => IInv
<1> SUFFICES ASSUME Init PROVE IInv
  OBVIOUS
<1>s. PICK start : start = [w \in WorkerIds |-> w * BlockSize]
  OBVIOUS
<1>1. /\ Workers \in Nat \ {0} /\ Depth \in Nat \ {0} /\ BlockSize \in Nat \ {0}
      /\ FileSize \in Nat /\ WorkerIds = 0 .. Workers - 1
      /\ \A w \in WorkerIds : w \in Nat /\ w * BlockSize \in Nat
  BY ReaderAssumption DEF WorkerIds
<1>2. ReaderTypeOK
  <2>1. \A w \in WorkerIds : [i \in 1 .. Depth + 1 |-> <<w, i - 1>>] \in Seq(Buffers)
    <3>1. ASSUME NEW w \in WorkerIds PROVE [i \in 1 .. Depth + 1 |-> <<w, i - 1>>] \in Seq(Buffers)
      <4>1. \A i \in 1 .. Depth + 1 : <<w, i - 1>> \in Buffers
        BY <1>1 DEF Buffers
      <4>2. QED BY <4>1, <1>1
    <3>2. QED BY <3>1
  <2>2. NoBlock \in Block
    BY Owners
  <2>3. QED BY <1>1, <2>1, <2>2 DEF Init, ReaderTypeOK
<1>3. Exclusive
  <2>1. ASSUME NEW w \in WorkerIds PROVE Once(w, free[w], ready[w], held[w])
    <3>1. /\ free[w] = [i \in 1 .. Depth + 1 |-> <<w, i - 1>>]
          /\ ready[w] = <<>> /\ held[w].buf = NoBuffer
      BY Owners DEF Init
    <3>2. /\ Len(free[w]) = Depth + 1 /\ Len(ready[w]) = 0
          /\ \A i \in 1 .. Len(free[w]) : free[w][i] = <<w, i - 1>>
      BY <3>1, <1>1
    <3>3. /\ \A i \in 1 .. Len(free[w]) : free[w][i][1] = w
          /\ \A i, j \in 1 .. Len(free[w]) : i # j => free[w][i] # free[w][j]
      BY <3>2, <1>1
    <3>4. \A i \in 1 .. Len(ready[w]) : FALSE
      BY <3>2
    <3>5. QED BY <3>1, <3>3, <3>4, Zenon DEF Once
  <2>2. cur.buf = NoBuffer
    BY Owners DEF Init
  <2>3. QED BY <2>1, <2>2 DEF Exclusive
<1>4. Ordered(start)
  <2>1. start \in [WorkerIds -> Nat] /\ \A w \in WorkerIds : start[w] = w * BlockSize
    BY <1>1, <1>s
  <2>2. Turns(start)
    <3>1. ASSUME NEW w \in WorkerIds
          PROVE  start[Succ(w)] = IF Succ(w) = 0 THEN start[w] + BlockSize - Stride
                                                 ELSE start[w] + BlockSize
      <4>1. CASE w + 1 = Workers
        <5>1. w = Workers - 1 /\ Succ(w) = 0 /\ start[0] = 0
          BY <4>1, <1>1, <2>1 DEF Succ
        <5>2. Stride = start[w] + BlockSize
          BY <5>1, <2>1, Strides
        <5>3. QED BY <5>1, <5>2, StrideType, <1>1, <2>1
      <4>2. CASE w + 1 # Workers
        <5>1. Succ(w) = w + 1 /\ w + 1 \in WorkerIds /\ w + 1 # 0
          BY <4>2, <1>1 DEF Succ
        <5>2. (w + 1) * BlockSize = w * BlockSize + BlockSize
          BY <1>1, Strides
        <5>3. QED BY <5>1, <5>2, <2>1
      <4>3. QED BY <4>1, <4>2
    <3>2. QED BY <3>1 DEF Turns, Init
  <2>3. Passing(start)
    <3>1. Count(0) = <<>>
      BY DEF Count
    <3>2. out = Count(Len(out)) /\ Len(out) = 0
      BY <3>1 DEF Init
    <3>3. start[next] = 0
      BY <1>1, <2>1 DEF Init
    <3>4. QED BY <3>2, <3>3, <1>1, Owners DEF Passing, Init, Least
  <2>4. ASSUME NEW w \in WorkerIds
        PROVE  /\ \A i \in 1 .. Len(ready[w]) : Sent(ready[w][i], At(start[w], i))
               /\ Working(w, At(start[w], Len(ready[w]) + 1))
    <3>1. ready[w] = <<>> /\ Len(ready[w]) + 1 = 1 /\ ~closed[w] /\ pc[w] = "take"
      BY DEF Init
    <3>2. off[w] = At(start[w], 1)
      BY <1>1, <2>1, AtFacts DEF Init
    <3>3. QED BY <3>1, <3>2 DEF Working
  <2>5. QED BY <2>1, <2>2, <2>3, <2>4 DEF Ordered
<1>5. QED BY <1>2, <1>3, <1>4 DEF Init, IInv, Reading

LEMMA FetchStep ==
  ASSUME NEW w \in WorkerIds, Fetch(w), Live, \E start : Reading(start), Failing \subseteq {0}
  PROVE  (\E start : Reading(start)') /\ UNCHANGED reading
<1>1. PICK start : Reading(start)
  OBVIOUS
<1>2. ~Halt(w)
  BY DEF Halt, Live
<1>3. CASE Take(w) \/ Ends(w) \/ ReadBlock(w) \/ SendBlock(w) \/ SendError(w)
  <2>1. UNCHANGED reading
    BY <1>3 DEF Take, Ends, ReadBlock, SendBlock, SendError
  <2>2. Reading(start)'
    BY <1>1, <1>3, TakeStep, EndsStep, ReadBlockStep, SendBlockStep, SendErrorStep
  <2>3. QED BY <2>1, <2>2
<1>4. QED BY <1>2, <1>3 DEF Fetch

LEMMA LiveStep ==
  ASSUME \E start : Reading(start), Live, Next, Failing \subseteq {0}
  PROVE  Live' => (\E start : Reading(start)') /\ Len(out) <= Len(out')
<1>1. PICK start : Reading(start)
  OBVIOUS
<1>2. Len(out) \in Nat
  BY <1>1 DEF Reading, ReaderTypeOK
<1>3. CASE \E w \in WorkerIds : Fetch(w)
  BY <1>2, <1>3, FetchStep DEF reading
<1>4. ASSUME NEW k \in Asks, ReadRest(k)
      PROVE  (\E later : Reading(later)') /\ Len(out) <= Len(out')
  BY <1>1, <1>4, ReadRestStep
<1>5. ASSUME NEW k \in Asks, ReadNext(k), Live'
      PROVE  (\E later : Reading(later)') /\ Len(out) <= Len(out')
  <2>1. Head(ready[next]).err = "none"
    BY <1>5 DEF ReadNext, Live
  <2>2. QED BY <2>1, <1>1, <1>5, ReadNextStep
<1>6. ReadClosed \/ Close => ~Live'
  BY DEF ReadClosed, Close, Live
<1>7. QED BY <1>3, <1>4, <1>5, <1>6 DEF Next, Read

LEMMA Invariance ==
  ASSUME IInv, [Next]_vars, Failing \subseteq {0}
  PROVE  IInv'
<1>1. CASE UNCHANGED vars
  <2>1. UNCHANGED <<pc, off, held, ready, closed, free, memory, next, cur, err, out, stopped>>
    BY <1>1 DEF vars, worker, reading
  <2>2. ASSUME NEW start, Reading(start) PROVE Reading(start)'
    <3>1. ReaderTypeOK'
      BY <2>1, <2>2 DEF Reading, ReaderTypeOK
    <3>2. Exclusive'
      BY <2>1, <2>2 DEF Reading, Exclusive
    <3>3. Ordered(start)'
      BY <2>1, <2>2 DEF Reading, Ordered, Turns, Passing, Sent, Holds, Working
    <3>4. QED BY <3>1, <3>2, <3>3 DEF Reading
  <2>3. QED BY <2>1, <2>2 DEF IInv, Live
<1>2. CASE Next
  <2>1. (err # "none" => cur = NoBlock)'
    <3>1. CASE \E w \in WorkerIds : Fetch(w)
      BY <3>1 DEF IInv, Fetch, Take, Ends, Halt, ReadBlock, SendBlock, SendError, reading
    <3>2. CASE \E k \in Asks : ReadRest(k)
      BY <3>2, Owners DEF IInv, ReadRest
    <3>3. CASE \E k \in Asks : ReadNext(k)
      BY <3>3 DEF ReadNext
    <3>4. CASE ReadClosed \/ Close
      BY <3>4 DEF IInv, ReadClosed, Close
    <3>5. QED BY <1>2, <3>1, <3>2, <3>3, <3>4 DEF Next, Read
  <2>2. Live' => Live
    <3>1. CASE \E w \in WorkerIds : Fetch(w)
      BY <3>1 DEF Live, Fetch, Take, Ends, Halt, ReadBlock, SendBlock, SendError, reading
    <3>2. CASE Read \/ Close
      BY <3>2 DEF Live, Read, ReadRest, ReadNext, ReadClosed, Close
    <3>3. QED BY <1>2, <3>1, <3>2 DEF Next
  <2>3. ASSUME Live' PROVE (\E start : Reading(start))'
    BY <1>2, <2>2, <2>3, LiveStep DEF IInv
  <2>4. QED BY <2>1, <2>3 DEF IInv
<1>3. QED BY <1>1, <1>2
-----------------------------------------------------------------------------
(* The refinement: a step is a step of Stream, or changes nothing of it.   *)
LEMMA Passed ==
  ASSUME NEW o \in Seq(Nat), NEW c \in Block, NEW p \in Nat,
         o = Count(Len(o)), Len(o) + (c.to - c.from) = Least(p, FileSize),
         c = NoBlock \/ c.from < c.to
  PROVE  /\ Len(o) \in 0 .. FileSize
         /\ c = NoBlock /\ p >= FileSize => o = File
<1>1. c.from \in Nat /\ c.to \in Nat /\ c.from <= c.to /\ (c = NoBlock => c.to = c.from)
  BY Owners DEF Block
<1>2. Least(p, FileSize) \in 0 .. FileSize
  BY ReaderAssumption DEF Least
<1>3. Len(o) \in 0 .. FileSize
  BY <1>1, <1>2, ReaderAssumption
<1>4. ASSUME c = NoBlock, p >= FileSize PROVE o = File
  <2>1. Len(o) = FileSize
    BY <1>1, <1>4, ReaderAssumption DEF Least
  <2>2. QED BY <2>1 DEF Count, File
<1>5. QED BY <1>3, <1>4

LEMMA StreamStep ==
  ASSUME IInv, IInv', [Next]_vars, Failing \subseteq {0}
  PROVE  [Promise!Next]_(Promise!vars)
<1>1. CASE UNCHANGED <<err, out>>
  BY <1>1 DEF Promise!vars, File
<1>2. CASE ~Live
  <2>1. ASSUME NEW k \in Asks, ReadRest(k) PROVE FALSE
    BY <1>2, <2>1, Owners DEF ReadRest, Live, IInv
  <2>2. ASSUME NEW k \in Asks, ReadNext(k) PROVE FALSE
    BY <1>2, <2>2 DEF ReadNext, Live
  <2>3. CASE ReadClosed
    BY <1>2, <2>3 DEF ReadClosed, Live
  <2>4. CASE Close \/ UNCHANGED vars
    BY <2>4, <1>1 DEF Close, vars, reading
  <2>5. CASE \E w \in WorkerIds : Fetch(w)
    BY <2>5, <1>1 DEF Fetch, Take, Ends, Halt, ReadBlock, SendBlock, SendError, reading
  <2>6. QED BY <2>1, <2>2, <2>3, <2>4, <2>5 DEF Next, Read
<1>3. CASE Live
  <2>1. PICK start : Reading(start)
    BY <1>3 DEF IInv
  <2>2. /\ next \in WorkerIds /\ start[next] \in Nat /\ ready[next] \in Seq(Block)
        /\ At(start[next], 1) = start[next]
        /\ Len(out) \in 0 .. FileSize /\ out = Count(Len(out))
        /\ cur = NoBlock /\ start[next] >= FileSize => out = File
    <3>1. /\ next \in WorkerIds /\ start[next] \in Nat /\ ready[next] \in Seq(Block)
          /\ out \in Seq(Nat) /\ cur \in Block
          /\ out = Count(Len(out)) /\ Len(out) + (cur.to - cur.from) = Least(start[next], FileSize)
          /\ cur = NoBlock \/ cur.from < cur.to
      BY <2>1 DEF Reading, ReaderTypeOK, Ordered, Passing
    <3>2. At(start[next], 1) = start[next]
      <4>1. start[next] \in Nat
        BY <3>1
      <4>2. QED BY <4>1, AtFacts
    <3>3. /\ Len(out) \in 0 .. FileSize
          /\ cur = NoBlock /\ start[next] >= FileSize => out = File
      BY <3>1, Passed
    <3>4. QED BY <3>1, <3>2, <3>3
  <2>3. CASE Live' /\ Next
    <3>1. PICK later : Reading(later)'
      BY <2>3 DEF IInv
    <3>2. Len(out) <= Len(out') /\ err = "none" /\ err' = "none"
      BY <1>3, <2>1, <2>3, LiveStep DEF Live
    <3>3. Len(out') \in 0 .. FileSize /\ out' = Count(Len(out'))
      <4>1. /\ next' \in WorkerIds /\ later[next'] \in Nat
            /\ out' \in Seq(Nat) /\ cur' \in Block
            /\ out' = Count(Len(out'))
            /\ Len(out') + (cur'.to - cur'.from) = Least(later[next'], FileSize)
            /\ cur' = NoBlock \/ cur'.from < cur'.to
        BY <3>1 DEF Reading, ReaderTypeOK, Ordered, Passing
      <4>2. QED BY <4>1, Passed
    <3>4. Promise!IsPrefix(out, out') /\ Promise!IsPrefix(out', File)
      <4>1. \A n \in Nat, m \in Nat : m <= n => Promise!IsPrefix(Count(m), Count(n))
        BY CountPrefix
      <4>2. PICK m \in Nat, n \in Nat : m = Len(out) /\ n = Len(out') /\ m <= n /\ n <= FileSize
        BY <2>2, <3>2, <3>3, ReaderAssumption
      <4>3. out = Count(m) /\ out' = Count(n) /\ File = Count(FileSize)
        BY <4>2, <2>2, <3>3 DEF File, Count
      <4>4. QED BY <4>1, <4>2, <4>3, ReaderAssumption
    <3>5. QED BY <3>2, <3>4 DEF Promise!Next, Promise!Pass, File
  <2>4. CASE Next /\ err' # "none"
    <3>1. cur = NoBlock /\ out' = out
          /\ \/ err' = "EOF" /\ start[next] >= FileSize
             \/ err' = "failed"
      <4>1. CASE ReadClosed
        <5>1. cur = NoBlock /\ out' = out /\ err' = "EOF" /\ ready[next] = <<>> /\ closed[next]
          BY <4>1 DEF ReadClosed
        <5>2. Working(next, At(start[next], Len(ready[next]) + 1))
          BY <2>1, <2>2 DEF Reading, Ordered
        <5>3. At(start[next], Len(ready[next]) + 1) = start[next] /\ Len(ready[next]) = 0
          BY <5>1, <2>2
        <5>4. start[next] >= FileSize
          BY <5>1, <5>2, <5>3 DEF Working
        <5>5. QED BY <5>1, <5>4
      <4>2. ASSUME NEW k \in Asks, ReadNext(k)
            PROVE  /\ cur = NoBlock /\ out' = out
                   /\ \/ err' = "EOF" /\ start[next] >= FileSize
                      \/ err' = "failed"
        <5>1. /\ cur = NoBlock /\ ready[next] # <<>> /\ Head(ready[next]).err # "none"
              /\ err' = Head(ready[next]).err /\ out' = out
          BY <1>3, <2>4, <4>2 DEF ReadNext, Live
        <5>2. Head(ready[next]) = ready[next][1] /\ ready[next][1] \in Block /\ 1 \in 1 .. Len(ready[next])
          BY <2>2, <5>1
        <5>3. Sent(ready[next][1], start[next])
          BY <2>1, <2>2, <5>2 DEF Reading, Ordered
        <5>4. err' \in Errors
          BY <5>1, <5>2 DEF Block
        <5>5. QED BY <5>1, <5>2, <5>3, <5>4 DEF Sent, Errors
      <4>3. ~\E w \in WorkerIds : Fetch(w)
        BY <1>3, <2>4 DEF Live, Fetch, Take, Ends, Halt, ReadBlock, SendBlock, SendError, reading
      <4>4. ~Close /\ ~\E k \in Asks : ReadRest(k)
        BY <1>3, <2>4 DEF Live, Close, ReadRest
      <4>5. QED BY <2>4, <4>1, <4>2, <4>3, <4>4 DEF Next, Read
    <3>2. CASE err' = "EOF" /\ start[next] >= FileSize
      <4>1. out = File /\ out' = out /\ err = "none"
        BY <3>1, <3>2, <2>2, <1>3 DEF Live
      <4>2. QED BY <4>1, <3>2 DEF Promise!Next, Promise!End, File
    <3>3. CASE err' = "failed"
      BY <3>1, <3>3, <1>3 DEF Promise!Next, Promise!Fail, File, Live
    <3>4. QED BY <3>1, <3>2, <3>3
  <2>5. CASE Next /\ ~Live' /\ err' = "none"
    <3>1. ~stopped /\ stopped'
      BY <1>3, <2>5 DEF Live
    <3>2. ~Read /\ ~\E w \in WorkerIds : Fetch(w)
      BY <3>1 DEF Read, ReadRest, ReadNext, ReadClosed, Fetch, Take, Ends, Halt,
                  ReadBlock, SendBlock, SendError, reading, worker
    <3>3. QED BY <2>5, <3>2, <1>1 DEF Next, Close
  <2>6. CASE UNCHANGED vars
    BY <2>6, <1>1 DEF vars, reading
  <2>7. QED BY <2>3, <2>4, <2>5, <2>6 DEF Live
<1>4. QED BY <1>2, <1>3

(* Buffers go from a worker to the consumer and back, and at every moment  *)
(* each is in one place at most: none is written while Read copies from    *)
(* it.                                                                     *)
THEOREM BuffersAreExclusive ==
  ASSUME Failing \subseteq {0}
  PROVE  Spec => [](Live => Exclusive)
<1>1. IInv => (Live => Exclusive)
  BY DEF IInv, Reading
<1>2. IInv /\ [Next]_vars => IInv'
  BY Invariance
<1>3. QED BY <1>1, <1>2, Initially, PTL DEF Spec

(* Read returns the file in order and without a hole, and the end only     *)
(* after all of it, whatever the workers do when.  A read that fails must  *)
(* have read nothing: Read takes the part of a block before an error for   *)
(* a whole block.                                                          *)
THEOREM ReaderKeepsThePromise ==
  ASSUME Failing \subseteq {0}
  PROVE  Spec => KeepsThePromise
<1>1. Init => Promise!Init
  BY DEF Init, Promise!Init
<1>2. IInv /\ IInv' /\ [Next]_vars => [Promise!Next]_(Promise!vars)
  BY StreamStep
<1>3. IInv /\ [Next]_vars => IInv'
  BY Invariance
<1>4. QED BY <1>1, <1>2, <1>3, Initially, PTL DEF Spec, KeepsThePromise, Promise!Spec
=============================================================================
