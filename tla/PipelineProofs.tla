--------------------------- MODULE PipelineProofs ---------------------------
(***************************************************************************)
(* Proofs about a program run from standard input to an output, for any    *)
(* number of buffers on either side, of any size, for any input and any    *)
(* calls of Read.                                                          *)
(*                                                                         *)
(* All that is on its way, in the buffers of the two channels and in the   *)
(* hands of the three goroutines, are runs of units that follow on one     *)
(* another.  The proofs keep the position each of them starts at in two    *)
(* sequences, one for each channel: in, of the blocks read ahead, and out, *)
(* of the blocks to write.                                                 *)
(***************************************************************************)
EXTENDS Pipeline, TLAPS

\* the units of s follow the first a units of the input
Follows(s, a) == \A i \in 1 .. Len(s) : s[i] = a + i
-----------------------------------------------------------------------------
(* The types.                                                              *)
Errors == {"none", "EOF", "failed"}

InBlocks == [buf : 0 .. InDepth, from : Nat, to : Nat, err : Errors]

InputTypeOK ==
  /\ filler \in {"take", "read", "block", "error", "done"}
  /\ filled \in InBlocks
  /\ pos \in 0 .. Total
  /\ ahead \in Seq(InBlocks)
  /\ spare \in Seq(InBuffers)
  /\ inMemory \in [InBuffers -> Seq(Nat)]
  /\ rest \in InBlocks
  /\ readErr \in Errors
  /\ stop \in BOOLEAN

OutputTypeOK ==
  /\ drainer \in {"take", "write", "free", "done"}
  /\ draining \in 0 .. OutDepth
  /\ queue \in Seq(OutBuffers)
  /\ outFree \in Seq(OutBuffers)
  /\ outMemory \in [OutBuffers -> Seq(Nat)]
  /\ blk \in 0 .. OutDepth
  /\ writeErr \in BOOLEAN
  /\ outClosed \in BOOLEAN
  /\ sink \in Seq(Nat)
  /\ accepted \in Seq(Nat)

ConversionTypeOK ==
  /\ program \in {"mmt2ts", "ts2mmt"}
  /\ step \in {"block", "read", "put", "flush", "write", "close", "fail", "wait",
               "failing", "over"}
  /\ todo \in Seq(Nat)
  /\ exit \in {"none", "ok", "error"}
-----------------------------------------------------------------------------
(* The input.                                                              *)

\* a buffer is free, on its way, with fill or with the conversion, in one place
InputOnce ==
  /\ \A i, j \in 1 .. Len(spare) : spare[i] = spare[j] => i = j
  /\ \A i, j \in 1 .. Len(ahead) : ahead[i].buf = ahead[j].buf /\ ahead[i].buf # 0 => i = j
  /\ \A i \in 1 .. Len(spare), j \in 1 .. Len(ahead) : spare[i] # ahead[j].buf
  /\ filler \in {"read", "block"} =>
       /\ filled.buf # 0 /\ filled.buf # rest.buf
       /\ \A i \in 1 .. Len(spare) : spare[i] # filled.buf
       /\ \A i \in 1 .. Len(ahead) : ahead[i].buf # filled.buf
  /\ rest.buf # 0 =>
       /\ \A i \in 1 .. Len(spare) : spare[i] # rest.buf
       /\ \A i \in 1 .. Len(ahead) : ahead[i].buf # rest.buf

\* what fill is doing follows the blocks sent, which end at position end
Filling(end) ==
  /\ filler # "block" => end = pos
  /\ filler = "read" => filled.from = 0 /\ filled.err = "none"
  /\ filler = "block" =>
       /\ filled.from = 0 /\ filled.to > 0
       /\ Len(inMemory[filled.buf]) = filled.to
       /\ Follows(inMemory[filled.buf], end)
       /\ end + filled.to = pos
  /\ filler = "error" => filled.err # "none"
  /\ filler \in {"block", "error"} /\ filled.err = "EOF" => pos = Total

\* block b was sent with the units after the first start, or with an error
Sent(b, start, end) ==
  IF b.err = "none"
  THEN /\ b.buf # 0 /\ b.from = 0 /\ b.to > 0
       /\ Len(inMemory[b.buf]) = b.to
       /\ Follows(inMemory[b.buf], start)
       /\ end = start + b.to
  ELSE /\ b.buf = 0 /\ b.from = 0 /\ b.to = 0
       /\ end = start
       /\ filler = "done"
       /\ b.err = "EOF" => pos = Total

\* the block the conversion is in ends at position end
Resting(end) ==
  \/ rest = EmptyBlock
  \/ /\ rest.buf # 0 /\ rest.from < rest.to /\ rest.err = "none"
     /\ rest.to <= end
     /\ Len(inMemory[rest.buf]) = rest.to
     /\ Follows(inMemory[rest.buf], end - rest.to)

\* an error is the last thing that is sent and received
ErrorIsLast ==
  /\ \A i \in 1 .. Len(ahead) : ahead[i].err # "none" => i = Len(ahead)
  /\ filler = "done" /\ readErr = "none" => ahead # <<>> /\ ahead[Len(ahead)].err # "none"
  /\ readErr # "none" => filler = "done" /\ ahead = <<>> /\ rest = EmptyBlock
  /\ readErr = "EOF" => pos = Total

InputFlow(in) ==
  /\ in \in [1 .. Len(ahead) + 1 -> Nat]
  /\ \A i \in 1 .. Len(ahead) + 1 : in[i] <= pos
  /\ \A i \in 1 .. Len(ahead) : Sent(ahead[i], in[i], in[i + 1])
  /\ Filling(in[Len(ahead) + 1])
  /\ Resting(in[1])
  /\ ErrorIsLast
-----------------------------------------------------------------------------
(* The output.                                                             *)

\* a buffer is free, on its way, with drain or with the conversion, in one place
OutputOnce ==
  /\ draining # NoBuf <=> drainer \in {"write", "free"}
  /\ \A i, j \in 1 .. Len(outFree) : outFree[i] = outFree[j] => i = j
  /\ \A i, j \in 1 .. Len(queue) : queue[i] = queue[j] => i = j
  /\ \A i \in 1 .. Len(outFree), j \in 1 .. Len(queue) : outFree[i] # queue[j]
  /\ draining # NoBuf =>
       /\ draining # blk
       /\ \A i \in 1 .. Len(outFree) : outFree[i] # draining
       /\ \A i \in 1 .. Len(queue) : queue[i] # draining
  /\ blk # NoBuf =>
       /\ \A i \in 1 .. Len(outFree) : outFree[i] # blk
       /\ \A i \in 1 .. Len(queue) : queue[i] # blk

\* what is in the block the conversion fills
Mine == IF blk = NoBuf THEN <<>> ELSE outMemory[blk]

\* what drain is doing precedes the blocks that wait, which start at position start
Draining(start) ==
  /\ Len(sink) <= start
  /\ Follows(sink, 0)
  /\ ~writeErr => start = Len(sink) + IF drainer = "write" THEN Len(outMemory[draining]) ELSE 0
  /\ drainer = "write" =>
       /\ ~writeErr
       /\ Follows(outMemory[draining], Len(sink))
  /\ drainer = "done" => queue = <<>> /\ outClosed

\* Write accepts a unit at once, WriteBlock a block when it is sent
Accepting(end) ==
  /\ Follows(Mine, end)
  /\ Follows(accepted, 0)
  /\ Len(accepted) = end + IF program = "ts2mmt" THEN Len(Mine) ELSE 0

\* where the units end that the buffers in q hold
End(out, q) == out[Len(q) + 1]

\* the buffers in q hold what follows position out[1], one after the other
Chain(out, q, memory) ==
  /\ out \in [1 .. Len(q) + 1 -> Nat]
  /\ \A i, j \in 1 .. Len(q) + 1 : i <= j => out[i] <= out[j]
  /\ \A i \in 1 .. Len(q) :
       /\ Follows(memory[q[i]], out[i])
       /\ out[i + 1] = out[i] + Len(memory[q[i]])

OutputFlow(out) ==
  /\ Chain(out, queue, outMemory)
  /\ Draining(out[1])
  /\ Accepting(End(out, queue))
-----------------------------------------------------------------------------
(* The conversion between the two.                                         *)

\* how many units it wrote, and how many it read
Put  == Len(accepted) + IF program = "mmt2ts" THEN Len(Mine) ELSE 0
Got  == Put + Len(todo)

Control ==
  /\ program = "mmt2ts" => step # "write" /\ (blk = NoBuf <=> step = "block")
  /\ program = "ts2mmt" => step \notin {"block", "flush"}
  /\ step = "read" => todo = <<>> /\ readErr = "none"
  /\ readErr # "none" => todo = <<>>
  /\ readErr # "none" /\ step = "put" /\ program = "mmt2ts" => Mine = <<>>
  /\ step \in {"close", "wait"} =>
       /\ readErr # "none"
       /\ program = "mmt2ts" => Mine = <<>>
  /\ program = "mmt2ts" /\ readErr = "failed" => step \in {"fail", "failing", "over"}
  /\ outClosed => step \in {"wait", "failing", "over"}
  /\ step \in {"wait", "failing", "over"} => outClosed
  /\ step = "wait" /\ program = "ts2mmt" => Mine = <<>>
  /\ stop <=> step = "over"
  /\ step = "over" <=> exit # "none"
  /\ step = "over" => drainer = "done"

Between ==
  /\ Follows(todo, Put)
  /\ Len(accepted) <= Total
  /\ \E out : OutputFlow(out)
  /\ step # "over" =>
       /\ InputOnce
       /\ \E in : InputFlow(in) /\ in[1] = Got + (rest.to - rest.from)

Over ==
  exit = "ok" =>
    /\ filler = "done"
    /\ sink = accepted
    /\ Len(sink) = pos
    /\ program = "mmt2ts" \/ readErr = "EOF" => pos = Total

IInv ==
  /\ InputTypeOK /\ OutputTypeOK /\ ConversionTypeOK
  /\ OutputOnce /\ Control /\ Between /\ Over
-----------------------------------------------------------------------------
(* Sequences of units that follow on one another.                          *)
LEMMA FollowsEmpty ==
  ASSUME NEW a
  PROVE  Follows(<<>>, a) /\ Len(<<>>) = 0
BY DEF Follows

LEMMA FollowsConcat ==
  ASSUME NEW a \in Nat, NEW s \in Seq(Nat), NEW t \in Seq(Nat),
         Follows(s, a), Follows(t, a + Len(s))
  PROVE  s \o t \in Seq(Nat) /\ Len(s \o t) = Len(s) + Len(t) /\ Follows(s \o t, a)
BY DEF Follows

LEMMA FollowsAppend ==
  ASSUME NEW a \in Nat, NEW s \in Seq(Nat), NEW x \in Nat,
         Follows(s, a), x = a + Len(s) + 1
  PROVE  /\ Append(s, x) \in Seq(Nat) /\ Len(Append(s, x)) = Len(s) + 1
         /\ Follows(Append(s, x), a)
BY DEF Follows

LEMMA FollowsTail ==
  ASSUME NEW a \in Nat, NEW s \in Seq(Nat), s # <<>>, Follows(s, a)
  PROVE  /\ Len(s) \in Nat \ {0} /\ Head(s) = a + 1
         /\ Tail(s) \in Seq(Nat) /\ Len(Tail(s)) = Len(s) - 1 /\ Follows(Tail(s), a + 1)
BY DEF Follows

LEMMA FollowsSub ==
  ASSUME NEW a \in Nat, NEW s \in Seq(Nat), Follows(s, a),
         NEW i \in 0 .. Len(s), NEW m \in 0 .. Len(s) - i
  PROVE  /\ SubSeq(s, i + 1, i + m) \in Seq(Nat) /\ Len(SubSeq(s, i + 1, i + m)) = m
         /\ Follows(SubSeq(s, i + 1, i + m), a + i)
BY DEF Follows

LEMMA FollowsSame ==
  ASSUME NEW a \in Nat, NEW s \in Seq(Nat), NEW t \in Seq(Nat),
         Follows(s, a), Follows(t, a), Len(s) <= Len(t)
  PROVE  SubSeq(t, 1, Len(s)) = s
BY DEF Follows
LEMMA ChainTail ==
  ASSUME NEW q \in Seq(OutBuffers), q # <<>>, NEW memory, NEW out, Chain(out, q, memory)
  PROVE  \E later : /\ Chain(later, Tail(q), memory)
                    /\ later[1] = out[2] /\ End(later, Tail(q)) = End(out, q)
<1>1. /\ Len(q) \in Nat \ {0} /\ Len(Tail(q)) = Len(q) - 1
      /\ \A i \in 1 .. Len(Tail(q)) : Tail(q)[i] = q[i + 1]
  OBVIOUS
<1>2. PICK later : later = [i \in 1 .. Len(Tail(q)) + 1 |-> out[i + 1]]
  OBVIOUS
<1>3. \A i \in 1 .. Len(Tail(q)) + 1 : i + 1 \in 1 .. Len(q) + 1 /\ later[i] = out[i + 1]
  BY <1>1, <1>2
<1>4. later \in [1 .. Len(Tail(q)) + 1 -> Nat]
  BY <1>2, <1>3 DEF Chain
<1>5. ASSUME NEW i \in 1 .. Len(Tail(q)) + 1, NEW j \in 1 .. Len(Tail(q)) + 1, i <= j
      PROVE  later[i] <= later[j]
  <2>1. i + 1 <= j + 1
    BY <1>1, <1>5
  <2>2. QED
    BY <1>3, <2>1 DEF Chain
<1>6. ASSUME NEW i \in 1 .. Len(Tail(q))
      PROVE  /\ Follows(memory[Tail(q)[i]], later[i])
             /\ later[i + 1] = later[i] + Len(memory[Tail(q)[i]])
  <2>1. i + 1 \in 1 .. Len(q) /\ i \in 1 .. Len(Tail(q)) + 1 /\ i + 1 \in 1 .. Len(Tail(q)) + 1
    BY <1>1
  <2>2. /\ Follows(memory[q[i + 1]], out[i + 1])
        /\ out[(i + 1) + 1] = out[i + 1] + Len(memory[q[i + 1]])
    BY <2>1, Zenon DEF Chain
  <2>3. QED
    BY <1>1, <1>3, <2>1, <2>2, Zenon
<1>7. later[1] = out[2] /\ End(later, Tail(q)) = End(out, q)
  <2>1. Len(Tail(q)) + 1 = Len(q) /\ Len(q) \in 1 .. Len(Tail(q)) + 1 /\ 1 \in 1 .. Len(Tail(q)) + 1
    BY <1>1
  <2>2. QED
    BY <1>3, <2>1 DEF End
<1>8. QED
  BY <1>4, <1>5, <1>6, <1>7 DEF Chain

LEMMA ChainAppend ==
  ASSUME NEW q \in Seq(OutBuffers), NEW b \in OutBuffers, NEW memory,
         NEW s \in Seq(Nat), memory[b] = s,
         NEW out, Chain(out, q, memory), Follows(s, End(out, q))
  PROVE  \E later : /\ Chain(later, Append(q, b), memory)
                    /\ later[1] = out[1]
                    /\ End(later, Append(q, b)) = End(out, q) + Len(s)
<1>1. /\ Len(q) \in Nat /\ Len(Append(q, b)) = Len(q) + 1 /\ Append(q, b)[Len(q) + 1] = b
      /\ \A i \in 1 .. Len(q) : Append(q, b)[i] = q[i]
  OBVIOUS
<1>2. PICK end : end = End(out, q) /\ end = out[Len(q) + 1]
  BY DEF End
<1>3. Len(q) + 1 \in 1 .. Len(q) + 1
  BY <1>1
<1>n. end \in Nat /\ Len(s) \in Nat
  <2>1. end \in Nat
    BY <1>2, <1>3, Zenon DEF Chain
  <2>2. QED
    BY <2>1
<1>4. PICK later : later = [i \in 1 .. Len(q) + 2 |->
                              IF i <= Len(q) + 1 THEN out[i] ELSE end + Len(s)]
  OBVIOUS
<1>5. /\ \A i \in 1 .. Len(q) + 1 : later[i] = out[i] /\ out[i] \in Nat /\ out[i] <= end
      /\ later[Len(q) + 2] = end + Len(s)
  <2>1. ASSUME NEW i \in 1 .. Len(q) + 1
        PROVE  later[i] = out[i] /\ out[i] \in Nat /\ out[i] <= end
    <3>1. i \in 1 .. Len(q) + 2 /\ i <= Len(q) + 1
      BY <1>1
    <3>2. later[i] = out[i]
      BY <1>4, <3>1
    <3>3. out[i] \in Nat /\ out[i] <= out[Len(q) + 1]
      BY <1>3, <3>1, Zenon DEF Chain
    <3>4. QED
      BY <1>2, <3>2, <3>3
  <2>2. later[Len(q) + 2] = end + Len(s)
    BY <1>1, <1>4
  <2>3. QED
    BY <2>1, <2>2
<1>6. later \in [1 .. Len(q) + 2 -> Nat]
  <2>1. ASSUME NEW i \in 1 .. Len(q) + 2
        PROVE  later[i] \in Nat
    <3>1. CASE i \in 1 .. Len(q) + 1
      BY <1>5, <3>1
    <3>2. CASE i = Len(q) + 2
      BY <1>5, <1>n, <3>2
    <3>3. QED
      BY <1>1, <3>1, <3>2
  <2>2. QED
    BY <1>4, <2>1
<1>7. ASSUME NEW i \in 1 .. Len(q) + 2, NEW j \in 1 .. Len(q) + 2, i <= j
      PROVE  later[i] <= later[j]
  <2>1. CASE j <= Len(q) + 1
    <3>1. i \in 1 .. Len(q) + 1 /\ j \in 1 .. Len(q) + 1
      BY <1>1, <1>7, <2>1
    <3>2. QED
      BY <1>5, <1>7, <3>1 DEF Chain
  <2>2. CASE j = Len(q) + 2 /\ i <= Len(q) + 1
    <3>1. i \in 1 .. Len(q) + 1
      BY <1>1, <2>2
    <3>2. later[i] = out[i] /\ out[i] \in Nat /\ out[i] <= end
      BY <1>5, <3>1
    <3>3. end <= end + Len(s)
      BY <1>n
    <3>4. QED
      BY <1>5, <1>n, <2>2, <3>2, <3>3
  <2>3. CASE i = j
    <3>1. later[i] \in Nat
      BY <1>6
    <3>2. QED
      BY <2>3, <3>1
  <2>4. QED
    BY <1>1, <1>7, <2>1, <2>2, <2>3
<1>8. ASSUME NEW i \in 1 .. Len(q) + 1
      PROVE  /\ Follows(memory[Append(q, b)[i]], later[i])
             /\ later[i + 1] = later[i] + Len(memory[Append(q, b)[i]])
  <2>1. CASE i \in 1 .. Len(q)
    <3>1. i + 1 \in 1 .. Len(q) + 1
      BY <1>1, <2>1
    <3>2. QED
      BY <1>1, <1>5, <2>1, <3>1 DEF Chain
  <2>2. CASE i = Len(q) + 1
    <3>1. i + 1 = Len(q) + 2
      BY <1>1, <2>2
    <3>2. QED
      BY <1>1, <1>2, <1>5, <2>2, <3>1
  <2>3. QED
    BY <1>1, <2>1, <2>2
<1>9. Len(Append(q, b)) + 1 = Len(q) + 2
  BY <1>1
<1>10. Chain(later, Append(q, b), memory)
  BY <1>1, <1>6, <1>7, <1>8, <1>9 DEF Chain
<1>11. later[1] = out[1]
  BY <1>1, <1>5
<1>12. End(later, Append(q, b)) = End(out, q) + Len(s)
  BY <1>2, <1>5, <1>9 DEF End
<1>13. QED
  BY <1>10, <1>11, <1>12

\* what happens to other buffers does not matter
LEMMA ChainMemory ==
  ASSUME NEW q \in Seq(OutBuffers), NEW memory \in [OutBuffers -> Seq(Nat)], NEW b, NEW s,
         NEW out, Chain(out, q, memory), \A i \in 1 .. Len(q) : q[i] # b
  PROVE  Chain(out, q, [memory EXCEPT ![b] = s])
<1>1. \A i \in 1 .. Len(q) : [memory EXCEPT ![b] = s][q[i]] = memory[q[i]]
  OBVIOUS
<1>2. QED
  BY <1>1 DEF Chain
-----------------------------------------------------------------------------
(* Init                                                                    *)
LEMMA Initially == Init => IInv
<1> SUFFICES ASSUME Init PROVE IInv
  OBVIOUS
<1> USE DEF Init, InInit, OutInit
<1>a. /\ InDepth \in Nat /\ spare \in Seq(InBuffers)
      /\ OutDepth \in Nat /\ outFree \in Seq(OutBuffers)
  BY ReadAheadAssumption, AsyncWriterAssumption DEF InBuffers, OutBuffers
<1>b. <<>> \in Seq(Nat) /\ EmptyBlock \in InBlocks
  BY <1>a DEF InBlocks, EmptyBlock, Errors
<1>c. /\ inMemory \in [InBuffers -> Seq(Nat)] /\ ahead \in Seq(InBlocks)
      /\ outMemory \in [OutBuffers -> Seq(Nat)] /\ queue \in Seq(OutBuffers)
  BY <1>b
<1>1. InputTypeOK
  <2>1. filled \in InBlocks /\ rest \in InBlocks
    BY <1>b
  <2>2. pos \in 0 .. Total
    BY ReadAheadAssumption
  <2>3. QED
    BY <1>a, <1>c, <2>1, <2>2, Zenon DEF InputTypeOK, Errors
<1>2. OutputTypeOK
  <2>1. draining \in 0 .. OutDepth /\ blk \in 0 .. OutDepth
    BY <1>a DEF NoBuf
  <2>2. sink \in Seq(Nat) /\ accepted \in Seq(Nat)
    BY <1>b
  <2>3. QED
    BY <1>a, <1>c, <2>1, <2>2, Zenon DEF OutputTypeOK
<1>3. ConversionTypeOK /\ Over
  BY DEF ConversionTypeOK, Over
<1>4. OutputOnce
  BY AsyncWriterAssumption DEF OutputOnce, OutBuffers, NoBuf
<1>5. Mine = <<>>
  BY DEF Mine
<1>6. Control
  BY <1>5 DEF Control, NoBuf
<1>7. Put = 0 /\ Len(accepted) = 0 /\ Len(todo) = 0
  BY <1>5 DEF Put
<1>8. OutputFlow([i \in 1 .. 1 |-> 0])
  BY <1>5, FollowsEmpty DEF OutputFlow, Chain, End, Draining, Accepting
<1>9. InputFlow([i \in 1 .. 1 |-> 0])
  BY DEF InputFlow, Filling, Resting, ErrorIsLast
<1>10. InputOnce
  BY ReadAheadAssumption DEF InputOnce, InBuffers, EmptyBlock
<1>11. Between
  <2>1. Follows(todo, Put) /\ Len(accepted) <= Total
    BY <1>7, FollowsEmpty, ReadAheadAssumption
  <2>2. Got + (rest.to - rest.from) = 0
    BY <1>7 DEF Got, EmptyBlock
  <2>3. QED
    BY <2>1, <2>2, <1>8, <1>9, <1>10 DEF Between
<1>12. QED
  BY <1>1, <1>2, <1>3, <1>4, <1>6, <1>11 DEF IInv
-----------------------------------------------------------------------------
(* drain                                                                   *)
LEMMA DrainTakeStep ==
  ASSUME OutputTypeOK, OutputOnce, NEW out, OutputFlow(out), DrainTake, UNCHANGED program
  PROVE  OutputTypeOK' /\ OutputOnce' /\ \E later : OutputFlow(later)'
<1>0. /\ drainer = "take" /\ draining = NoBuf
      /\ UNCHANGED <<outFree, outMemory, blk, writeErr, outClosed, sink, accepted, program>>
  BY DEF DrainTake, OutputOnce
<1>m. UNCHANGED Mine
  BY <1>0 DEF Mine
<1>1. CASE queue # <<>> /\ queue' = Tail(queue)
  <2>0. /\ draining' = Head(queue)
        /\ drainer' = IF writeErr THEN "free" ELSE "write"
    BY <1>1 DEF DrainTake
  <2>1. /\ queue \in Seq(OutBuffers) /\ draining' = queue[1] /\ Len(queue) >= 1
        /\ queue' \in Seq(OutBuffers) /\ Len(queue') = Len(queue) - 1
        /\ \A i \in 1 .. Len(queue') : queue'[i] = queue[i + 1]
    BY <1>1, <2>0 DEF OutputTypeOK
  <2>2. queue[1] \in OutBuffers /\ queue[1] # NoBuf
    BY <2>1, AsyncWriterAssumption DEF OutBuffers, NoBuf
  <2>3. OutputTypeOK'
    BY <1>0, <2>0, <2>1, <2>2 DEF OutputTypeOK, OutBuffers
  <2>4. OutputOnce'
    <3>1. drainer' \in {"write", "free"} /\ draining' # NoBuf
      BY <2>0, <2>1, <2>2
    <3>2. /\ 1 \in 1 .. Len(queue)
          /\ \A i \in 1 .. Len(queue') : i + 1 \in 1 .. Len(queue) /\ i + 1 # 1
      BY <2>1
    <3>3. \A i, j \in 1 .. Len(queue') : queue'[i] = queue'[j] => i = j
      <4>1. ASSUME NEW i \in 1 .. Len(queue'), NEW j \in 1 .. Len(queue'), queue'[i] = queue'[j]
            PROVE  i + 1 = j + 1
        BY <2>1, <3>2, <4>1, Zenon DEF OutputOnce
      <4>2. QED
        BY <4>1
    <3>4. \A i \in 1 .. Len(outFree), j \in 1 .. Len(queue') : outFree[i] # queue'[j]
      BY <2>1, <3>2, Zenon DEF OutputOnce
    <3>5. /\ draining' # blk
          /\ \A i \in 1 .. Len(outFree) : outFree[i] # draining'
          /\ \A i \in 1 .. Len(queue') : queue'[i] # draining'
      <4>1. draining' # blk
        <5>1. CASE blk = NoBuf
          BY <3>1, <5>1
        <5>2. CASE blk # NoBuf
          BY <2>1, <3>2, <5>2, Zenon DEF OutputOnce
        <5>3. QED
          BY <5>1, <5>2
      <4>2. \A i \in 1 .. Len(outFree) : outFree[i] # draining'
        BY <2>1, <3>2, Zenon DEF OutputOnce
      <4>3. \A i \in 1 .. Len(queue') : queue'[i] # draining'
        BY <2>1, <3>2, Zenon DEF OutputOnce
      <4>4. QED
        BY <4>1, <4>2, <4>3
    <3>6. blk' # NoBuf =>
            /\ \A i \in 1 .. Len(outFree') : outFree'[i] # blk'
            /\ \A i \in 1 .. Len(queue') : queue'[i] # blk'
      BY <1>0, <2>1, <3>2, Zenon DEF OutputOnce
    <3>7. \A i, j \in 1 .. Len(outFree') : outFree'[i] = outFree'[j] => i = j
      BY <1>0, Zenon DEF OutputOnce
    <3>8. QED
      BY <1>0, <3>1, <3>3, <3>4, <3>5, <3>6, <3>7, Zenon DEF OutputOnce
  <2>5. PICK later : /\ Chain(later, Tail(queue), outMemory)
                     /\ later[1] = out[2] /\ End(later, Tail(queue)) = End(out, queue)
    BY <1>1, <2>1, ChainTail DEF OutputFlow
  <2>6. /\ Chain(later, queue, outMemory)'
        /\ later[1] = out[2] /\ End(later, queue') = End(out, queue)
    BY <1>0, <1>1, <2>5, Zenon
  <2>7. Draining(later[1])'
    <3>1. /\ Follows(outMemory[queue[1]], out[1])
          /\ out[2] = out[1] + Len(outMemory[queue[1]])
          /\ out[1] <= out[2] /\ out[1] \in Nat /\ out[2] \in Nat
      BY <2>1 DEF OutputFlow, Chain
    <3>2. Draining(out[1])
      BY DEF OutputFlow
    <3>3. Len(sink) \in Nat /\ writeErr \in BOOLEAN
      BY DEF OutputTypeOK
    <3>4. drainer' # "done" /\ draining' = queue[1] /\ outMemory' = outMemory
      BY <1>0, <2>0, <2>1
    <3>5. CASE writeErr
      <4>1. drainer' = "free"
        BY <2>0, <3>5
      <4>2. Len(sink) <= out[2]
        BY <3>1, <3>2, <3>3 DEF Draining
      <4>3. QED
        BY <1>0, <2>6, <3>2, <3>4, <3>5, <4>1, <4>2, Zenon DEF Draining
    <3>6. CASE ~writeErr
      <4>1. drainer' = "write"
        BY <2>0, <3>6
      <4>2. out[1] = Len(sink)
        BY <1>0, <3>2, <3>3, <3>6 DEF Draining
      <4>3. Len(sink) <= out[2]
        BY <3>1, <4>2
      <4>4. QED
        BY <1>0, <2>6, <3>1, <3>2, <3>4, <3>6, <4>1, <4>2, <4>3, Zenon DEF Draining
    <3>7. QED
      BY <3>5, <3>6
  <2>e. PICK end : end = End(out, queue)
    OBVIOUS
  <2>8. Accepting(end)'
    BY <1>0, <1>m, <2>e DEF OutputFlow, Accepting
  <2>9. OutputFlow(later)'
    BY <2>6, <2>7, <2>8, <2>e, Zenon DEF OutputFlow
  <2>10. QED
    BY <2>3, <2>4, <2>9
<1>2. CASE queue = <<>> /\ outClosed /\ drainer' = "done" /\ UNCHANGED <<draining, queue>>
  <2>1. OutputTypeOK' /\ OutputOnce'
    BY <1>0, <1>2 DEF OutputTypeOK, OutputOnce
  <2>2. Draining(out[1])'
    BY <1>0, <1>2 DEF OutputFlow, Draining
  <2>3. OutputFlow(out)'
    BY <1>0, <1>m, <1>2, <2>2 DEF OutputFlow, Accepting
  <2>4. QED
    BY <2>1, <2>3
<1>3. QED
  BY <1>1, <1>2 DEF DrainTake

LEMMA DrainWriteStep ==
  ASSUME OutputTypeOK, OutputOnce, NEW out, OutputFlow(out), DrainWrite, UNCHANGED program
  PROVE  /\ OutputTypeOK' /\ OutputOnce' /\ \E later : OutputFlow(later)'
         /\ Len(sink) <= Len(sink')
<1>0. /\ drainer = "write" /\ draining # NoBuf /\ drainer' = "free"
      /\ UNCHANGED <<draining, queue, outFree, outMemory, blk, outClosed, accepted, program>>
  BY DEF DrainWrite, OutputOnce
<1>m. UNCHANGED Mine
  BY <1>0 DEF Mine
<1>1. PICK len : len = Len(outMemory[draining])
  OBVIOUS
<1>2. PICK n \in 0 .. len : /\ sink' = sink \o SubSeq(outMemory[draining], 1, n)
                            /\ writeErr' = (n < len)
  BY <1>1 DEF DrainWrite
<1>3. PICK s : s = Len(sink)
  OBVIOUS
<1>4. /\ outMemory[draining] \in Seq(Nat) /\ len \in Nat
      /\ s \in Nat /\ out[1] \in Nat
  <2>1. draining \in OutBuffers /\ 1 \in 1 .. Len(queue) + 1
    BY <1>0, AsyncWriterAssumption DEF OutputTypeOK, OutBuffers, NoBuf
  <2>2. outMemory[draining] \in Seq(Nat) /\ sink \in Seq(Nat)
    BY <2>1 DEF OutputTypeOK
  <2>3. out[1] \in Nat
    BY <2>1 DEF OutputFlow, Chain
  <2>4. QED
    BY <1>1, <1>3, <2>2, <2>3
<1>5. /\ Follows(outMemory[draining], s) /\ Follows(sink, 0) /\ out[1] = s + len /\ ~writeErr
  BY <1>0, <1>1, <1>3 DEF OutputFlow, Draining
<1>6. PICK t : t = SubSeq(outMemory[draining], 1, n)
  OBVIOUS
<1>7. t \in Seq(Nat) /\ Len(t) = n /\ Follows(t, s)
  <2>0. PICK m : m = outMemory[draining]
    OBVIOUS
  <2>1. 0 \in 0 .. len /\ n \in 0 .. len - 0 /\ 0 + 1 = 1 /\ 0 + n = n /\ s + 0 = s
    BY <1>4
  <2>2. /\ m \in Seq(Nat) /\ Follows(m, s) /\ len = Len(m) /\ s \in Nat
        /\ t = SubSeq(m, 0 + 1, 0 + n)
    BY <2>0, <2>1, <1>1, <1>4, <1>5, <1>6
  <2>3. t \in Seq(Nat) /\ Len(t) = n /\ Follows(t, s + 0)
    BY <2>1, <2>2, FollowsSub
  <2>4. QED
    BY <2>1, <2>3
<1>8. sink' \in Seq(Nat) /\ Len(sink') = s + n /\ Follows(sink', 0)
  <2>1. sink \in Seq(Nat) /\ 0 + s = s
    BY <1>4 DEF OutputTypeOK
  <2>2. sink' = sink \o t
    BY <1>2, <1>6
  <2>3. s + n = Len(sink) + Len(t) /\ 0 \in Nat
    BY <1>3, <1>7
  <2>4. QED
    BY <2>2, <2>3, <1>3, <1>5, <1>6, <1>7, <2>1, FollowsConcat, Zenon
<1>9. OutputTypeOK' /\ OutputOnce'
  BY <1>0, <1>2, <1>8 DEF OutputTypeOK, OutputOnce
<1>10. Draining(out[1])'
  <2>0. (writeErr' => n < len) /\ (~writeErr' => ~(n < len))
    BY <1>2, Zenon
  <2>1. ~writeErr' => n = len
    BY <1>4, <2>0
  <2>2. /\ s + n <= s + len /\ drainer' # "write" /\ drainer' # "done"
        /\ ~writeErr' => s + len = s + n + 0
    BY <1>0, <1>4, <2>1
  <2>3. QED
    BY <1>0, <1>5, <1>8, <2>2 DEF Draining
<1>11. OutputFlow(out)'
  BY <1>0, <1>m, <1>10 DEF OutputFlow, Accepting
<1>12. QED
  BY <1>3, <1>4, <1>8, <1>9, <1>11

LEMMA DrainFreeStep ==
  ASSUME OutputTypeOK, OutputOnce, NEW out, OutputFlow(out), DrainFree, UNCHANGED program
  PROVE  OutputTypeOK' /\ OutputOnce' /\ \E later : OutputFlow(later)'
<1>0. /\ drainer = "free" /\ draining # NoBuf /\ drainer' = "take" /\ draining' = NoBuf
      /\ UNCHANGED <<queue, outMemory, blk, writeErr, outClosed, sink, accepted, program>>
  BY DEF DrainFree, OutputOnce
<1>m. UNCHANGED Mine
  BY <1>0 DEF Mine
<1>1. draining \in OutBuffers /\ outFree \in Seq(OutBuffers)
  BY <1>0 DEF OutputTypeOK, OutBuffers, NoBuf
<1>2. OutputTypeOK' /\ OutputOnce'
  <2>0. draining' \in 0 .. OutDepth
    BY <1>0, AsyncWriterAssumption DEF NoBuf
  <2>1. CASE outFree' = outFree
    BY <1>0, <2>0, <2>1, Zenon DEF OutputTypeOK, OutputOnce, NoBuf
  <2>2. CASE outFree' = Append(outFree, draining)
    <3>1. /\ outFree' \in Seq(OutBuffers)
          /\ Len(outFree') = Len(outFree) + 1
          /\ \A i \in 1 .. Len(outFree) : outFree'[i] = outFree[i]
          /\ outFree'[Len(outFree) + 1] = draining
      BY <1>1, <2>2
    <3>2. OutputTypeOK'
      BY <1>0, <2>0, <3>1, Zenon DEF OutputTypeOK
    <3>3. OutputOnce'
      BY <1>0, <1>1, <3>1 DEF OutputOnce
    <3>4. QED
      BY <3>2, <3>3
  <2>3. QED
    BY <2>1, <2>2 DEF DrainFree
<1>3. Draining(out[1])'
  BY <1>0 DEF OutputFlow, Draining
<1>4. OutputFlow(out)'
  BY <1>0, <1>m, <1>3 DEF OutputFlow, Accepting
<1>5. QED
  BY <1>2, <1>4
-----------------------------------------------------------------------------
(* The calls of the writer.                                                *)
LEMMA TakeStep ==
  ASSUME OutputTypeOK, OutputOnce, NEW out, OutputFlow(out), WriteTake, UNCHANGED program
  PROVE  /\ OutputTypeOK' /\ OutputOnce' /\ OutputFlow(out)'
         /\ Mine = <<>> /\ Mine' = <<>> /\ blk' # NoBuf
<1>0. /\ blk = NoBuf /\ outFree # <<>> /\ blk' = Head(outFree) /\ outFree' = Tail(outFree)
      /\ outMemory' = [outMemory EXCEPT ![Head(outFree)] = <<>>]
      /\ UNCHANGED <<drainer, draining, writeErr, sink, queue, outClosed, accepted, program>>
  BY DEF WriteTake, drainVars
<1>1. /\ outFree \in Seq(OutBuffers) /\ outMemory \in [OutBuffers -> Seq(Nat)]
      /\ queue \in Seq(OutBuffers)
  BY DEF OutputTypeOK
<1>2. /\ blk' = outFree[1] /\ blk' \in OutBuffers /\ Len(outFree) >= 1
      /\ outFree' \in Seq(OutBuffers) /\ Len(outFree') = Len(outFree) - 1
      /\ \A i \in 1 .. Len(outFree') : outFree'[i] = outFree[i + 1]
  BY <1>0, <1>1
<1>3. blk' # NoBuf /\ blk' \in 0 .. OutDepth
  BY <1>2, AsyncWriterAssumption DEF OutBuffers, NoBuf
<1>4. outMemory' \in [OutBuffers -> Seq(Nat)] /\ outMemory'[blk'] = <<>>
  BY <1>0, <1>1, <1>2
<1>5. OutputTypeOK'
  BY <1>0, <1>2, <1>3, <1>4, Zenon DEF OutputTypeOK
<1>6. /\ draining # NoBuf => draining # blk'
      /\ \A i \in 1 .. Len(queue) : queue[i] # blk'
  BY <1>2 DEF OutputOnce
<1>7. OutputOnce'
  BY <1>0, <1>2, <1>6 DEF OutputOnce
<1>8. Mine = <<>> /\ Mine' = <<>>
  BY <1>0, <1>3, <1>4 DEF Mine
<1>9. Chain(out, queue, outMemory)'
  <2>1. Chain(out, queue, [outMemory EXCEPT ![blk'] = <<>>])
    BY <1>1, <1>6, ChainMemory DEF OutputFlow
  <2>2. QED
    BY <1>0, <2>1, Zenon
<1>10. Draining(out[1])'
  <2>1. drainer = "write" => outMemory'[draining] = outMemory[draining]
    BY <1>0, <1>1, <1>6 DEF OutputOnce
  <2>2. QED
    BY <1>0, <2>1, Zenon DEF OutputFlow, Draining
<1>e. PICK end : end = End(out, queue)
  OBVIOUS
<1>11. Accepting(end)'
  BY <1>0, <1>e, <1>8, Zenon DEF OutputFlow, Accepting
<1>12. OutputFlow(out)'
  BY <1>0, <1>e, <1>9, <1>10, <1>11, Zenon DEF OutputFlow
<1>13. QED
  BY <1>3, <1>5, <1>7, <1>8, <1>12

\* the block of the conversion gets content s, and stays with it
LEMMA FillStep ==
  ASSUME OutputTypeOK, OutputOnce, NEW out, OutputFlow(out),
         blk # NoBuf,
         UNCHANGED <<drainer, draining, writeErr, sink, queue, outFree, blk, outClosed, program>>,
         NEW s \in Seq(Nat), outMemory' = [outMemory EXCEPT ![blk] = s],
         Follows(s, End(out, queue)),
         accepted' \in Seq(Nat), Follows(accepted', 0),
         Len(accepted') = End(out, queue) + IF program = "ts2mmt" THEN Len(s) ELSE 0
  PROVE  OutputTypeOK' /\ OutputOnce' /\ OutputFlow(out)' /\ Mine' = s
<1>1. /\ outMemory \in [OutBuffers -> Seq(Nat)] /\ queue \in Seq(OutBuffers) /\ blk \in OutBuffers
  BY AsyncWriterAssumption DEF OutputTypeOK, OutBuffers, NoBuf
<1>2. /\ outMemory' \in [OutBuffers -> Seq(Nat)] /\ outMemory'[blk] = s
      /\ \A b \in OutBuffers : b # blk => outMemory'[b] = outMemory[b]
  BY <1>1
<1>3. OutputTypeOK'
  BY <1>2, Zenon DEF OutputTypeOK
<1>4. OutputOnce'
  BY Zenon DEF OutputOnce
<1>5. Mine' = s
  BY <1>2 DEF Mine
<1>6. Chain(out, queue, outMemory)'
  <2>1. Chain(out, queue, [outMemory EXCEPT ![blk] = s])
    BY <1>1, ChainMemory DEF OutputFlow, OutputOnce
  <2>2. QED
    BY <2>1, Zenon
<1>7. Draining(out[1])'
  <2>1. drainer = "write" => outMemory'[draining] = outMemory[draining]
    <3>1. drainer = "write" => draining \in OutBuffers /\ draining # blk
      BY AsyncWriterAssumption DEF OutputTypeOK, OutputOnce, OutBuffers, NoBuf
    <3>2. QED
      BY <1>2, <3>1
  <2>2. QED
    BY <2>1, Zenon DEF OutputFlow, Draining
<1>e. PICK end : end = End(out, queue)
  OBVIOUS
<1>8. Accepting(end)'
  BY <1>e, <1>5, Zenon DEF Accepting
<1>9. OutputFlow(out)'
  BY <1>e, <1>6, <1>7, <1>8, Zenon DEF OutputFlow
<1>10. QED
  BY <1>3, <1>4, <1>5, <1>9

\* the block of the conversion gets content s, and is sent
LEMMA SendStep ==
  ASSUME OutputTypeOK, OutputOnce, NEW out, OutputFlow(out),
         blk # NoBuf, blk' = NoBuf, queue' = Append(queue, blk), drainer # "done",
         outClosed' \in BOOLEAN,
         UNCHANGED <<drainer, draining, writeErr, sink, outFree, program>>,
         NEW s \in Seq(Nat), outMemory' = [outMemory EXCEPT ![blk] = s],
         Follows(s, End(out, queue)),
         accepted' \in Seq(Nat), Follows(accepted', 0),
         Len(accepted') = End(out, queue) + Len(s)
  PROVE  OutputTypeOK' /\ OutputOnce' /\ (\E later : OutputFlow(later)') /\ Mine' = <<>>
<1>1. /\ outMemory \in [OutBuffers -> Seq(Nat)] /\ queue \in Seq(OutBuffers) /\ blk \in OutBuffers
  BY AsyncWriterAssumption DEF OutputTypeOK, OutBuffers, NoBuf
<1>2. /\ outMemory' \in [OutBuffers -> Seq(Nat)] /\ outMemory'[blk] = s
      /\ \A b \in OutBuffers : b # blk => outMemory'[b] = outMemory[b]
  BY <1>1
<1>3. /\ queue' \in Seq(OutBuffers) /\ Len(queue') = Len(queue) + 1
      /\ \A i \in 1 .. Len(queue) : queue'[i] = queue[i]
      /\ queue'[Len(queue) + 1] = blk
  BY <1>1
<1>4. blk' \in 0 .. OutDepth
  BY AsyncWriterAssumption DEF NoBuf
<1>5. OutputTypeOK'
  BY <1>2, <1>3, <1>4, Zenon DEF OutputTypeOK
<1>6. OutputOnce'
  <2>1. \A i \in 1 .. Len(queue') :
          (i \in 1 .. Len(queue) /\ queue'[i] = queue[i]) \/ (i = Len(queue) + 1 /\ queue'[i] = blk)
    <3>1. Len(queue) \in Nat /\ Len(queue') = Len(queue) + 1
      BY <1>1, <1>3
    <3>2. ASSUME NEW i \in 1 .. Len(queue')
          PROVE  (i \in 1 .. Len(queue) /\ queue'[i] = queue[i]) \/ (i = Len(queue) + 1 /\ queue'[i] = blk)
      <4>1. i \in 1 .. Len(queue) \/ i = Len(queue) + 1
        BY <3>1
      <4>2. i \in 1 .. Len(queue) => queue'[i] = queue[i]
        BY <1>3, Zenon
      <4>3. i = Len(queue) + 1 => queue'[i] = blk
        BY <1>3
      <4>4. QED
        BY <4>1, <4>2, <4>3
    <3>3. QED
      BY <3>2, Zenon
  <2>2. /\ \A i \in 1 .. Len(queue) : queue[i] # blk
        /\ \A i \in 1 .. Len(outFree) : outFree[i] # blk
        /\ draining # blk
    BY DEF OutputOnce
  <2>3. \A i, j \in 1 .. Len(queue') : queue'[i] = queue'[j] => i = j
    BY <2>1, <2>2 DEF OutputOnce
  <2>4. \A i \in 1 .. Len(outFree), j \in 1 .. Len(queue') : outFree[i] # queue'[j]
    BY <2>1, <2>2 DEF OutputOnce
  <2>5. draining # NoBuf =>
          /\ draining # blk'
          /\ \A i \in 1 .. Len(queue') : queue'[i] # draining
    BY <2>1, <2>2 DEF OutputOnce
  <2>6. QED
    BY <2>3, <2>4, <2>5, Zenon DEF OutputOnce
<1>7. Mine' = <<>>
  BY DEF Mine
<1>8. PICK memory : memory = [outMemory EXCEPT ![blk] = s]
  OBVIOUS
<1>9. memory \in [OutBuffers -> Seq(Nat)] /\ memory[blk] = s
  BY <1>1, <1>8
<1>10. Chain(out, queue, memory)
  BY <1>1, <1>8, ChainMemory DEF OutputFlow, OutputOnce
<1>11. PICK later : /\ Chain(later, Append(queue, blk), memory)
                    /\ later[1] = out[1]
                    /\ End(later, Append(queue, blk)) = End(out, queue) + Len(s)
  <2>1. ASSUME NEW q \in Seq(OutBuffers), NEW b \in OutBuffers, q = queue, b = blk
        PROVE  \E later : /\ Chain(later, Append(q, b), memory)
                          /\ later[1] = out[1]
                          /\ End(later, Append(q, b)) = End(out, q) + Len(s)
    <3>1. memory[b] = s /\ Chain(out, q, memory) /\ Follows(s, End(out, q))
      BY <1>9, <1>10, <2>1
    <3>2. QED
      BY <2>1, <3>1, ChainAppend, SMTT(60)
  <2>2. QED
    BY <1>1, <2>1, Zenon
<1>12. Chain(later, queue, outMemory)'
  BY <1>8, <1>11, Zenon
<1>13. Draining(later[1])'
  <2>1. drainer = "write" => outMemory'[draining] = outMemory[draining]
    <3>1. drainer = "write" => draining \in OutBuffers /\ draining # blk
      BY AsyncWriterAssumption DEF OutputTypeOK, OutputOnce, OutBuffers, NoBuf
    <3>2. QED
      BY <1>2, <3>1
  <2>2. QED
    BY <1>11, <2>1, Zenon DEF OutputFlow, Draining
<1>e. PICK end : end = End(later, queue')
  OBVIOUS
<1>14. end = End(out, queue) + Len(s)
  BY <1>e, <1>11
<1>15. end = Len(accepted') + 0 /\ Len(accepted') = end + 0 /\ Len(<<>>) = 0
  BY <1>14
<1>16. Accepting(end)'
  BY <1>7, <1>15, FollowsEmpty DEF Accepting
<1>17. OutputFlow(later)'
  BY <1>e, <1>12, <1>13, <1>16, Zenon DEF OutputFlow
<1>18. QED
  BY <1>5, <1>6, <1>7, <1>17
-----------------------------------------------------------------------------
(* fill                                                                    *)

\* what the steps of fill leave as it is, and why an error is not sent yet
LEMMA BeforeTheError ==
  ASSUME InputTypeOK, NEW in, InputFlow(in), filler # "done"
  PROVE  /\ readErr = "none"
         /\ \A i \in 1 .. Len(ahead) : ahead[i].err = "none" /\ ahead[i].buf \in InBuffers
         /\ Len(ahead) \in Nat
         /\ 1 \in 1 .. Len(ahead) + 1 /\ Len(ahead) + 1 \in 1 .. Len(ahead) + 1
<1>1. readErr = "none"
  BY Zenon DEF InputFlow, ErrorIsLast
<1>2. Len(ahead) \in Nat
  BY DEF InputTypeOK
<1>3. ASSUME NEW i \in 1 .. Len(ahead)
      PROVE  ahead[i].err = "none" /\ ahead[i].buf \in InBuffers
  <2>1. Sent(ahead[i], in[i], in[i + 1])
    BY Zenon DEF InputFlow
  <2>2. ahead[i].err = "none" /\ ahead[i].buf # 0
    BY <2>1, Zenon DEF Sent
  <2>3. ahead[i] \in InBlocks
    BY DEF InputTypeOK
  <2>4. QED
    BY <2>2, <2>3, ReadAheadAssumption DEF InBlocks, InBuffers
<1>4. QED
  BY <1>1, <1>2, <1>3

LEMMA FillTakeStep ==
  ASSUME InputTypeOK, InputOnce, NEW in, InputFlow(in), FillTake
  PROVE  InputTypeOK' /\ InputOnce' /\ InputFlow(in)'
<1>0. /\ filler = "take" /\ spare # <<>> /\ filler' = "read"
      /\ filled' = [EmptyBlock EXCEPT !.buf = Head(spare)] /\ spare' = Tail(spare)
      /\ UNCHANGED <<pos, ahead, inMemory, rest, readErr, stop>>
  BY DEF FillTake
<1>1. spare \in Seq(InBuffers)
  BY DEF InputTypeOK
<1>2. /\ Head(spare) = spare[1] /\ spare[1] \in InBuffers /\ Len(spare) >= 1
      /\ spare' \in Seq(InBuffers) /\ Len(spare') = Len(spare) - 1
      /\ \A i \in 1 .. Len(spare') : spare'[i] = spare[i + 1]
  BY <1>0, <1>1
<1>3. filled' = [buf |-> spare[1], from |-> 0, to |-> 0, err |-> "none"]
  BY <1>0, <1>2 DEF EmptyBlock
<1>4. /\ filled'.buf = spare[1] /\ filled'.from = 0 /\ filled'.err = "none"
      /\ filled' \in InBlocks /\ spare[1] # 0
  BY <1>2, <1>3, ReadAheadAssumption DEF InBlocks, InBuffers, Errors
<1>5. InputTypeOK'
  BY <1>0, <1>2, <1>4, Zenon DEF InputTypeOK
<1>6. InputOnce'
  BY <1>0, <1>2, <1>4 DEF InputOnce
<1>7. InputFlow(in)'
  <2>1. \A i \in 1 .. Len(ahead) : Sent(ahead[i], in[i], in[i + 1])'
    <3>1. ASSUME NEW i \in 1 .. Len(ahead)
          PROVE  Sent(ahead[i], in[i], in[i + 1])'
      <4>1. Sent(ahead[i], in[i], in[i + 1]) /\ ahead[i].err = "none"
        BY <1>0, BeforeTheError DEF InputFlow
      <4>2. QED
        BY <1>0, <4>1, Zenon DEF Sent
    <3>2. QED
      BY <3>1
  <2>e. PICK end : end = in[Len(ahead) + 1]
    OBVIOUS
  <2>2. Filling(end)'
    BY <1>0, <1>4, <2>e, Zenon DEF InputFlow, Filling
  <2>3. ErrorIsLast' /\ Resting(in[1])'
    BY <1>0, Zenon DEF InputFlow, ErrorIsLast, Resting
  <2>4. QED
    BY <1>0, <2>1, <2>2, <2>3, <2>e, Zenon DEF InputFlow
<1>8. QED
  BY <1>5, <1>6, <1>7

LEMMA FillReadStep ==
  ASSUME InputTypeOK, InputOnce, NEW in, InputFlow(in), FillRead
  PROVE  InputTypeOK' /\ InputOnce' /\ InputFlow(in)'
<1>0. /\ filler = "read" /\ UNCHANGED <<ahead, spare, rest, readErr, stop>>
  BY DEF FillRead
<1>1. PICK n \in 0 .. InBlock, e \in {"none", "EOF", "failed"} :
        /\ pos + n <= Total
        /\ n > 0 \/ e # "none"
        /\ e = "EOF" => pos + n = Total
        /\ inMemory' = [inMemory EXCEPT ![filled.buf] = [i \in 1 .. n |-> pos + i]]
        /\ filled' = [filled EXCEPT !.to = n, !.err = e]
        /\ filler' = IF n > 0 THEN "block" ELSE "error"
        /\ pos' = pos + n
  BY Zenon DEF FillRead
<1>2. /\ filled \in InBlocks /\ filled.buf \in InBuffers /\ filled.from = 0
      /\ pos \in Nat /\ n \in Nat /\ Total \in Nat
      /\ inMemory \in [InBuffers -> Seq(Nat)]
  <2>1. filled.buf # 0 /\ filled.from = 0
    BY <1>0, Zenon DEF InputOnce, InputFlow, Filling
  <2>2. filled \in InBlocks /\ pos \in Nat /\ inMemory \in [InBuffers -> Seq(Nat)]
    BY ReadAheadAssumption DEF InputTypeOK
  <2>3. n \in Nat /\ Total \in Nat
    BY ReadAheadAssumption
  <2>4. QED
    BY <2>1, <2>2, <2>3, ReadAheadAssumption DEF InBlocks, InBuffers
<1>3. PICK s : s = [i \in 1 .. n |-> pos + i]
  OBVIOUS
<1>4. s \in Seq(Nat) /\ Len(s) = n /\ Follows(s, pos)
  BY <1>2, <1>3 DEF Follows
<1>5. /\ inMemory' \in [InBuffers -> Seq(Nat)] /\ inMemory'[filled.buf] = s
      /\ \A b \in InBuffers : b # filled.buf => inMemory'[b] = inMemory[b]
  BY <1>1, <1>2, <1>3, <1>4
<1>6. /\ filled'.buf = filled.buf /\ filled'.from = 0 /\ filled'.to = n /\ filled'.err = e
      /\ filled' \in InBlocks
  BY <1>1, <1>2 DEF InBlocks, Errors
<1>7. pos' \in 0 .. Total /\ filler' \in {"block", "error"} /\ pos' = pos + n
  BY <1>1, <1>2
<1>8. InputTypeOK'
  BY <1>0, <1>5, <1>6, <1>7, Zenon DEF InputTypeOK
<1>9. InputOnce'
  <2>1. /\ filled.buf # 0 /\ filled.buf # rest.buf
        /\ \A i \in 1 .. Len(spare) : spare[i] # filled.buf
        /\ \A i \in 1 .. Len(ahead) : ahead[i].buf # filled.buf
    BY <1>0, Zenon DEF InputOnce
  <2>2. QED
    BY <1>0, <1>6, <2>1 DEF InputOnce
<1>10. InputFlow(in)'
  <2>0. Len(ahead) \in Nat /\ filler # "done" /\ filler' # "done" /\ readErr = "none"
    BY <1>0, <1>7, BeforeTheError
  <2>1. ASSUME NEW i \in 1 .. Len(ahead)
        PROVE  Sent(ahead[i], in[i], in[i + 1])'
    <3>1. Sent(ahead[i], in[i], in[i + 1]) /\ ahead[i].err = "none" /\ ahead[i].buf \in InBuffers
      BY <1>0, BeforeTheError DEF InputFlow
    <3>2. ahead[i].buf # filled.buf
      BY <1>0, Zenon DEF InputOnce
    <3>3. inMemory'[ahead[i].buf] = inMemory[ahead[i].buf]
      BY <1>5, <3>1, <3>2
    <3>4. QED
      BY <1>0, <3>1, <3>3, Zenon DEF Sent
  <2>e. PICK end : end = in[Len(ahead) + 1]
    OBVIOUS
  <2>2. end = pos
    BY <1>0, <2>e DEF InputFlow, Filling
  <2>3. Filling(end)'
    <3>1. /\ filler' = "block" => n > 0
          /\ filler' = "error" => n = 0 /\ e # "none"
          /\ filler' # "read"
      BY <1>1, <1>2
    <3>2. pos + 0 = pos
      BY <1>2
    <3>3. filler' # "block" => end = pos'
      BY <1>7, <2>2, <3>1, <3>2
    <3>4. e = "EOF" => pos' = Total
      BY <1>1
    <3>5. QED
      BY <1>4, <1>5, <1>6, <1>7, <2>2, <3>1, <3>3, <3>4, Zenon DEF Filling
  <2>4. Resting(in[1])'
    <3>1. rest \in InBlocks
      BY DEF InputTypeOK
    <3>2. rest.buf # 0 => rest.buf \in InBuffers /\ rest.buf # filled.buf
      BY <1>0, <3>1, ReadAheadAssumption DEF InBlocks, InBuffers, InputOnce
    <3>3. rest.buf # 0 => inMemory'[rest.buf] = inMemory[rest.buf]
      BY <1>5, <3>2
    <3>4. QED
      BY <1>0, <3>3, Zenon DEF InputFlow, Resting
  <2>5. ErrorIsLast'
    BY <1>0, <2>0, Zenon DEF InputFlow, ErrorIsLast
  <2>6. \A i \in 1 .. Len(ahead) + 1 : in[i] <= pos'
    <3>1. ASSUME NEW i \in 1 .. Len(ahead) + 1
          PROVE  in[i] <= pos'
      <4>1. in[i] <= pos /\ in[i] \in Nat
        BY Zenon DEF InputFlow
      <4>2. QED
        BY <1>2, <1>7, <4>1
    <3>2. QED
      BY <3>1
  <2>7. QED
    BY <1>0, <2>1, <2>3, <2>4, <2>5, <2>6, <2>e, Zenon DEF InputFlow
<1>11. QED
  BY <1>8, <1>9, <1>10

LEMMA Extended ==
  ASSUME NEW L \in Nat, NEW in \in [1 .. L + 1 -> Nat], NEW p \in Nat
  PROVE  \E later \in [1 .. L + 2 -> Nat] :
           (\A i \in 1 .. L + 1 : later[i] = in[i]) /\ later[L + 2] = p
<1>1. PICK later : later = [i \in 1 .. L + 2 |-> IF i <= L + 1 THEN in[i] ELSE p]
  OBVIOUS
<1>2. ASSUME NEW i \in 1 .. L + 1
      PROVE  later[i] = in[i] /\ later[i] \in Nat
  <2>1. i \in 1 .. L + 2 /\ i <= L + 1
    OBVIOUS
  <2>2. QED
    BY <1>1, <2>1
<1>3. later[L + 2] = p
  BY <1>1
<1>4. \A i \in 1 .. L + 2 : later[i] \in Nat
  BY <1>2, <1>3
<1>5. QED
  BY <1>1, <1>2, <1>3, <1>4

\* block b is sent after the others, and the blocks end at pos
LEMMA SentStep ==
  ASSUME InputTypeOK, NEW in, InputFlow(in), filler # "done",
         NEW end, end = in[Len(ahead) + 1],
         NEW b \in InBlocks, ahead' = Append(ahead, b),
         UNCHANGED <<pos, spare, inMemory, rest, readErr, stop, filled>>,
         filler' \in {"take", "error", "done"},
         Sent(b, end, pos)',
         filler' = "error" => filled.err # "none" /\ (filled.err = "EOF" => pos = Total),
         b.err # "none" <=> filler' = "done"
  PROVE  InputTypeOK' /\ \E later : InputFlow(later)' /\ later[1] = in[1]
<1>1. ahead \in Seq(InBlocks) /\ pos \in Nat
  BY ReadAheadAssumption DEF InputTypeOK
<1>2. /\ ahead' \in Seq(InBlocks) /\ Len(ahead') = Len(ahead) + 1 /\ Len(ahead) \in Nat
      /\ \A i \in 1 .. Len(ahead) : ahead'[i] = ahead[i]
      /\ ahead'[Len(ahead) + 1] = b /\ ahead' # <<>>
  BY <1>1
<1>3. InputTypeOK'
  BY <1>2, Zenon DEF InputTypeOK
<1>4. in \in [1 .. Len(ahead) + 1 -> Nat]
  BY Zenon DEF InputFlow
<1>5. PICK later \in [1 .. Len(ahead) + 2 -> Nat] :
        (\A i \in 1 .. Len(ahead) + 1 : later[i] = in[i]) /\ later[Len(ahead) + 2] = pos
  BY <1>1, <1>2, <1>4, Extended
<1>6. later \in [1 .. Len(ahead') + 1 -> Nat]
  BY <1>2
<1>7. ASSUME NEW i \in 1 .. Len(ahead') + 1
      PROVE  later[i] <= pos'
  <2>1. CASE i \in 1 .. Len(ahead) + 1
    BY <1>5, <2>1 DEF InputFlow
  <2>2. CASE i = Len(ahead) + 2
    BY <1>1, <1>5, <2>2
  <2>3. QED
    BY <1>2, <2>1, <2>2
<1>8. ASSUME NEW i \in 1 .. Len(ahead')
      PROVE  Sent(ahead[i], later[i], later[i + 1])'
  <2>1. CASE i \in 1 .. Len(ahead)
    <3>1. Sent(ahead[i], in[i], in[i + 1]) /\ ahead[i].err = "none"
      BY <2>1, BeforeTheError DEF InputFlow
    <3>2. Sent(ahead[i], in[i], in[i + 1])'
      BY <1>2, <2>1, <3>1, Zenon DEF Sent
    <3>3. i \in 1 .. Len(ahead) + 1 /\ i + 1 \in 1 .. Len(ahead) + 1
      BY <1>2, <2>1
    <3>4. later[i] = in[i] /\ later[i + 1] = in[i + 1]
      BY <1>5, <3>3, Zenon
    <3>5. QED
      BY <3>2, <3>4
  <2>2. CASE i = Len(ahead) + 1
    <3>1. later[i] = end /\ later[i + 1] = pos' /\ ahead'[i] = b
      BY <1>2, <1>5, <2>2
    <3>2. QED
      BY <3>1, Zenon
  <2>3. QED
    BY <1>2, <2>1, <2>2
<1>e. PICK last : last = later[Len(ahead') + 1]
  OBVIOUS
<1>9. Filling(last)'
  <2>1. last = pos
    BY <1>e, <1>2, <1>5
  <2>2. QED
    BY <2>1 DEF Filling
<1>10. Resting(later[1])' /\ later[1] = in[1]
  <2>1. later[1] = in[1]
    BY <1>2, <1>5
  <2>2. QED
    BY <2>1, Zenon DEF InputFlow, Resting
<1>11. ErrorIsLast'
  <2>1. ASSUME NEW i \in 1 .. Len(ahead'), ahead'[i].err # "none"
        PROVE  i = Len(ahead')
    <3>1. i \in 1 .. Len(ahead) => ahead'[i].err = "none"
      BY <1>2, BeforeTheError
    <3>2. QED
      BY <1>2, <2>1, <3>1
  <2>2. filler' = "done" => ahead' # <<>> /\ ahead'[Len(ahead')].err # "none"
    BY <1>2
  <2>3. readErr' = "none"
    BY BeforeTheError
  <2>4. QED
    BY <2>1, <2>2, <2>3 DEF ErrorIsLast
<1>12. InputFlow(later)'
  BY <1>e, <1>6, <1>7, <1>8, <1>9, <1>10, <1>11, Zenon DEF InputFlow
<1>13. QED
  BY <1>3, <1>10, <1>12

LEMMA FillSendStep ==
  ASSUME InputTypeOK, InputOnce, NEW in, InputFlow(in), FillSend
  PROVE  InputTypeOK' /\ InputOnce' /\ \E later : InputFlow(later)' /\ later[1] = in[1]
<1>0. /\ filler = "block" /\ ahead' = Append(ahead, [filled EXCEPT !.err = "none"])
      /\ filler' = IF filled.err = "none" THEN "take" ELSE "error"
      /\ UNCHANGED <<filled, pos, spare, inMemory, rest, readErr, stop>>
  BY DEF FillSend
<1>1. PICK b : b = [filled EXCEPT !.err = "none"]
  OBVIOUS
<1>2. filled \in InBlocks /\ ahead \in Seq(InBlocks)
  BY DEF InputTypeOK
<1>3. /\ b \in InBlocks /\ b.buf = filled.buf /\ b.from = filled.from
      /\ b.to = filled.to /\ b.err = "none"
  BY <1>1, <1>2 DEF InBlocks, Errors
<1>e. PICK end : end = in[Len(ahead) + 1]
  OBVIOUS
<1>4. Filling(end)
  BY <1>e, Zenon DEF InputFlow
<1>5. Sent(b, end, pos)'
  BY <1>0, <1>3, <1>4 DEF Sent, Filling, InputOnce
<1>6. /\ filler' \in {"take", "error", "done"} /\ filler' # "done" /\ filler # "done"
      /\ filler' = "error" => filled.err # "none" /\ (filled.err = "EOF" => pos = Total)
  BY <1>0, <1>4 DEF Filling
<1>7. InputTypeOK' /\ \E later : InputFlow(later)' /\ later[1] = in[1]
  BY <1>0, <1>1, <1>3, <1>5, <1>6, <1>e, SentStep
<1>8. InputOnce'
  <2>1. /\ Len(ahead') = Len(ahead) + 1 /\ Len(ahead) \in Nat
        /\ \A i \in 1 .. Len(ahead) : ahead'[i] = ahead[i]
        /\ ahead'[Len(ahead) + 1] = b
    BY <1>0, <1>1, <1>2, <1>3
  <2>2. ASSUME NEW i \in 1 .. Len(ahead')
        PROVE  \/ i \in 1 .. Len(ahead) /\ ahead'[i] = ahead[i]
               \/ i = Len(ahead) + 1 /\ ahead'[i].buf = filled.buf
    BY <1>3, <2>1
  <2>3. /\ filled.buf # rest.buf
        /\ \A i \in 1 .. Len(spare) : spare[i] # filled.buf
        /\ \A i \in 1 .. Len(ahead) : ahead[i].buf # filled.buf
    BY <1>0, Zenon DEF InputOnce
  <2>4. \A i, j \in 1 .. Len(ahead') :
          ahead'[i].buf = ahead'[j].buf /\ ahead'[i].buf # 0 => i = j
    BY <2>2, <2>3 DEF InputOnce
  <2>5. \A i \in 1 .. Len(spare), j \in 1 .. Len(ahead') : spare[i] # ahead'[j].buf
    BY <2>2, <2>3 DEF InputOnce
  <2>6. rest.buf # 0 => \A i \in 1 .. Len(ahead') : ahead'[i].buf # rest.buf
    BY <2>2, <2>3 DEF InputOnce
  <2>7. filler' \notin {"read", "block"}
    BY <1>6
  <2>8. QED
    BY <1>0, <2>4, <2>5, <2>6, <2>7 DEF InputOnce
<1>9. QED
  BY <1>7, <1>8

LEMMA FillSendErrorStep ==
  ASSUME InputTypeOK, InputOnce, NEW in, InputFlow(in), FillSendError
  PROVE  InputTypeOK' /\ InputOnce' /\ \E later : InputFlow(later)' /\ later[1] = in[1]
<1>0. /\ filler = "error" /\ ahead' = Append(ahead, [EmptyBlock EXCEPT !.err = filled.err])
      /\ filler' = "done"
      /\ UNCHANGED <<filled, pos, spare, inMemory, rest, readErr, stop>>
  BY DEF FillSendError
<1>1. PICK b : b = [EmptyBlock EXCEPT !.err = filled.err]
  OBVIOUS
<1>2. filled \in InBlocks /\ ahead \in Seq(InBlocks)
  BY DEF InputTypeOK
<1>3. filled.err \in Errors
  BY <1>2 DEF InBlocks
<1>4. b = [buf |-> 0, from |-> 0, to |-> 0, err |-> filled.err]
  BY <1>1 DEF EmptyBlock
<1>5. /\ b \in InBlocks /\ b.buf = 0 /\ b.from = 0 /\ b.to = 0 /\ b.err = filled.err
  BY <1>3, <1>4, ReadAheadAssumption DEF InBlocks
<1>e. PICK end : end = in[Len(ahead) + 1]
  OBVIOUS
<1>6. Filling(end)
  BY <1>e, Zenon DEF InputFlow
<1>7. end = pos /\ filled.err # "none" /\ (filled.err = "EOF" => pos = Total)
  BY <1>0, <1>6 DEF Filling
<1>8. Sent(b, end, pos)'
  BY <1>0, <1>5, <1>7 DEF Sent
<1>9. InputTypeOK' /\ \E later : InputFlow(later)' /\ later[1] = in[1]
  BY <1>0, <1>1, <1>5, <1>7, <1>8, <1>e, SentStep
<1>10. InputOnce'
  <2>1. /\ Len(ahead') = Len(ahead) + 1 /\ Len(ahead) \in Nat
        /\ \A i \in 1 .. Len(ahead) : ahead'[i] = ahead[i]
        /\ ahead'[Len(ahead) + 1] = b
    BY <1>0, <1>1, <1>2, <1>5
  <2>2. ASSUME NEW i \in 1 .. Len(ahead')
        PROVE  \/ i \in 1 .. Len(ahead) /\ ahead'[i] = ahead[i]
               \/ i = Len(ahead) + 1 /\ ahead'[i].buf = 0
    BY <1>5, <2>1
  <2>3. \A i \in 1 .. Len(spare) : spare[i] # 0
    BY ReadAheadAssumption DEF InputTypeOK, InBuffers
  <2>4. \A i, j \in 1 .. Len(ahead') :
          ahead'[i].buf = ahead'[j].buf /\ ahead'[i].buf # 0 => i = j
    BY <2>2 DEF InputOnce
  <2>5. \A i \in 1 .. Len(spare), j \in 1 .. Len(ahead') : spare[i] # ahead'[j].buf
    BY <2>2, <2>3 DEF InputOnce
  <2>6. rest.buf # 0 => \A i \in 1 .. Len(ahead') : ahead'[i].buf # rest.buf
    BY <2>2 DEF InputOnce
  <2>7. QED
    BY <1>0, <2>4, <2>5, <2>6 DEF InputOnce
<1>11. QED
  BY <1>9, <1>10
-----------------------------------------------------------------------------
(* Read                                                                    *)

\* block b left the blocks q, and its buffer is in neither place
Apart(q, b) ==
  /\ \A i, j \in 1 .. Len(q) : q[i].buf = q[j].buf /\ q[i].buf # 0 => i = j
  /\ \A i \in 1 .. Len(spare), j \in 1 .. Len(q) : spare[i] # q[j].buf
  /\ \A i \in 1 .. Len(spare) : spare[i] # b.buf
  /\ \A i \in 1 .. Len(q) : q[i].buf # b.buf
  /\ filler \in {"read", "block"} =>
       /\ filled.buf # b.buf
       /\ \A i \in 1 .. Len(q) : q[i].buf # filled.buf

\* block b may be given out: its last unit is at position end
Readable(b, end) ==
  /\ b \in InBlocks /\ b.buf \in InBuffers /\ b.err = "none"
  /\ b.from < b.to /\ b.to <= end
  /\ Len(inMemory[b.buf]) = b.to
  /\ Follows(inMemory[b.buf], end - b.to)

LEMMA AfterOnce ==
  ASSUME InputTypeOK, InputOnce, NEW b \in InBlocks, b.buf \in InBuffers, NEW k \in Nat \ {0},
         Apart(ahead', b), After(b, k), UNCHANGED fillVars
  PROVE  spare' \in Seq(InBuffers) /\ InputOnce'
<1>0. UNCHANGED <<filler, filled, pos, inMemory>> /\ spare \in Seq(InBuffers)
  BY DEF fillVars, InputTypeOK
<1>1. CASE spare' = spare /\ (rest'.buf = 0 \/ rest'.buf = b.buf)
  BY <1>0, <1>1 DEF Apart, InputOnce
<1>2. CASE spare' = Append(spare, b.buf) /\ rest'.buf = 0
  <2>1. /\ spare' \in Seq(InBuffers) /\ Len(spare') = Len(spare) + 1 /\ Len(spare) \in Nat
        /\ \A i \in 1 .. Len(spare) : spare'[i] = spare[i]
        /\ spare'[Len(spare) + 1] = b.buf
    BY <1>0, <1>2
  <2>2. ASSUME NEW i \in 1 .. Len(spare')
        PROVE  \/ i \in 1 .. Len(spare) /\ spare'[i] = spare[i]
               \/ i = Len(spare) + 1 /\ spare'[i] = b.buf
    BY <2>1
  <2>3. \A i, j \in 1 .. Len(spare') : spare'[i] = spare'[j] => i = j
    BY <2>2 DEF Apart, InputOnce
  <2>4. \A i \in 1 .. Len(spare'), j \in 1 .. Len(ahead') : spare'[i] # ahead'[j].buf
    BY <2>2, Zenon DEF Apart
  <2>5. filler' \in {"read", "block"} =>
          /\ filled'.buf # 0 /\ filled'.buf # rest'.buf
          /\ \A i \in 1 .. Len(spare') : spare'[i] # filled'.buf
          /\ \A i \in 1 .. Len(ahead') : ahead'[i].buf # filled'.buf
    BY <1>0, <1>2, <2>2 DEF Apart, InputOnce
  <2>6. QED
    BY <1>2, <2>1, <2>3, <2>4, <2>5 DEF Apart, InputOnce
<1>3. QED
  <2>1. EmptyBlock.buf = 0 /\ [b EXCEPT !.from = @ + k].buf = b.buf
    BY DEF EmptyBlock, InBlocks
  <2>2. QED
    BY <1>1, <1>2, <2>1 DEF After

LEMMA CopiedUnits ==
  ASSUME InputTypeOK, NEW b, NEW end \in Nat, Readable(b, end), NEW k \in Nat \ {0}
  PROVE  /\ Copied(b, k) \in Seq(Nat)
         /\ Len(Copied(b, k)) = AtMost(k, b.to - b.from) /\ Len(Copied(b, k)) > 0
         /\ Follows(Copied(b, k), end - (b.to - b.from))
<1>1. PICK s : s = inMemory[b.buf]
  OBVIOUS
<1>2. PICK m : m = AtMost(k, b.to - b.from)
  OBVIOUS
<1>3. PICK i : i = b.from
  OBVIOUS
<1>4. /\ s \in Seq(Nat) /\ i \in Nat /\ b.to \in Nat /\ Len(s) = b.to /\ i < b.to /\ b.to <= end
      /\ Follows(s, end - b.to)
  BY <1>1, <1>3 DEF InputTypeOK, Readable, InBlocks
<1>5. /\ i \in 0 .. Len(s) /\ m \in 0 .. Len(s) - i /\ m > 0 /\ end - b.to \in Nat
      /\ (end - b.to) + i = end - (b.to - i)
  BY <1>2, <1>3, <1>4 DEF AtMost
<1>6. Copied(b, k) = SubSeq(s, i + 1, i + m)
  BY <1>1, <1>2, <1>3 DEF Copied
<1>7. PICK a \in Nat : a = end - b.to
  BY <1>5
<1>8. /\ SubSeq(s, i + 1, i + m) \in Seq(Nat) /\ Len(SubSeq(s, i + 1, i + m)) = m
      /\ Follows(SubSeq(s, i + 1, i + m), a + i)
  <2>1. Follows(s, a)
    BY <1>4, <1>7
  <2>2. QED
    BY <1>4, <1>5, <2>1, FollowsSub, Zenon
<1>9. a + i = end - (b.to - b.from)
  BY <1>3, <1>5, <1>7
<1>10. QED
  BY <1>2, <1>5, <1>6, <1>8, <1>9

LEMMA AfterRests ==
  ASSUME InputTypeOK, NEW b, NEW end \in Nat, Readable(b, end), NEW k \in Nat \ {0},
         After(b, k), UNCHANGED fillVars
  PROVE  /\ rest' \in InBlocks /\ Resting(end)'
         /\ end - (rest'.to - rest'.from)
              = (end - (b.to - b.from)) + AtMost(k, b.to - b.from)
<1>0. /\ UNCHANGED inMemory /\ b.from \in Nat /\ b.to \in Nat
      /\ b = [buf |-> b.buf, from |-> b.from, to |-> b.to, err |-> b.err]
  BY DEF fillVars, Readable, InBlocks
<1>1. CASE k >= b.to - b.from
  <2>1. rest' = EmptyBlock
    BY <1>1 DEF After
  <2>2. EmptyBlock \in InBlocks /\ EmptyBlock.to = 0 /\ EmptyBlock.from = 0
    BY ReadAheadAssumption DEF EmptyBlock, InBlocks, Errors
  <2>3. AtMost(k, b.to - b.from) = b.to - b.from
    BY <1>0, <1>1 DEF AtMost
  <2>4. Resting(end)'
    BY <2>1 DEF Resting
  <2>5. QED
    BY <1>0, <2>1, <2>2, <2>3, <2>4
<1>2. CASE ~(k >= b.to - b.from)
  <2>1. rest' = [b EXCEPT !.from = @ + k]
    BY <1>2 DEF After
  <2>2. /\ rest' \in InBlocks /\ rest'.buf = b.buf /\ rest'.from = b.from + k
        /\ rest'.to = b.to /\ rest'.err = b.err
    BY <1>0, <2>1 DEF InBlocks, Readable
  <2>3. AtMost(k, b.to - b.from) = k /\ b.from + k < b.to
    BY <1>0, <1>2 DEF AtMost
  <2>4. b.buf # 0
    BY DEF Readable, InBuffers
  <2>5. Resting(end)'
    BY <1>0, <2>2, <2>3, <2>4 DEF Resting, Readable
  <2>6. QED
    BY <1>0, <2>2, <2>3, <2>5
<1>3. QED
  BY <1>1, <1>2

LEMMA ReadRestStep ==
  ASSUME InputTypeOK, InputOnce, NEW in, InputFlow(in), NEW k \in Nat \ {0},
         rest.from < rest.to, ReadUnits(rest, k)
  PROVE  /\ InputTypeOK' /\ InputOnce' /\ InputFlow(in)'
         /\ Copied(rest, k) \in Seq(Nat) /\ Len(Copied(rest, k)) > 0
         /\ Follows(Copied(rest, k), in[1] - (rest.to - rest.from))
         /\ in[1] - (rest'.to - rest'.from)
              = (in[1] - (rest.to - rest.from)) + Len(Copied(rest, k))
<1>1. rest # EmptyBlock
  BY DEF EmptyBlock
<1>2. /\ After(rest, k) /\ ahead' = ahead
      /\ UNCHANGED <<filler, filled, pos, inMemory, readErr, stop>> /\ UNCHANGED fillVars
  BY <1>1 DEF ReadUnits, fillVars
<1>3. /\ rest \in InBlocks /\ rest.buf # 0 /\ rest.buf \in InBuffers
      /\ in[1] \in Nat /\ Readable(rest, in[1])
  <2>1. rest \in InBlocks /\ Len(ahead) \in Nat
    BY DEF InputTypeOK
  <2>2. in[1] \in Nat /\ Resting(in[1])
    BY <2>1 DEF InputFlow
  <2>3. rest.buf # 0
    BY <1>1, <2>2 DEF Resting
  <2>4. rest.buf \in InBuffers
    BY <2>1, <2>3, ReadAheadAssumption DEF InBlocks, InBuffers
  <2>5. QED
    BY <1>1, <2>1, <2>2, <2>3, <2>4 DEF Resting, Readable
<1>4. Apart(ahead', rest)
  <2>1. Apart(ahead, rest)
    BY <1>3 DEF InputOnce, Apart
  <2>2. QED
    BY <1>2, <2>1
<1>5. spare' \in Seq(InBuffers) /\ InputOnce'
  BY <1>2, <1>3, <1>4, AfterOnce
<1>6. /\ rest' \in InBlocks /\ Resting(in[1])'
      /\ in[1] - (rest'.to - rest'.from)
           = (in[1] - (rest.to - rest.from)) + AtMost(k, rest.to - rest.from)
  BY <1>2, <1>3, AfterRests
<1>7. InputTypeOK'
  BY <1>2, <1>5, <1>6, Zenon DEF InputTypeOK
<1>8. InputFlow(in)'
  <2>1. readErr = "none"
    BY <1>1, Zenon DEF InputFlow, ErrorIsLast
  <2>2. ErrorIsLast'
    BY <1>2, <2>1, Zenon DEF InputFlow, ErrorIsLast
  <2>3. \A i \in 1 .. Len(ahead) : Sent(ahead[i], in[i], in[i + 1])'
    BY <1>2, Zenon DEF InputFlow, Sent
  <2>e. PICK end : end = in[Len(ahead) + 1]
    OBVIOUS
  <2>4. Filling(end)'
    BY <1>2, <2>e, Zenon DEF InputFlow, Filling
  <2>5. QED
    BY <1>2, <1>6, <2>2, <2>3, <2>4, <2>e, Zenon DEF InputFlow
<1>9. QED
  BY <1>3, <1>5, <1>6, <1>7, <1>8, CopiedUnits

LEMMA ReadNextStep ==
  ASSUME InputTypeOK, InputOnce, NEW in, InputFlow(in), NEW k \in Nat \ {0},
         rest = EmptyBlock, ahead # <<>>, NEW b, b = Head(ahead), b.err = "none",
         ReadUnits(b, k)
  PROVE  /\ InputTypeOK' /\ InputOnce'
         /\ Copied(b, k) \in Seq(Nat) /\ Len(Copied(b, k)) > 0
         /\ Follows(Copied(b, k), in[1])
         /\ \E later : /\ InputFlow(later)'
                       /\ later[1] - (rest'.to - rest'.from) = in[1] + Len(Copied(b, k))
<1>1. /\ ahead \in Seq(InBlocks) /\ Len(ahead) \in Nat \ {0} /\ b = ahead[1] /\ b \in InBlocks
      /\ Tail(ahead) \in Seq(InBlocks) /\ Len(Tail(ahead)) = Len(ahead) - 1
      /\ \A i \in 1 .. Len(Tail(ahead)) : Tail(ahead)[i] = ahead[i + 1]
  BY DEF InputTypeOK
<1>2. /\ After(b, k) /\ ahead' = Tail(ahead)
      /\ UNCHANGED <<filler, filled, pos, inMemory, readErr, stop>> /\ UNCHANGED fillVars
  BY DEF ReadUnits, fillVars
<1>3. /\ in \in [1 .. Len(ahead) + 1 -> Nat]
      /\ 1 \in 1 .. Len(ahead) /\ 1 \in 1 .. Len(ahead) + 1 /\ 2 \in 1 .. Len(ahead) + 1
      /\ 1 + 1 = 2
  BY <1>1 DEF InputFlow
<1>4. Sent(ahead[1], in[1], in[2])
  <2>1. Sent(ahead[1], in[1], in[1 + 1])
    BY <1>3, Zenon DEF InputFlow
  <2>2. QED
    BY <2>1
<1>5. /\ in[1] \in Nat /\ in[2] \in Nat /\ in[2] = in[1] + b.to
      /\ b.buf \in InBuffers /\ b.from = 0 /\ Readable(b, in[2])
  <2>1. /\ b.buf # 0 /\ b.from = 0 /\ b.to > 0 /\ in[2] = in[1] + b.to
        /\ Len(inMemory[b.buf]) = b.to /\ Follows(inMemory[b.buf], in[1])
    BY <1>1, <1>4 DEF Sent
  <2>2. in[1] \in Nat /\ in[2] \in Nat
    BY <1>3
  <2>3. b.to \in Nat /\ b.buf \in InBuffers
    BY <1>1, <2>1, ReadAheadAssumption DEF InBlocks, InBuffers
  <2>4. in[2] - b.to = in[1] /\ b.to <= in[2]
    BY <2>1, <2>2, <2>3
  <2>5. QED
    BY <1>1, <2>1, <2>2, <2>3, <2>4 DEF Readable
<1>6. Apart(ahead', b)
  <2>1. b.buf # 0
    BY <1>5 DEF InBuffers
  <2>2. Apart(Tail(ahead), b)
    BY <1>1, <1>3, <2>1 DEF InputOnce, Apart
  <2>3. QED
    BY <1>2, <2>2
<1>7. spare' \in Seq(InBuffers) /\ InputOnce'
  BY <1>1, <1>2, <1>5, <1>6, AfterOnce
<1>8. /\ rest' \in InBlocks /\ Resting(in[2])'
      /\ in[2] - (rest'.to - rest'.from)
           = (in[2] - (b.to - b.from)) + AtMost(k, b.to - b.from)
  BY <1>2, <1>5, AfterRests
<1>9. InputTypeOK'
  BY <1>1, <1>2, <1>7, <1>8, Zenon DEF InputTypeOK
<1>10. PICK later : later = [i \in 1 .. Len(ahead') + 1 |-> in[i + 1]]
  OBVIOUS
<1>11. /\ \A i \in 1 .. Len(ahead') + 1 : i + 1 \in 1 .. Len(ahead) + 1 /\ later[i] = in[i + 1]
       /\ later \in [1 .. Len(ahead') + 1 -> Nat]
       /\ Len(ahead') + 1 = Len(ahead)
       /\ later[1] = in[2] /\ later[Len(ahead') + 1] = in[Len(ahead) + 1]
  <2>1. Len(ahead') + 1 = Len(ahead) /\ 1 \in 1 .. Len(ahead') + 1
    BY <1>1, <1>2
  <2>2. ASSUME NEW i \in 1 .. Len(ahead') + 1
        PROVE  i + 1 \in 1 .. Len(ahead) + 1 /\ later[i] = in[i + 1]
    BY <1>1, <1>10, <2>1
  <2>3. later \in [1 .. Len(ahead') + 1 -> Nat]
    BY <1>3, <1>10, <2>2
  <2>4. Len(ahead) \in 1 .. Len(ahead') + 1
    BY <1>1, <2>1
  <2>5. later[1] = in[2] /\ later[Len(ahead)] = in[Len(ahead) + 1]
    BY <2>1, <2>2, <2>4, <1>3
  <2>6. QED
    BY <2>1, <2>2, <2>3, <2>5
<1>12. InputFlow(later)'
  <2>1. readErr = "none"
    BY <1>1, Zenon DEF InputFlow, ErrorIsLast
  <2>2. ASSUME NEW i \in 1 .. Len(ahead')
        PROVE  Sent(ahead[i], later[i], later[i + 1])'
    <3>1. /\ i + 1 \in 1 .. Len(ahead) /\ i \in 1 .. Len(ahead') + 1 /\ i + 1 \in 1 .. Len(ahead') + 1
          /\ i \in 1 .. Len(Tail(ahead))
      BY <1>1, <1>2
    <3>2. Sent(ahead[i + 1], in[i + 1], in[(i + 1) + 1])
      BY <3>1, Zenon DEF InputFlow
    <3>3. ahead'[i] = ahead[i + 1] /\ later[i] = in[i + 1] /\ later[i + 1] = in[(i + 1) + 1]
      BY <1>1, <1>2, <1>11, <3>1, Zenon
    <3>4. QED
      BY <1>2, <3>2, <3>3, Zenon DEF Sent
  <2>3. ErrorIsLast'
    <3>1. ASSUME NEW i \in 1 .. Len(ahead'), ahead'[i].err # "none"
          PROVE  i = Len(ahead')
      <4>1. i + 1 \in 1 .. Len(ahead) /\ ahead[i + 1].err # "none"
        BY <1>1, <1>2, <3>1
      <4>2. i + 1 = Len(ahead)
        BY <4>1, Zenon DEF InputFlow, ErrorIsLast
      <4>3. QED
        BY <1>1, <1>11, <4>2
    <3>2. ASSUME filler = "done"
          PROVE  ahead' # <<>> /\ ahead'[Len(ahead')].err # "none"
      <4>1. ahead[Len(ahead)].err # "none"
        BY <2>1, <3>2, Zenon DEF InputFlow, ErrorIsLast
      <4>2. Len(ahead) # 1
        BY <1>1, <4>1
      <4>3. Len(ahead') \in 1 .. Len(Tail(ahead)) /\ Len(ahead') + 1 = Len(ahead)
        BY <1>1, <1>2, <4>2
      <4>4. Tail(ahead)[Len(ahead')] = ahead[Len(ahead)] /\ Tail(ahead) # <<>>
        BY <1>1, <4>3
      <4>5. QED
        BY <1>2, <4>1, <4>4
    <3>3. QED
      BY <1>2, <2>1, <3>1, <3>2 DEF ErrorIsLast
  <2>4. \A i \in 1 .. Len(ahead') + 1 : later[i] <= pos'
    BY <1>2, <1>11 DEF InputFlow
  <2>e. PICK end : end = in[Len(ahead) + 1]
    OBVIOUS
  <2>5. Filling(end)'
    BY <1>2, <2>e, Zenon DEF InputFlow, Filling
  <2>6. Resting(later[1])'
    BY <1>8, <1>11, Zenon
  <2>7. QED
    BY <1>11, <2>2, <2>3, <2>4, <2>5, <2>6, <2>e, Zenon DEF InputFlow
<1>13. /\ Copied(b, k) \in Seq(Nat)
       /\ Len(Copied(b, k)) = AtMost(k, b.to - b.from) /\ Len(Copied(b, k)) > 0
       /\ Follows(Copied(b, k), in[2] - (b.to - b.from))
  BY <1>5, CopiedUnits
<1>14. in[2] - (b.to - b.from) = in[1]
  BY <1>1, <1>5 DEF InBlocks
<1>15. later[1] - (rest'.to - rest'.from) = in[1] + Len(Copied(b, k))
  BY <1>8, <1>11, <1>13, <1>14
<1>16. QED
  BY <1>7, <1>9, <1>12, <1>13, <1>14, <1>15

LEMMA ReadEndsStep ==
  ASSUME InputTypeOK, InputOnce, NEW in, InputFlow(in), ReadEnds
  PROVE  /\ InputTypeOK' /\ InputOnce' /\ UNCHANGED rest
         /\ readErr' # "none"
         /\ \E later : InputFlow(later)' /\ later[1] = in[1]
<1>0. /\ rest = EmptyBlock /\ readErr = "none"
      /\ UNCHANGED <<filler, filled, pos, inMemory, spare, rest, stop>>
  BY DEF ReadEnds, fillVars
<1>1. /\ ahead # <<>> /\ Head(ahead).err # "none"
      /\ readErr' = Head(ahead).err /\ ahead' = Tail(ahead)
  <2>1. ~(ahead = <<>> /\ filler = "done")
    BY <1>0, Zenon DEF InputFlow, ErrorIsLast
  <2>2. QED
    BY <2>1 DEF ReadEnds
<1>2. ahead \in Seq(InBlocks) /\ Len(ahead) \in Nat \ {0} /\ ahead[1] \in InBlocks /\ Head(ahead) = ahead[1]
  BY <1>1 DEF InputTypeOK
<1>3. Len(ahead) = 1 /\ ahead[1].err # "none"
  <2>1. ahead[1].err # "none" /\ 1 \in 1 .. Len(ahead)
    BY <1>1, <1>2
  <2>2. QED
    BY <2>1, Zenon DEF InputFlow, ErrorIsLast
<1>4. ahead' = <<>> /\ ahead' \in Seq(InBlocks) /\ Len(ahead') = 0
  BY <1>1, <1>2, <1>3
<1>5. readErr' \in Errors /\ readErr' # "none" /\ readErr' = ahead[1].err
  BY <1>1, <1>2 DEF InBlocks
<1>6. InputTypeOK'
  BY <1>0, <1>4, <1>5, Zenon DEF InputTypeOK
<1>7. InputOnce'
  BY <1>0, <1>4 DEF InputOnce
<1>8. /\ in[1] \in Nat /\ in[1] <= pos /\ Sent(ahead[1], in[1], in[2]) /\ Filling(in[2])
      /\ in[2] \in Nat
  <2>1. 1 \in 1 .. Len(ahead) /\ 1 + 1 = 2 /\ Len(ahead) + 1 = 2 /\ 1 \in 1 .. 2 /\ 2 \in 1 .. 2
    BY <1>3
  <2>2. Sent(ahead[1], in[1], in[1 + 1]) /\ Filling(in[Len(ahead) + 1])
    BY <2>1, Zenon DEF InputFlow
  <2>3. in[1] \in Nat /\ in[1] <= pos /\ in[2] \in Nat
    BY <2>1 DEF InputFlow
  <2>4. QED
    BY <2>1, <2>2, <2>3
<1>9. in[2] = in[1] /\ filler = "done" /\ (readErr' = "EOF" => pos = Total)
  BY <1>3, <1>5, <1>8 DEF Sent
<1>10. PICK later : later = [i \in 1 .. 1 |-> in[1]]
  OBVIOUS
<1>11. later[1] = in[1] /\ later \in [1 .. 1 -> Nat]
  BY <1>8, <1>10
<1>12. ErrorIsLast' /\ Resting(later[1])'
  BY <1>0, <1>4, <1>5, <1>9 DEF ErrorIsLast, Resting
<1>e. PICK end : end = in[1]
  OBVIOUS
<1>13. Filling(end)'
  BY <1>0, <1>8, <1>9, <1>e DEF Filling
<1>14. InputFlow(later)'
  <2>1. Len(ahead') + 1 = 1
    BY <1>4
  <2>2. \A i \in 1 .. Len(ahead') : Sent(ahead[i], later[i], later[i + 1])'
    BY <1>4
  <2>3. \A i \in 1 .. Len(ahead') + 1 : later[i] <= pos'
    BY <1>0, <1>8, <1>11, <2>1
  <2>4. QED
    BY <1>11, <1>12, <1>13, <1>e, <2>1, <2>2, <2>3, Zenon DEF InputFlow
<1>15. QED
  BY <1>0, <1>5, <1>6, <1>7, <1>11, <1>14
-----------------------------------------------------------------------------
(* The conversion and the whole program.                                   *)

LEMMA InputSame ==
  ASSUME InputTypeOK, InputOnce, NEW in, InputFlow(in), UNCHANGED inVars
  PROVE  InputTypeOK' /\ InputOnce' /\ InputFlow(in)' /\ UNCHANGED <<rest, readErr, stop>>
<1>0. UNCHANGED <<filler, filled, pos, inMemory, ahead, spare, rest, readErr, stop>>
  BY DEF inVars, fillVars
<1>1. InputTypeOK' /\ InputOnce'
  BY <1>0, Zenon DEF InputTypeOK, InputOnce
<1>e. PICK end : end = in[Len(ahead) + 1]
  OBVIOUS
<1>2. Filling(end)'
  BY <1>0, <1>e, Zenon DEF InputFlow, Filling
<1>3. \A i \in 1 .. Len(ahead) : Sent(ahead[i], in[i], in[i + 1])'
  BY <1>0, Zenon DEF InputFlow, Sent
<1>4. Resting(in[1])' /\ ErrorIsLast'
  BY <1>0, Zenon DEF InputFlow, Resting, ErrorIsLast
<1>5. InputFlow(in)'
  BY <1>0, <1>2, <1>3, <1>4, <1>e, Zenon DEF InputFlow
<1>6. QED
  BY <1>0, <1>1, <1>5

LEMMA OutputSame ==
  ASSUME OutputTypeOK, OutputOnce, NEW out, OutputFlow(out), UNCHANGED <<outVars, program>>
  PROVE  /\ OutputTypeOK' /\ OutputOnce' /\ OutputFlow(out)'
         /\ UNCHANGED <<Mine, Put, blk, outClosed, accepted, drainer, outMemory, writeErr, sink, queue>>
<1>0. UNCHANGED <<drainer, draining, writeErr, sink, queue, outFree, outMemory, blk,
                  outClosed, accepted, program>>
  BY DEF outVars, drainVars
<1>1. OutputTypeOK' /\ OutputOnce'
  BY <1>0, Zenon DEF OutputTypeOK, OutputOnce
<1>2. Mine' = Mine
  BY <1>0 DEF Mine
<1>3. Put' = Put
  BY <1>0, <1>2 DEF Put
<1>e. PICK end : end = End(out, queue)
  OBVIOUS
<1>4. Accepting(end)' /\ Draining(out[1])'
  BY <1>0, <1>2, <1>e, Zenon DEF OutputFlow, Accepting, Draining
<1>5. Chain(out, queue, outMemory)'
  BY <1>0, Zenon DEF OutputFlow
<1>6. OutputFlow(out)'
  BY <1>0, <1>4, <1>5, <1>e, Zenon DEF OutputFlow
<1>7. QED
  BY <1>0, <1>1, <1>2, <1>3, <1>6

\* what is written ends where the units begin that wait in the conversion
LEMMA PutIsEnd ==
  ASSUME OutputTypeOK, ConversionTypeOK, NEW out, OutputFlow(out)
  PROVE  /\ Mine \in Seq(Nat) /\ End(out, queue) \in Nat
         /\ Follows(Mine, End(out, queue))
         /\ Put = End(out, queue) + Len(Mine) /\ Put \in Nat
         /\ Len(accepted) \in Nat /\ Len(accepted) <= Put
         /\ accepted \in Seq(Nat) /\ Follows(accepted, 0)
         /\ Len(sink) \in Nat /\ Len(sink) <= Len(accepted) /\ Follows(sink, 0)
<1>1. Mine \in Seq(Nat)
  <2>1. blk # NoBuf => blk \in OutBuffers
    BY AsyncWriterAssumption DEF OutputTypeOK, OutBuffers, NoBuf
  <2>2. outMemory \in [OutBuffers -> Seq(Nat)] /\ <<>> \in Seq(Nat)
    BY DEF OutputTypeOK
  <2>3. QED
    BY <2>1, <2>2 DEF Mine
<1>2. /\ accepted \in Seq(Nat) /\ sink \in Seq(Nat) /\ queue \in Seq(OutBuffers)
      /\ program \in {"mmt2ts", "ts2mmt"}
  BY DEF OutputTypeOK, ConversionTypeOK
<1>3. /\ Len(queue) + 1 \in 1 .. Len(queue) + 1 /\ 1 \in 1 .. Len(queue) + 1
      /\ 1 <= Len(queue) + 1
  BY <1>2
<1>4. out[1] \in Nat /\ End(out, queue) \in Nat /\ out[1] <= End(out, queue)
  BY <1>3, Zenon DEF OutputFlow, Chain, End
<1>5. /\ Follows(Mine, End(out, queue)) /\ Follows(accepted, 0)
      /\ Len(accepted) = End(out, queue) + IF program = "ts2mmt" THEN Len(Mine) ELSE 0
  BY Zenon DEF OutputFlow, Accepting
<1>6. Len(sink) <= out[1] /\ Follows(sink, 0)
  BY Zenon DEF OutputFlow, Draining
<1>7. Put = End(out, queue) + Len(Mine)
  BY <1>1, <1>2, <1>4, <1>5 DEF Put
<1>8. QED
  BY <1>1, <1>2, <1>4, <1>5, <1>6, <1>7

\* a step that does not end the program
LEMMA Goes ==
  ASSUME InputTypeOK', OutputTypeOK', ConversionTypeOK', OutputOnce', Control', exit' = "none",
         InputOnce', NEW in, InputFlow(in)', NEW out, OutputFlow(out)',
         NEW p \in Nat, p = Put', Follows(todo', p), Len(accepted') <= p,
         in[1] = p + Len(todo') + (rest'.to - rest'.from)
  PROVE  IInv'
<1>1. /\ rest' \in InBlocks /\ todo' \in Seq(Nat) /\ accepted' \in Seq(Nat)
      /\ ahead' \in Seq(InBlocks) /\ pos' \in 0 .. Total
  BY DEF InputTypeOK, ConversionTypeOK, OutputTypeOK
<1>2. rest'.from \in Nat /\ rest'.to \in Nat /\ rest'.from <= rest'.to
  <2>1. rest'.from \in Nat /\ rest'.to \in Nat
    BY <1>1 DEF InBlocks
  <2>2. rest' = EmptyBlock \/ rest'.from < rest'.to
    BY DEF InputFlow, Resting
  <2>3. QED
    BY <2>1, <2>2 DEF EmptyBlock
<1>3. in[1] <= pos'
  <2>1. 1 \in 1 .. Len(ahead') + 1
    BY <1>1
  <2>2. QED
    BY <2>1, Zenon DEF InputFlow
<1>4. Len(accepted') <= Total
  BY <1>1, <1>2, <1>3, ReadAheadAssumption
<1>5. in[1] = Got' + (rest'.to - rest'.from)
  BY DEF Got
<1>6. Between'
  BY <1>4, <1>5, Zenon DEF Between
<1>7. Over'
  BY DEF Over
<1>8. QED
  BY <1>6, <1>7, Zenon DEF IInv

\* before the end
LEMMA Here ==
  ASSUME IInv, step # "over"
  PROVE  /\ InputTypeOK /\ OutputTypeOK /\ ConversionTypeOK /\ OutputOnce /\ Control
         /\ exit = "none" /\ ~stop /\ InputOnce /\ Follows(todo, Put) /\ todo \in Seq(Nat)
         /\ \E out : OutputFlow(out)
         /\ \E in : InputFlow(in) /\ in[1] = Put + Len(todo) + (rest.to - rest.from)
BY DEF IInv, Between, Control, Got, ConversionTypeOK

LEMMA TakeBlockStep ==
  ASSUME IInv, TakeBlock
  PROVE  IInv'
<1>0. /\ step = "block" /\ step' = "put" /\ NextBlock
      /\ UNCHANGED <<inVars, program, todo, exit>>
  BY DEF TakeBlock
<1>1. step # "over"
  BY <1>0
<1>2. PICK out : OutputFlow(out)
  BY <1>1, Here
<1>3. PICK in : InputFlow(in) /\ in[1] = Put + Len(todo) + (rest.to - rest.from)
  BY <1>1, Here
<1>4. InputTypeOK' /\ InputOnce' /\ InputFlow(in)' /\ UNCHANGED <<rest, readErr, stop>>
  BY <1>0, <1>1, <1>3, Here, InputSame
<1>5. WriteTake
  <2>1. blk = NoBuf
    BY <1>0, <1>1, Here DEF Control, ConversionTypeOK
  <2>2. QED
    BY <1>0, <2>1 DEF NextBlock, WriteTake
<1>6. /\ OutputTypeOK' /\ OutputOnce' /\ OutputFlow(out)'
      /\ Mine = <<>> /\ Mine' = <<>> /\ blk' # NoBuf
  BY <1>0, <1>1, <1>2, <1>5, Here, TakeStep
<1>7. UNCHANGED <<accepted, outClosed, drainer>>
  BY <1>5 DEF WriteTake, drainVars
<1>8. Put' = Put
  BY <1>0, <1>6, <1>7 DEF Put
<1>9. ConversionTypeOK'
  BY <1>0, <1>1, Here DEF ConversionTypeOK
<1>10. Control'
  BY <1>0, <1>1, <1>4, <1>6, <1>7, Here DEF Control
<1>11. PICK p : p = Put
  OBVIOUS
<1>12. p \in Nat /\ Follows(todo, p) /\ Len(accepted) <= p
  BY <1>1, <1>2, <1>11, Here, PutIsEnd
<1>13. exit' = "none"
  BY <1>0, <1>1, Here
<1>14. QED
  BY <1>0, <1>3, <1>4, <1>6, <1>7, <1>8, <1>9, <1>10, <1>11, <1>12, <1>13, Goes

LEMMA ConvertStep ==
  ASSUME IInv, NEW b, NEW k \in Asks, Convert(b, k)
  PROVE  IInv'
<1>0. /\ step = "read" /\ step' = "put" /\ ReadUnits(b, k) /\ todo' = Copied(b, k)
      /\ UNCHANGED <<outVars, program, exit>>
  BY DEF Convert
<1>1. step # "over"
  BY <1>0
<1>2. PICK out : OutputFlow(out)
  BY <1>1, Here
<1>3. PICK in : InputFlow(in) /\ in[1] = Put + Len(todo) + (rest.to - rest.from)
  BY <1>1, Here
<1>4. /\ OutputTypeOK' /\ OutputOnce' /\ OutputFlow(out)'
      /\ UNCHANGED <<Mine, Put, blk, outClosed, accepted, drainer>>
  BY <1>0, <1>1, <1>2, Here, OutputSame
<1>5. todo = <<>> /\ Len(todo) = 0 /\ readErr = "none" /\ UNCHANGED <<readErr, stop>>
  BY <1>0, <1>1, Here DEF Control, ReadUnits
<1>6. PICK p : p = Put
  OBVIOUS
<1>7. /\ p \in Nat /\ Len(accepted) <= p
      /\ rest.to \in Nat /\ rest.from \in Nat
      /\ in[1] \in Nat /\ in[1] - (rest.to - rest.from) = p
  <2>1. p \in Nat /\ Len(accepted) <= p
    BY <1>1, <1>2, <1>6, Here, PutIsEnd
  <2>2. rest \in InBlocks /\ ahead \in Seq(InBlocks)
    BY <1>1, Here DEF InputTypeOK
  <2>3. rest.to \in Nat /\ rest.from \in Nat
    BY <2>2 DEF InBlocks
  <2>4. in[1] \in Nat
    BY <1>3, <2>2 DEF InputFlow
  <2>5. QED
    BY <1>3, <1>5, <1>6, <2>1, <2>3, <2>4
<1>8. k \in Nat \ {0}
  BY AsksAssumption
<1>9. /\ InputTypeOK' /\ InputOnce'
      /\ Copied(b, k) \in Seq(Nat) /\ Len(Copied(b, k)) > 0 /\ Follows(Copied(b, k), p)
      /\ \E later : /\ InputFlow(later)'
                    /\ later[1] - (rest'.to - rest'.from) = p + Len(Copied(b, k))
  <2>1. CASE rest.from < rest.to /\ b = rest
    <3>1. /\ InputTypeOK' /\ InputOnce' /\ InputFlow(in)'
          /\ Copied(rest, k) \in Seq(Nat) /\ Len(Copied(rest, k)) > 0
          /\ Follows(Copied(rest, k), in[1] - (rest.to - rest.from))
          /\ in[1] - (rest'.to - rest'.from)
               = (in[1] - (rest.to - rest.from)) + Len(Copied(rest, k))
      BY <1>0, <1>1, <1>3, <1>8, <2>1, Here, ReadRestStep
    <3>2. QED
      BY <1>7, <2>1, <3>1
  <2>2. CASE rest = EmptyBlock /\ ahead # <<>> /\ Head(ahead).err = "none" /\ b = Head(ahead)
    <3>1. in[1] = p
      BY <1>7, <2>2 DEF EmptyBlock
    <3>2. /\ InputTypeOK' /\ InputOnce'
          /\ Copied(b, k) \in Seq(Nat) /\ Len(Copied(b, k)) > 0
          /\ Follows(Copied(b, k), in[1])
          /\ \E later : /\ InputFlow(later)'
                        /\ later[1] - (rest'.to - rest'.from) = in[1] + Len(Copied(b, k))
      BY <1>0, <1>1, <1>3, <1>8, <2>2, Here, ReadNextStep
    <3>3. QED
      BY <3>1, <3>2
  <2>3. QED
    BY <1>0, <2>1, <2>2, Zenon DEF ReadUnits, Current
<1>10. PICK later : /\ InputFlow(later)'
                    /\ later[1] - (rest'.to - rest'.from) = p + Len(Copied(b, k))
  BY <1>9
<1>11. later[1] = p + Len(todo') + (rest'.to - rest'.from)
  <2>1. rest' \in InBlocks /\ ahead' \in Seq(InBlocks)
    BY <1>9 DEF InputTypeOK
  <2>2. rest'.to \in Nat /\ rest'.from \in Nat
    BY <2>1 DEF InBlocks
  <2>3. later[1] \in Nat
    BY <1>10, <2>1 DEF InputFlow
  <2>4. Len(todo') \in Nat /\ todo' = Copied(b, k)
    BY <1>0, <1>9
  <2>5. QED
    BY <1>7, <1>10, <2>2, <2>3, <2>4
<1>12. ConversionTypeOK'
  BY <1>0, <1>1, <1>9, Here DEF ConversionTypeOK
<1>13. Control'
  BY <1>0, <1>1, <1>4, <1>5, Here DEF Control
<1>14. exit' = "none" /\ Follows(todo', p) /\ Put' = p /\ Len(accepted') <= p
  BY <1>0, <1>1, <1>4, <1>6, <1>7, <1>9, Here
<1>15. QED
  BY <1>4, <1>7, <1>9, <1>10, <1>11, <1>12, <1>13, <1>14, Goes

LEMMA ConvertEndsStep ==
  ASSUME IInv, ConvertEnds
  PROVE  IInv'
<1>0. /\ step = "read" /\ ReadEnds /\ UNCHANGED <<outVars, program, todo, exit>>
      /\ step' = IF program = "ts2mmt" THEN "close"
                 ELSE IF readErr' = "failed" THEN "fail" ELSE "flush"
  BY DEF ConvertEnds
<1>1. step # "over"
  BY <1>0
<1>2. PICK out : OutputFlow(out)
  BY <1>1, Here
<1>3. PICK in : InputFlow(in) /\ in[1] = Put + Len(todo) + (rest.to - rest.from)
  BY <1>1, Here
<1>4. /\ OutputTypeOK' /\ OutputOnce' /\ OutputFlow(out)'
      /\ UNCHANGED <<Mine, Put, blk, outClosed, accepted, drainer>>
  BY <1>0, <1>1, <1>2, Here, OutputSame
<1>5. /\ InputTypeOK' /\ InputOnce' /\ UNCHANGED rest /\ readErr' # "none"
      /\ \E later : InputFlow(later)' /\ later[1] = in[1]
  BY <1>0, <1>1, <1>3, Here, ReadEndsStep
<1>6. PICK later : InputFlow(later)' /\ later[1] = in[1]
  BY <1>5
<1>7. UNCHANGED stop
  BY <1>0 DEF ReadEnds
<1>8. ConversionTypeOK'
  BY <1>0, <1>1, Here DEF ConversionTypeOK
<1>9. Control'
  BY <1>0, <1>1, <1>4, <1>5, <1>7, Here DEF Control, ConversionTypeOK
<1>10. PICK p : p = Put
  OBVIOUS
<1>11. p \in Nat /\ Follows(todo, p) /\ Len(accepted) <= p
  BY <1>1, <1>2, <1>10, Here, PutIsEnd
<1>12. exit' = "none"
  BY <1>0, <1>1, Here
<1>13. QED
  BY <1>0, <1>3, <1>4, <1>5, <1>6, <1>8, <1>9, <1>10, <1>11, <1>12, Goes

\* a step that only goes to another place of the conversion
LEMMA OnlyStep ==
  ASSUME IInv, step # "over", UNCHANGED <<inVars, outVars, program, todo, exit>>,
         step' \in {"read", "put", "flush", "write", "close", "fail"},
         step' = "flush" => program = "mmt2ts",
         step' = "write" => program = "ts2mmt",
         program = "mmt2ts" => step # "block",
         step' = "read" => todo = <<>> /\ readErr = "none",
         step' = "put" => ~outClosed /\ (program = "mmt2ts" => Mine = <<>>),
         step' = "close" => readErr # "none" /\ (program = "mmt2ts" => Mine = <<>>),
         program = "mmt2ts" /\ readErr = "failed" => step' = "fail",
         ~outClosed
  PROVE  IInv'
<1>2. PICK out : OutputFlow(out)
  BY Here
<1>3. PICK in : InputFlow(in) /\ in[1] = Put + Len(todo) + (rest.to - rest.from)
  BY Here
<1>4. InputTypeOK' /\ InputOnce' /\ InputFlow(in)' /\ UNCHANGED <<rest, readErr, stop>>
  BY <1>3, Here, InputSame
<1>5. /\ OutputTypeOK' /\ OutputOnce' /\ OutputFlow(out)'
      /\ UNCHANGED <<Mine, Put, blk, outClosed, accepted, drainer>>
  BY <1>2, Here, OutputSame
<1>6. ConversionTypeOK'
  BY Here DEF ConversionTypeOK
<1>7. Control'
  BY <1>4, <1>5, Here DEF Control, ConversionTypeOK
<1>8. PICK p : p = Put
  OBVIOUS
<1>9. p \in Nat /\ Follows(todo, p) /\ Len(accepted) <= p
  BY <1>2, <1>8, Here, PutIsEnd
<1>10. exit' = "none"
  BY Here
<1>11. QED
  BY <1>3, <1>4, <1>5, <1>6, <1>7, <1>8, <1>9, <1>10, Goes

LEMMA PlacesStep ==
  ASSUME IInv, PutDone \/ FullBlock \/ WriteBegins
  PROVE  IInv'
<1>1. CASE PutDone
  BY <1>1, Here, OnlyStep DEF PutDone, Control, ConversionTypeOK
<1>2. CASE FullBlock
  BY <1>2, Here, OnlyStep DEF FullBlock, Control, ConversionTypeOK
<1>3. CASE WriteBegins
  BY <1>3, Here, OnlyStep DEF WriteBegins, Control, ConversionTypeOK
<1>4. QED
  BY <1>1, <1>2, <1>3

\* the first unit that waits follows what was written
LEMMA NextUnit ==
  ASSUME IInv, step # "over", todo # <<>>, NEW out, OutputFlow(out)
  PROVE  /\ Head(todo) = Put + 1 /\ Head(todo) \in Nat
         /\ Tail(todo) \in Seq(Nat) /\ Len(Tail(todo)) = Len(todo) - 1
         /\ Len(todo) \in Nat \ {0} /\ Follows(Tail(todo), Put + 1)
         /\ Append(Mine, Head(todo)) \in Seq(Nat)
         /\ Len(Append(Mine, Head(todo))) = Len(Mine) + 1
         /\ Follows(Append(Mine, Head(todo)), End(out, queue))
<1>1. PICK p \in Nat : p = Put
  BY Here, PutIsEnd
<1>2. PICK s \in Seq(Nat) : s = todo
  BY Here
<1>3. Follows(s, p) /\ s # <<>>
  BY <1>1, <1>2, Here
<1>4. /\ Len(s) \in Nat \ {0} /\ Head(s) = p + 1
      /\ Tail(s) \in Seq(Nat) /\ Len(Tail(s)) = Len(s) - 1 /\ Follows(Tail(s), p + 1)
  BY <1>3, FollowsTail
<1>5. PICK a \in Nat, m \in Seq(Nat), x \in Nat :
        a = End(out, queue) /\ m = Mine /\ x = p + 1
  BY Here, PutIsEnd
<1>6. Follows(m, a) /\ x = a + Len(m) + 1
  BY <1>1, <1>5, Here, PutIsEnd
<1>7. /\ Append(m, x) \in Seq(Nat) /\ Len(Append(m, x)) = Len(m) + 1
      /\ Follows(Append(m, x), a)
  BY <1>6, FollowsAppend
<1>8. QED
  BY <1>1, <1>2, <1>4, <1>5, <1>7

LEMMA PutInBlockStep ==
  ASSUME IInv, PutInBlock
  PROVE  IInv'
<1>0. /\ step = "put" /\ todo # <<>> /\ program = "mmt2ts"
      /\ outMemory' = [outMemory EXCEPT ![blk] = Append(outMemory[blk], Head(todo))]
      /\ todo' = Tail(todo)
      /\ UNCHANGED <<inVars, program, step, exit>>
      /\ UNCHANGED <<drainer, draining, writeErr, sink, queue, outFree, blk, outClosed, accepted>>
  BY DEF PutInBlock, Fill1, drainVars
<1>1. step # "over" /\ blk # NoBuf
  <2>1. step # "over"
    BY <1>0
  <2>2. QED
    BY <1>0, <2>1, Here DEF Control
<1>2. PICK out : OutputFlow(out)
  BY <1>1, Here
<1>3. PICK in : InputFlow(in) /\ in[1] = Put + Len(todo) + (rest.to - rest.from)
  BY <1>1, Here
<1>4. InputTypeOK' /\ InputOnce' /\ InputFlow(in)' /\ UNCHANGED <<rest, readErr, stop>>
  BY <1>0, <1>1, <1>3, Here, InputSame
<1>5. PICK s : s = Append(Mine, Head(todo))
  OBVIOUS
<1>6. /\ s \in Seq(Nat) /\ Len(s) = Len(Mine) + 1 /\ Follows(s, End(out, queue))
      /\ Tail(todo) \in Seq(Nat) /\ Len(Tail(todo)) = Len(todo) - 1
      /\ Len(todo) \in Nat \ {0} /\ Follows(Tail(todo), Put + 1)
  BY <1>0, <1>1, <1>2, <1>5, NextUnit
<1>7. outMemory' = [outMemory EXCEPT ![blk] = s]
  BY <1>0, <1>1, <1>5 DEF Mine
<1>8. /\ accepted' \in Seq(Nat) /\ Follows(accepted', 0)
      /\ Len(accepted') = End(out, queue) + IF program = "ts2mmt" THEN Len(s) ELSE 0
  BY <1>0, <1>1, <1>2, Here DEF OutputFlow, Accepting, OutputTypeOK
<1>9. OutputTypeOK' /\ OutputOnce' /\ OutputFlow(out)' /\ Mine' = s
  BY <1>0, <1>1, <1>2, <1>6, <1>7, <1>8, Here, FillStep
<1>10. PICK p : p = Put
  OBVIOUS
<1>11. p \in Nat /\ Len(accepted) <= p /\ Len(Mine) \in Nat /\ Len(accepted) \in Nat
  BY <1>1, <1>2, <1>10, Here, PutIsEnd
<1>12. Put' = p + 1
  <2>1. p = Len(accepted) + Len(Mine)
    BY <1>0, <1>10 DEF Put
  <2>2. Put' = Len(accepted) + Len(s)
    BY <1>0, <1>9 DEF Put
  <2>3. QED
    BY <1>6, <1>11, <2>1, <2>2
<1>13. in[1] = (p + 1) + Len(todo') + (rest'.to - rest'.from)
  <2>1. rest \in InBlocks
    BY <1>1, Here DEF InputTypeOK
  <2>2. rest.to \in Nat /\ rest.from \in Nat
    BY <2>1 DEF InBlocks
  <2>3. QED
    BY <1>0, <1>3, <1>4, <1>6, <1>10, <1>11, <2>2
<1>14. ConversionTypeOK'
  BY <1>0, <1>1, <1>6, Here DEF ConversionTypeOK
<1>15. Control'
  BY <1>0, <1>1, <1>4, Here DEF Control
<1>16. PICK q : q = p + 1
  OBVIOUS
<1>17. /\ q \in Nat /\ q = Put' /\ Follows(todo', q) /\ Len(accepted') <= q
       /\ in[1] = q + Len(todo') + (rest'.to - rest'.from)
  BY <1>0, <1>6, <1>10, <1>11, <1>12, <1>13, <1>16
<1>18. exit' = "none"
  BY <1>0, <1>1, Here
<1>19. QED
  BY <1>4, <1>9, <1>14, <1>15, <1>17, <1>18, Goes

LEMMA FlushStep ==
  ASSUME IInv, step = "flush", outMemory[blk] # <<>>, WriteBlock, step' = "block",
         UNCHANGED <<inVars, program, todo, exit>>
  PROVE  IInv'
<1>0. /\ queue' = Append(queue, blk) /\ accepted' = accepted \o outMemory[blk] /\ blk' = NoBuf
      /\ UNCHANGED <<drainer, draining, writeErr, sink, outFree, outMemory, outClosed>>
  BY DEF WriteBlock, drainVars
<1>1. step # "over"
  OBVIOUS
<1>2. PICK out : OutputFlow(out)
  BY <1>1, Here
<1>3. PICK in : InputFlow(in) /\ in[1] = Put + Len(todo) + (rest.to - rest.from)
  BY <1>1, Here
<1>4. InputTypeOK' /\ InputOnce' /\ InputFlow(in)' /\ UNCHANGED <<rest, readErr, stop>>
  BY <1>1, <1>3, Here, InputSame
<1>5. /\ program = "mmt2ts" /\ blk # NoBuf /\ blk \in OutBuffers /\ drainer # "done"
      /\ ~outClosed /\ outClosed' \in BOOLEAN /\ outMemory \in [OutBuffers -> Seq(Nat)]
  <2>1. program = "mmt2ts" /\ blk # NoBuf /\ ~outClosed
    BY <1>1, Here DEF Control, ConversionTypeOK
  <2>2. drainer # "done"
    BY <1>2, <2>1 DEF OutputFlow, Draining
  <2>3. QED
    BY <1>0, <1>1, <2>1, <2>2, AsyncWriterAssumption, Here DEF OutputTypeOK, OutBuffers, NoBuf
<1>6. PICK s : s = Mine
  OBVIOUS
<1>7. s = outMemory[blk] /\ outMemory' = [outMemory EXCEPT ![blk] = s]
  BY <1>0, <1>5, <1>6 DEF Mine
<1>8. PICK end : end = End(out, queue)
  OBVIOUS
<1>9. /\ s \in Seq(Nat) /\ Follows(s, end) /\ end \in Nat
      /\ accepted \in Seq(Nat) /\ Follows(accepted, 0) /\ Put = end + Len(s) /\ Len(accepted) = end
  <2>1. /\ s \in Seq(Nat) /\ Follows(s, end) /\ end \in Nat
        /\ accepted \in Seq(Nat) /\ Follows(accepted, 0) /\ Put = end + Len(s)
    BY <1>1, <1>2, <1>6, <1>8, Here, PutIsEnd
  <2>2. Len(accepted) = end + 0
    BY <1>2, <1>5, <1>8 DEF OutputFlow, Accepting
  <2>3. QED
    BY <2>1, <2>2
<1>10. accepted' \in Seq(Nat) /\ Len(accepted') = end + Len(s) /\ Follows(accepted', 0)
  <2>1. PICK a \in Seq(Nat) : a = accepted
    BY <1>9
  <2>2. Follows(a, 0) /\ Follows(s, 0 + Len(a)) /\ 0 \in Nat
    BY <1>9, <2>1
  <2>3. a \o s \in Seq(Nat) /\ Len(a \o s) = Len(a) + Len(s) /\ Follows(a \o s, 0)
    BY <1>9, <2>2, FollowsConcat
  <2>4. QED
    BY <1>0, <1>7, <1>9, <2>1, <2>3
<1>11. OutputTypeOK' /\ OutputOnce' /\ (\E later : OutputFlow(later)') /\ Mine' = <<>>
  BY <1>0, <1>1, <1>2, <1>5, <1>7, <1>8, <1>9, <1>10, Here, SendStep
<1>12. PICK p : p = Put
  OBVIOUS
<1>13. p \in Nat /\ p = end + Len(s) /\ Put' = p /\ Len(accepted') <= p
  <2>1. Len(<<>>) = 0
    OBVIOUS
  <2>2. Put' = Len(accepted') + 0
    BY <1>5, <1>11, <2>1 DEF Put
  <2>3. QED
    BY <1>9, <1>10, <1>12, <2>2
<1>14. ConversionTypeOK'
  BY <1>1, Here DEF ConversionTypeOK
<1>15. Control'
  BY <1>0, <1>1, <1>4, <1>5, <1>11, Here DEF Control, ConversionTypeOK
<1>16. exit' = "none" /\ Follows(todo', p) /\ in[1] = p + Len(todo') + (rest'.to - rest'.from)
  BY <1>1, <1>3, <1>4, <1>12, Here
<1>17. PICK later : OutputFlow(later)'
  BY <1>11
<1>18. QED
  BY <1>4, <1>11, <1>13, <1>14, <1>15, <1>16, <1>17, Goes

LEMMA FlushBlockStep ==
  ASSUME IInv, FlushBlock
  PROVE  IInv'
<1>0. step = "flush" /\ UNCHANGED <<inVars, program, todo, exit>>
  BY DEF FlushBlock
<1>1. step # "over" /\ program = "mmt2ts" /\ blk # NoBuf /\ ~outClosed /\ readErr # "failed"
  <2>1. step # "over"
    BY <1>0
  <2>2. QED
    BY <1>0, <2>1, Here DEF Control, ConversionTypeOK
<1>2. CASE outMemory[blk] = <<>> /\ step' = "put" /\ UNCHANGED outVars
  <2>1. Mine = <<>>
    BY <1>2 DEF Mine
  <2>2. QED
    BY <1>0, <1>1, <1>2, <2>1, OnlyStep
<1>3. CASE step' = "fail" /\ UNCHANGED outVars
  BY <1>0, <1>1, <1>3, OnlyStep
<1>4. CASE outMemory[blk] # <<>> /\ WriteBlock /\ step' = "block"
  BY <1>0, <1>4, FlushStep
<1>5. QED
  BY <1>2, <1>3, <1>4 DEF FlushBlock

LEMMA WriteTakeStep ==
  ASSUME IInv, step = "write", WriteTake, UNCHANGED <<inVars, program, todo, step, exit>>
  PROVE  IInv'
<1>1. step # "over"
  OBVIOUS
<1>2. PICK out : OutputFlow(out)
  BY <1>1, Here
<1>3. PICK in : InputFlow(in) /\ in[1] = Put + Len(todo) + (rest.to - rest.from)
  BY <1>1, Here
<1>4. InputTypeOK' /\ InputOnce' /\ InputFlow(in)' /\ UNCHANGED <<rest, readErr, stop>>
  BY <1>1, <1>3, Here, InputSame
<1>5. /\ OutputTypeOK' /\ OutputOnce' /\ OutputFlow(out)'
      /\ Mine = <<>> /\ Mine' = <<>> /\ blk' # NoBuf
  BY <1>1, <1>2, Here, TakeStep
<1>6. UNCHANGED <<accepted, outClosed, drainer>>
  BY DEF WriteTake, drainVars
<1>7. Put' = Put
  BY <1>5, <1>6 DEF Put
<1>8. ConversionTypeOK'
  BY <1>1, Here DEF ConversionTypeOK
<1>9. Control'
  BY <1>1, <1>4, <1>5, <1>6, Here DEF Control, ConversionTypeOK
<1>10. PICK p : p = Put
  OBVIOUS
<1>11. p \in Nat /\ Follows(todo, p) /\ Len(accepted) <= p
  BY <1>1, <1>2, <1>10, Here, PutIsEnd
<1>12. exit' = "none"
  BY <1>1, Here
<1>13. QED
  BY <1>3, <1>4, <1>5, <1>6, <1>7, <1>8, <1>9, <1>10, <1>11, <1>12, Goes

LEMMA WriteCopyStep ==
  ASSUME IInv, step = "write", todo # <<>>, WriteCopy(Head(todo)), todo' = Tail(todo),
         step' = (IF Tail(todo) = <<>> THEN "put" ELSE step),
         UNCHANGED <<inVars, program, exit>>
  PROVE  IInv'
<1>0. /\ blk # NoBuf
      /\ outMemory' = [outMemory EXCEPT ![blk] = Append(outMemory[blk], Head(todo))]
      /\ accepted' = Append(accepted, Head(todo))
      /\ UNCHANGED <<drainer, draining, writeErr, sink, outFree, outClosed>>
  BY DEF WriteCopy, drainVars
<1>1. step # "over"
  OBVIOUS
<1>2. PICK out : OutputFlow(out)
  BY <1>1, Here
<1>3. PICK in : InputFlow(in) /\ in[1] = Put + Len(todo) + (rest.to - rest.from)
  BY <1>1, Here
<1>4. InputTypeOK' /\ InputOnce' /\ InputFlow(in)' /\ UNCHANGED <<rest, readErr, stop>>
  BY <1>1, <1>3, Here, InputSame
<1>5. PICK s : s = Append(Mine, Head(todo))
  OBVIOUS
<1>6. /\ s \in Seq(Nat) /\ Len(s) = Len(Mine) + 1 /\ Follows(s, End(out, queue))
      /\ Tail(todo) \in Seq(Nat) /\ Len(Tail(todo)) = Len(todo) - 1
      /\ Len(todo) \in Nat \ {0} /\ Follows(Tail(todo), Put + 1)
      /\ Head(todo) = Put + 1 /\ Head(todo) \in Nat
  BY <1>1, <1>2, <1>5, NextUnit
<1>7. outMemory' = [outMemory EXCEPT ![blk] = s]
  BY <1>0, <1>5 DEF Mine
<1>8. program = "ts2mmt" /\ ~outClosed /\ outClosed' \in BOOLEAN
  BY <1>0, <1>1, Here DEF Control, ConversionTypeOK, OutputTypeOK
<1>9. PICK p : p = Put
  OBVIOUS
<1>10. /\ p \in Nat /\ p = End(out, queue) + Len(Mine) /\ p = Len(accepted)
       /\ End(out, queue) \in Nat /\ Len(Mine) \in Nat
       /\ accepted \in Seq(Nat) /\ Follows(accepted, 0)
  <2>1. Put = Len(accepted) + 0
    BY <1>8 DEF Put
  <2>2. QED
    BY <1>1, <1>2, <1>9, <2>1, Here, PutIsEnd
<1>11. /\ accepted' \in Seq(Nat) /\ Follows(accepted', 0) /\ Len(accepted') = p + 1
       /\ p + 1 = End(out, queue) + Len(s)
  <2>1. PICK a \in Seq(Nat), x \in Nat : a = accepted /\ x = Head(todo)
    BY <1>6, <1>10
  <2>2. x = p + 1 /\ Len(a) = p /\ Follows(a, 0)
    BY <1>6, <1>9, <1>10, <2>1, Zenon
  <2>3. x = 0 + Len(a) + 1 /\ 0 \in Nat
    BY <1>10, <2>2
  <2>4. Append(a, x) \in Seq(Nat) /\ Len(Append(a, x)) = Len(a) + 1 /\ Follows(Append(a, x), 0)
    BY <2>2, <2>3, FollowsAppend
  <2>5. accepted' = Append(a, x)
    BY <1>0, <2>1, Zenon
  <2>6. p + 1 = End(out, queue) + Len(s)
    BY <1>6, <1>10
  <2>7. QED
    BY <2>2, <2>4, <2>5, <2>6
<1>12. drainer # "done"
  BY <1>2, <1>8 DEF OutputFlow, Draining
<1>13. /\ OutputTypeOK' /\ OutputOnce' /\ \E later : OutputFlow(later)'
  <2>1. CASE UNCHANGED <<queue, blk>>
    <3>1. Len(accepted') = End(out, queue) + IF program = "ts2mmt" THEN Len(s) ELSE 0
      BY <1>8, <1>11
    <3>2. QED
      BY <1>0, <1>1, <1>2, <1>6, <1>7, <1>11, <2>1, <3>1, Here, FillStep
  <2>2. CASE queue' = Append(queue, blk) /\ blk' = NoBuf
    <3>1. Len(accepted') = End(out, queue) + Len(s)
      BY <1>11
    <3>2. QED
      BY <1>0, <1>1, <1>2, <1>6, <1>7, <1>8, <1>11, <1>12, <2>2, <3>1, Here, SendStep
  <2>3. QED
    BY <2>1, <2>2 DEF WriteCopy
<1>14. PICK later : OutputFlow(later)'
  BY <1>13
<1>15. PICK q : q = p + 1
  OBVIOUS
<1>16. q \in Nat /\ q = Put' /\ Follows(todo', q) /\ Len(accepted') <= q
  <2>1. Put' = Len(accepted') + 0
    BY <1>8 DEF Put
  <2>2. QED
    BY <1>6, <1>9, <1>10, <1>11, <1>15, <2>1
<1>17. in[1] = q + Len(todo') + (rest'.to - rest'.from)
  <2>1. rest \in InBlocks
    BY <1>1, Here DEF InputTypeOK
  <2>2. rest.to \in Nat /\ rest.from \in Nat
    BY <2>1 DEF InBlocks
  <2>3. Len(todo') = Len(todo) - 1 /\ Len(todo) \in Nat /\ UNCHANGED rest
    BY <1>4, <1>6
  <2>4. in[1] = p + Len(todo) + (rest.to - rest.from)
    BY <1>3, <1>9
  <2>5. QED
    BY <1>10, <1>15, <2>2, <2>3, <2>4
<1>18. ConversionTypeOK'
  BY <1>1, <1>6, Here DEF ConversionTypeOK
<1>19. readErr = "none"
  BY <1>1, Here DEF Control
<1>20. Control'
  BY <1>0, <1>1, <1>4, <1>8, <1>19, Here DEF Control
<1>21. exit' = "none"
  BY <1>1, Here
<1>22. QED
  BY <1>4, <1>13, <1>14, <1>16, <1>17, <1>18, <1>20, <1>21, Goes

LEMMA WriteUnitStep ==
  ASSUME IInv, WriteUnit
  PROVE  IInv'
BY WriteTakeStep, WriteCopyStep DEF WriteUnit

LEMMA CloseOutStep ==
  ASSUME IInv, CloseOut
  PROVE  IInv'
<1>0. /\ step \in {"close", "fail"} /\ step' = (IF step = "close" THEN "wait" ELSE "failing")
      /\ UNCHANGED <<inVars, program, todo, exit>>
      /\ ~outClosed /\ outClosed' = TRUE
      /\ UNCHANGED <<drainer, draining, writeErr, sink, outFree, outMemory, accepted>>
  BY DEF CloseOut, CloseOutput, drainVars
<1>1. step # "over"
  BY <1>0
<1>2. PICK out : OutputFlow(out)
  BY <1>1, Here
<1>3. PICK in : InputFlow(in) /\ in[1] = Put + Len(todo) + (rest.to - rest.from)
  BY <1>1, Here
<1>4. InputTypeOK' /\ InputOnce' /\ InputFlow(in)' /\ UNCHANGED <<rest, readErr, stop>>
  BY <1>0, <1>1, <1>3, Here, InputSame
<1>5. PICK p : p = Put
  OBVIOUS
<1>6. PICK s : s = Mine
  OBVIOUS
<1>7. /\ s \in Seq(Nat) /\ Follows(s, End(out, queue)) /\ End(out, queue) \in Nat
      /\ p \in Nat /\ p = End(out, queue) + Len(s) /\ Follows(todo, p)
      /\ accepted \in Seq(Nat) /\ Follows(accepted, 0) /\ Len(accepted) <= p
  BY <1>1, <1>2, <1>5, <1>6, Here, PutIsEnd
<1>8. drainer # "done"
  BY <1>0, <1>2 DEF OutputFlow, Draining
<1>9. /\ OutputTypeOK' /\ OutputOnce' /\ (\E later : OutputFlow(later)') /\ Put' = p
      /\ program = "mmt2ts" => Mine' = Mine /\ blk' = blk
      /\ program = "ts2mmt" => Mine' = <<>>
  <2>1. CASE program = "ts2mmt" /\ blk # NoBuf /\ outMemory[blk] # <<>>
    <3>1. queue' = Append(queue, blk) /\ blk' = NoBuf
      BY <2>1 DEF CloseOut, CloseOutput
    <3>2. s = outMemory[blk] /\ outMemory' = [outMemory EXCEPT ![blk] = s]
      <4>1. s = outMemory[blk]
        BY <1>6, <2>1 DEF Mine
      <4>2. outMemory \in [OutBuffers -> Seq(Nat)]
        BY <1>1, Here DEF OutputTypeOK
      <4>3. QED
        BY <1>0, <4>1, <4>2
    <3>3. Put = Len(accepted) + 0
      BY <2>1 DEF Put
    <3>4. Len(accepted') = End(out, queue) + Len(s) /\ p = Len(accepted)
      <4>1. Len(accepted) = p
        <5>1. Len(accepted) \in Nat
          BY <1>7
        <5>2. p = Len(accepted) + 0
          BY <1>5, <3>3, Zenon
        <5>3. QED
          BY <5>1, <5>2
      <4>2. QED
        BY <1>0, <1>7, <4>1
    <3>5. outClosed' \in BOOLEAN /\ accepted' \in Seq(Nat) /\ Follows(accepted', 0)
      BY <1>0, <1>7
    <3>6. OutputTypeOK' /\ OutputOnce' /\ (\E later : OutputFlow(later)') /\ Mine' = <<>>
      BY <1>0, <1>1, <1>2, <1>7, <1>8, <2>1, <3>1, <3>2, <3>4, <3>5, Here, SendStep
    <3>7. Put' = Len(accepted') + 0
      BY <1>0, <2>1 DEF Put
    <3>8. QED
      BY <1>0, <1>7, <2>1, <3>4, <3>6, <3>7
  <2>2. CASE ~(program = "ts2mmt" /\ blk # NoBuf /\ outMemory[blk] # <<>>)
    <3>1. UNCHANGED <<queue, blk>>
      BY <1>0, <1>1, <2>2, Here DEF CloseOut, CloseOutput, ConversionTypeOK
    <3>2. OutputTypeOK' /\ OutputOnce'
      BY <1>0, <1>1, <3>1, Here, Zenon DEF OutputTypeOK, OutputOnce
    <3>3. Mine' = Mine
      BY <1>0, <3>1 DEF Mine
    <3>4. Put' = Put
      BY <1>0, <3>3 DEF Put
    <3>5. Chain(out, queue, outMemory)'
      BY <1>0, <1>2, <3>1, Zenon DEF OutputFlow
    <3>6. Draining(out[1])'
      BY <1>0, <1>2, <1>8, <3>1, Zenon DEF OutputFlow, Draining
    <3>e. PICK end : end = End(out, queue)
      OBVIOUS
    <3>7. Accepting(end)'
      BY <1>0, <1>2, <3>3, <3>e, Zenon DEF OutputFlow, Accepting
    <3>8. OutputFlow(out)'
      BY <3>1, <3>5, <3>6, <3>7, <3>e, Zenon DEF OutputFlow
    <3>9. program = "ts2mmt" => Mine = <<>>
      BY <2>2 DEF Mine
    <3>10. QED
      BY <1>5, <3>1, <3>2, <3>3, <3>4, <3>8, <3>9
  <2>3. QED
    BY <2>1, <2>2
<1>10. PICK later : OutputFlow(later)'
  BY <1>9
<1>11. ConversionTypeOK'
  BY <1>0, <1>1, Here DEF ConversionTypeOK
<1>12. Control'
  BY <1>0, <1>1, <1>4, <1>9, Here DEF Control, ConversionTypeOK
<1>13. /\ exit' = "none" /\ Follows(todo', p) /\ Len(accepted') <= p
       /\ in[1] = p + Len(todo') + (rest'.to - rest'.from)
  BY <1>0, <1>1, <1>3, <1>4, <1>5, <1>7, Here
<1>14. QED
  BY <1>4, <1>7, <1>9, <1>10, <1>11, <1>12, <1>13, Goes

LEMMA SameUnits ==
  ASSUME NEW s \in Seq(Nat), NEW t \in Seq(Nat), Follows(s, 0), Follows(t, 0), Len(s) = Len(t)
  PROVE  s = t
BY DEF Follows

LEMMA AllIsOut ==
  ASSUME IInv, step = "wait", drainer = "done", ~writeErr
  PROVE  /\ filler = "done" /\ sink = accepted /\ Len(sink) = pos
         /\ program = "mmt2ts" \/ readErr = "EOF" => pos = Total
<1>1. step # "over"
  OBVIOUS
<1>2. PICK out : OutputFlow(out)
  BY <1>1, Here
<1>3. PICK in : InputFlow(in) /\ in[1] = Put + Len(todo) + (rest.to - rest.from)
  BY <1>1, Here
<1>4. readErr # "none" /\ Mine = <<>> /\ todo = <<>>
  BY <1>1, Here DEF Control, ConversionTypeOK
<1>5. PICK p : p = Put
  OBVIOUS
<1>6. PICK end : end = End(out, queue)
  OBVIOUS
<1>7. queue = <<>> /\ end = out[1]
  <2>1. queue = <<>>
    BY <1>2 DEF OutputFlow, Draining
  <2>2. Len(queue) + 1 = 1
    BY <2>1
  <2>3. QED
    BY <1>6, <2>1, <2>2, Zenon DEF End
<1>8. /\ p \in Nat /\ p = end + Len(Mine) /\ end \in Nat
      /\ Len(accepted) \in Nat /\ Len(accepted) <= p
      /\ Len(sink) \in Nat /\ Len(sink) <= Len(accepted)
      /\ sink \in Seq(Nat) /\ Follows(sink, 0)
      /\ accepted \in Seq(Nat) /\ Follows(accepted, 0)
  BY <1>1, <1>2, <1>5, <1>6, Here, PutIsEnd DEF OutputTypeOK
<1>9. end = Len(sink) + 0
  BY <1>2, <1>7 DEF OutputFlow, Draining
<1>10. Len(Mine) = 0 /\ Len(todo) = 0
  BY <1>4
<1>11. p = Len(sink) /\ Len(accepted) = Len(sink)
  BY <1>8, <1>9, <1>10
<1>12. sink = accepted
  BY <1>8, <1>11, SameUnits
<1>13. filler = "done" /\ ahead = <<>> /\ rest = EmptyBlock /\ (readErr = "EOF" => pos = Total)
  BY <1>3, <1>4 DEF InputFlow, ErrorIsLast
<1>14. in[1] = p + 0 + (0 - 0)
  <2>1. rest.to = 0 /\ rest.from = 0
    BY <1>13 DEF EmptyBlock
  <2>2. QED
    BY <1>3, <1>5, <1>10, <2>1, Zenon
<1>15. pos = in[1]
  <2>1. Len(ahead) + 1 = 1
    BY <1>13
  <2>2. QED
    BY <1>3, <1>13, <2>1, Zenon DEF InputFlow, Filling
<1>16. pos = p
  BY <1>8, <1>14, <1>15
<1>17. program = "mmt2ts" => readErr = "EOF"
  BY <1>1, <1>4, Here DEF Control, InputTypeOK, Errors
<1>18. QED
  BY <1>11, <1>12, <1>13, <1>16, <1>17

LEMMA ExitStep ==
  ASSUME IInv, Exit
  PROVE  IInv'
<1>0. /\ step \in {"wait", "failing"} /\ drainer = "done" /\ step' = "over" /\ stop' = TRUE
      /\ exit' = (IF step = "failing" \/ writeErr THEN "error" ELSE "ok")
      /\ UNCHANGED <<filler, filled, pos, inMemory, ahead, spare, rest, readErr>>
      /\ UNCHANGED <<outVars, program, todo>>
  BY DEF Exit, CloseInput, fillVars
<1>1. step # "over" /\ exit' \in {"ok", "error"}
  BY <1>0
<1>2. PICK out : OutputFlow(out)
  BY <1>1, Here
<1>3. /\ OutputTypeOK' /\ OutputOnce' /\ OutputFlow(out)'
      /\ UNCHANGED <<Mine, Put, blk, outClosed, accepted, drainer, outMemory, writeErr, sink, queue>>
  BY <1>0, <1>1, <1>2, Here, OutputSame
<1>4. InputTypeOK'
  BY <1>0, <1>1, Here DEF InputTypeOK
<1>5. ConversionTypeOK'
  BY <1>0, <1>1, Here DEF ConversionTypeOK
<1>6. Control'
  BY <1>0, <1>1, <1>3, Here DEF Control, ConversionTypeOK
<1>7. Between'
  <2>1. Follows(todo', Put')
    BY <1>0, <1>1, <1>3, Here, Zenon
  <2>2. Len(accepted') <= Total
    BY <1>3 DEF IInv, Between
  <2>3. QED
    BY <1>0, <1>3, <2>1, <2>2, Zenon DEF Between
<1>8. Over'
  <2>1. CASE exit' = "ok"
    <3>1. step = "wait" /\ ~writeErr
      BY <1>0, <2>1
    <3>2. QED
      BY <1>0, <1>3, <3>1, AllIsOut DEF Over
  <2>2. CASE exit' # "ok"
    BY <2>2 DEF Over
  <2>3. QED
    BY <2>1, <2>2
<1>9. QED
  BY <1>3, <1>4, <1>5, <1>6, <1>7, <1>8 DEF IInv
-----------------------------------------------------------------------------
(* The two other goroutines.                                               *)

\* fill may go on after Close, until it sees it
LEMMA FillType ==
  ASSUME InputTypeOK, Fill
  PROVE  InputTypeOK' /\ UNCHANGED <<rest, readErr, stop>>
<1>1. CASE FillTake
  <2>1. Head(spare) \in InBuffers /\ Tail(spare) \in Seq(InBuffers)
    BY <1>1 DEF FillTake, InputTypeOK
  <2>2. filled' \in InBlocks
    BY <1>1, <2>1, ReadAheadAssumption DEF FillTake, InBlocks, EmptyBlock, Errors, InBuffers
  <2>3. QED
    BY <1>1, <2>1, <2>2 DEF FillTake, InputTypeOK
<1>2. CASE FillStop
  BY <1>2 DEF FillStop, InputTypeOK
<1>3. CASE FillRead
  <2>1. PICK n \in 0 .. InBlock, e \in Errors :
          /\ pos + n <= Total
          /\ inMemory' = [inMemory EXCEPT ![filled.buf] = [i \in 1 .. n |-> pos + i]]
          /\ filled' = [filled EXCEPT !.to = n, !.err = e]
          /\ filler' = IF n > 0 THEN "block" ELSE "error"
          /\ pos' = pos + n
    BY <1>3, Zenon DEF FillRead, Errors
  <2>2. pos \in Nat /\ n \in Nat /\ pos' \in 0 .. Total
    BY <2>1, ReadAheadAssumption DEF InputTypeOK
  <2>3. [i \in 1 .. n |-> pos + i] \in Seq(Nat)
    BY <2>2
  <2>4. inMemory' \in [InBuffers -> Seq(Nat)]
    BY <2>1, <2>3 DEF InputTypeOK
  <2>5. filled' \in InBlocks
    BY <2>1, <2>2 DEF InputTypeOK, InBlocks
  <2>6. filler' \in {"block", "error"}
    BY <2>1
  <2>7. UNCHANGED <<ahead, spare, rest, readErr, stop>>
    BY <1>3 DEF FillRead
  <2>8. QED
    BY <2>2, <2>4, <2>5, <2>6, <2>7 DEF InputTypeOK
<1>4. CASE FillSend
  <2>1. [filled EXCEPT !.err = "none"] \in InBlocks
    BY DEF InputTypeOK, InBlocks, Errors
  <2>2. ahead' \in Seq(InBlocks)
    BY <1>4, <2>1 DEF FillSend, InputTypeOK
  <2>3. QED
    BY <1>4, <2>2 DEF FillSend, InputTypeOK
<1>5. CASE FillSendError
  <2>1. [EmptyBlock EXCEPT !.err = filled.err] \in InBlocks
    <3>1. PICK e \in Errors : e = filled.err
      BY DEF InputTypeOK, InBlocks
    <3>2. [EmptyBlock EXCEPT !.err = e] = [buf |-> 0, from |-> 0, to |-> 0, err |-> e]
      BY DEF EmptyBlock
    <3>3. 0 \in Nat /\ 0 \in 0 .. InDepth
      BY ReadAheadAssumption
    <3>4. QED
      BY <3>1, <3>2, <3>3 DEF InBlocks
  <2>2. ahead' \in Seq(InBlocks)
    BY <1>5, <2>1 DEF FillSendError, InputTypeOK
  <2>3. QED
    BY <1>5, <2>2 DEF FillSendError, InputTypeOK
<1>6. QED
  BY <1>1, <1>2, <1>3, <1>4, <1>5 DEF Fill

LEMMA ReadingStep ==
  ASSUME IInv, Reading
  PROVE  IInv'
<1>0. Fill /\ UNCHANGED <<outVars, program, step, todo, exit>>
  BY DEF Reading
<1>1. /\ InputTypeOK /\ OutputTypeOK /\ ConversionTypeOK /\ OutputOnce /\ Control /\ Between /\ Over
  BY DEF IInv
<1>2. InputTypeOK' /\ UNCHANGED <<rest, readErr, stop>>
  BY <1>0, <1>1, FillType
<1>3. PICK out : OutputFlow(out)
  BY <1>1 DEF Between
<1>4. /\ OutputTypeOK' /\ OutputOnce' /\ OutputFlow(out)'
      /\ UNCHANGED <<Mine, Put, blk, outClosed, accepted, drainer, outMemory, writeErr, sink, queue>>
  BY <1>0, <1>1, <1>3, OutputSame
<1>5. ConversionTypeOK'
  BY <1>0, <1>1 DEF ConversionTypeOK
<1>6. Control'
  BY <1>0, <1>1, <1>2, <1>4 DEF Control
<1>7. CASE step = "over"
  <2>1. exit # "ok"
    BY <1>0, <1>1 DEF Over, Fill, FillTake, FillStop, FillRead, FillSend, FillSendError
  <2>2. Over'
    BY <1>0, <2>1 DEF Over
  <2>3. Between'
    <3>1. step' = "over"
      BY <1>0, <1>7
    <3>2. Follows(todo', Put') /\ Len(accepted') <= Total
      BY <1>0, <1>1, <1>4, Zenon DEF Between
    <3>3. QED
      BY <1>4, <3>1, <3>2, Zenon DEF Between
  <2>4. QED
    BY <1>2, <1>4, <1>5, <1>6, <2>2, <2>3 DEF IInv
<1>8. CASE step # "over"
  <2>1. PICK in : InputFlow(in) /\ in[1] = Put + Len(todo) + (rest.to - rest.from)
    BY <1>8, Here
  <2>2. InputOnce' /\ \E later : InputFlow(later)' /\ later[1] = in[1]
    <3>1. CASE FillTake
      BY <1>8, <2>1, <3>1, Here, FillTakeStep
    <3>2. CASE FillStop
      BY <1>8, <3>2, Here DEF FillStop
    <3>3. CASE FillRead
      BY <1>8, <2>1, <3>3, Here, FillReadStep
    <3>4. CASE FillSend
      BY <1>8, <2>1, <3>4, Here, FillSendStep
    <3>5. CASE FillSendError
      BY <1>8, <2>1, <3>5, Here, FillSendErrorStep
    <3>6. QED
      BY <1>0, <3>1, <3>2, <3>3, <3>4, <3>5 DEF Fill
  <2>3. PICK later : InputFlow(later)' /\ later[1] = in[1]
    BY <2>2
  <2>4. PICK p : p = Put
    OBVIOUS
  <2>5. p \in Nat /\ Follows(todo, p) /\ Len(accepted) <= p
    BY <1>1, <1>3, <1>8, <2>4, Here, PutIsEnd
  <2>6. /\ p = Put' /\ Follows(todo', p) /\ Len(accepted') <= p
        /\ later[1] = p + Len(todo') + (rest'.to - rest'.from)
    BY <1>0, <1>2, <1>4, <2>1, <2>3, <2>4, <2>5
  <2>7. exit' = "none"
    BY <1>0, <1>8, Here
  <2>8. QED
    BY <1>2, <1>4, <1>5, <1>6, <2>2, <2>3, <2>5, <2>6, <2>7, Goes
<1>9. QED
  BY <1>7, <1>8

LEMMA WritingStep ==
  ASSUME IInv, Writing
  PROVE  IInv'
<1>0. Drain /\ UNCHANGED <<inVars, program, step, todo, exit>>
  BY DEF Writing
<1>1. drainer # "done"
  BY <1>0 DEF Drain, DrainTake, DrainWrite, DrainFree
<1>2. step # "over"
  BY <1>1 DEF IInv, Control
<1>3. PICK out : OutputFlow(out)
  BY <1>2, Here
<1>4. PICK in : InputFlow(in) /\ in[1] = Put + Len(todo) + (rest.to - rest.from)
  BY <1>2, Here
<1>5. InputTypeOK' /\ InputOnce' /\ InputFlow(in)' /\ UNCHANGED <<rest, readErr, stop>>
  BY <1>0, <1>2, <1>4, Here, InputSame
<1>6. OutputTypeOK' /\ OutputOnce' /\ \E later : OutputFlow(later)'
  BY <1>0, <1>2, <1>3, Here, DrainTakeStep, DrainWriteStep, DrainFreeStep DEF Drain
<1>7. PICK later : OutputFlow(later)'
  BY <1>6
<1>8. UNCHANGED <<blk, outMemory, outClosed, accepted>>
  BY <1>0 DEF Drain, DrainTake, DrainWrite, DrainFree
<1>9. Mine' = Mine
  BY <1>8 DEF Mine
<1>10. Put' = Put
  BY <1>0, <1>8, <1>9 DEF Put
<1>11. ConversionTypeOK'
  BY <1>0, <1>2, Here DEF ConversionTypeOK
<1>12. Control'
  BY <1>0, <1>2, <1>5, <1>8, <1>9, Here DEF Control
<1>13. PICK p : p = Put
  OBVIOUS
<1>14. p \in Nat /\ Follows(todo, p) /\ Len(accepted) <= p
  BY <1>2, <1>3, <1>13, Here, PutIsEnd
<1>15. /\ p = Put' /\ Follows(todo', p) /\ Len(accepted') <= p /\ exit' = "none"
       /\ in[1] = p + Len(todo') + (rest'.to - rest'.from)
  BY <1>0, <1>2, <1>4, <1>5, <1>8, <1>10, <1>13, <1>14, Here
<1>16. QED
  BY <1>5, <1>6, <1>7, <1>11, <1>12, <1>14, <1>15, Goes

LEMMA Stuttering ==
  ASSUME IInv, UNCHANGED vars
  PROVE  IInv'
<1>0. UNCHANGED <<inVars, outVars, program, step, todo, exit>>
  BY DEF vars
<1>1. /\ InputTypeOK /\ OutputTypeOK /\ ConversionTypeOK /\ OutputOnce /\ Control /\ Between /\ Over
  BY DEF IInv
<1>2. UNCHANGED <<filler, filled, pos, ahead, spare, inMemory, rest, readErr, stop>>
  BY <1>0 DEF inVars, fillVars
<1>3. PICK out : OutputFlow(out)
  BY <1>1 DEF Between
<1>4. /\ OutputTypeOK' /\ OutputOnce' /\ OutputFlow(out)'
      /\ UNCHANGED <<Mine, Put, blk, outClosed, accepted, drainer, outMemory, writeErr, sink, queue>>
  BY <1>0, <1>1, <1>3, OutputSame
<1>5. InputTypeOK' /\ ConversionTypeOK'
  BY <1>0, <1>1, <1>2 DEF InputTypeOK, ConversionTypeOK
<1>6. Control'
  BY <1>0, <1>1, <1>2, <1>4 DEF Control
<1>7. Over'
  BY <1>0, <1>1, <1>2, <1>4 DEF Over
<1>8. Between'
  <2>1. Follows(todo', Put') /\ Len(accepted') <= Total
    BY <1>0, <1>1, <1>4, Zenon DEF Between
  <2>2. CASE step = "over"
    <3>1. step' = "over"
      BY <1>0, <2>2
    <3>2. QED
      BY <1>4, <2>1, <3>1, Zenon DEF Between
  <2>3. CASE step # "over"
    <3>1. PICK in : InputFlow(in) /\ in[1] = Got + (rest.to - rest.from)
      BY <1>1, <2>3 DEF Between
    <3>2. InputOnce' /\ InputFlow(in)'
      BY <1>0, <1>1, <2>3, <3>1, InputSame DEF Between
    <3>3. Got' = Got
      BY <1>0, <1>4 DEF Got
    <3>4. in[1] = Got' + (rest'.to - rest'.from)
      BY <1>2, <3>1, <3>3, Zenon
    <3>5. QED
      BY <1>4, <2>1, <3>2, <3>4, Zenon DEF Between
  <2>4. QED
    BY <2>2, <2>3
<1>9. QED
  BY <1>4, <1>5, <1>6, <1>7, <1>8 DEF IInv

LEMMA Invariance ==
  ASSUME IInv, [Next]_vars
  PROVE  IInv'
<1>1. CASE Reading
  BY <1>1, ReadingStep
<1>2. CASE Writing
  BY <1>2, WritingStep
<1>3. CASE Conversion
  <2>1. CASE \E b \in {rest} \cup {ahead[i] : i \in 1 .. Len(ahead)}, k \in Asks : Convert(b, k)
    BY <2>1, ConvertStep, Zenon
  <2>2. QED
    BY <1>3, <2>1, TakeBlockStep, ConvertEndsStep, PlacesStep, PutInBlockStep, FlushBlockStep,
       WriteUnitStep, CloseOutStep, ExitStep, Zenon DEF Conversion
<1>4. CASE UNCHANGED vars
  BY <1>4, Stuttering
<1>5. QED
  BY <1>1, <1>2, <1>3, <1>4 DEF Next

LEMMA Inductive == Spec => []IInv
<1>1. Init => IInv
  BY Initially
<1>2. IInv /\ [Next]_vars => IInv'
  BY Invariance
<1>3. QED
  BY <1>1, <1>2, PTL DEF Spec
-----------------------------------------------------------------------------
(* What the program promises.                                              *)

(* Whatever the reads and the writes return, and whenever, what is in the  *)
(* output is a beginning of the input, and exit status 0 means that it is  *)
(* all of what was read, up to the end of the input unless ts2mmt took a   *)
(* failed read for it.                                                     *)
THEOREM ExitStatus == Spec => []SuccessIsComplete
<1>1. IInv => SuccessIsComplete
  <2>1. SUFFICES ASSUME IInv PROVE SuccessIsComplete
    OBVIOUS
  <2>2. PICK out : OutputFlow(out)
    BY <2>1 DEF IInv, Between
  <2>3. /\ Len(sink) \in Nat /\ Len(sink) <= Len(accepted) /\ Len(accepted) \in Nat
        /\ sink \in Seq(Nat) /\ Follows(sink, 0) /\ Len(accepted) <= Total
    BY <2>1, <2>2, PutIsEnd DEF IInv, OutputTypeOK, Between
  <2>4. Input \in Seq(Nat) /\ Len(Input) = Total /\ Follows(Input, 0)
    BY ReadAheadAssumption DEF Input, Follows
  <2>5. Len(sink) <= Len(Input)
    BY <2>3, <2>4, ReadAheadAssumption
  <2>6. sink = SubSeq(Input, 1, Len(sink))
    BY <2>3, <2>4, <2>5, FollowsSame
  <2>7. ASSUME exit = "ok"
        PROVE  /\ sink = SubSeq(Input, 1, pos)
               /\ program = "mmt2ts" \/ readErr = "EOF" => sink = Input
    <3>1. Len(sink) = pos /\ (program = "mmt2ts" \/ readErr = "EOF" => pos = Total)
      BY <2>1, <2>7 DEF IInv, Over
    <3>2. sink = SubSeq(Input, 1, pos)
      BY <2>6, <3>1
    <3>3. pos = Total => sink = Input
      BY <2>3, <2>4, <3>1, SameUnits
    <3>4. QED
      BY <3>1, <3>2, <3>3
  <2>8. QED
    BY <2>6, <2>7 DEF SuccessIsComplete
<1>2. QED
  BY <1>1, Inductive, PTL
-----------------------------------------------------------------------------
(* The output keeps the promise of a stream.                               *)

\* what was accepted and what was written are both beginnings of the input
Beginnings ==
  /\ accepted \in Seq(Nat) /\ Follows(accepted, 0)
  /\ sink \in Seq(Nat) /\ Follows(sink, 0)
  /\ Len(sink) \in Nat /\ Len(accepted) \in Nat /\ Len(sink) <= Len(accepted)

LEMMA AreBeginnings ==
  ASSUME IInv
  PROVE  Beginnings
<1>1. PICK out : OutputFlow(out)
  BY DEF IInv, Between
<1>2. QED
  BY <1>1, PutIsEnd DEF IInv, OutputTypeOK, Beginnings

LEMMA BeginningsArePrefixes ==
  ASSUME NEW s \in Seq(Nat), NEW t \in Seq(Nat), Follows(s, 0), Follows(t, 0), Len(s) <= Len(t)
  PROVE  Passed!IsPrefix(s, t)
<1>1. SubSeq(t, 1, Len(s)) = s
  BY FollowsSame
<1>2. SubSeq(s, 1, Len(s)) = s
  BY FollowsSame
<1>3. QED
  BY <1>1, <1>2 DEF Passed!IsPrefix

LEMMA Grows ==
  ASSUME NEW a \in Seq(Nat), NEW s \in Seq(Nat), NEW x
  PROVE  Len(a) <= Len(a \o s) /\ Len(a) <= Len(Append(a, x))
OBVIOUS

\* an action of the conversion other than Exit gives, or changes nothing
LEMMA ConversionGives ==
  ASSUME IInv, Conversion, ~Exit
  PROVE  /\ step # "over" /\ step' # "over" /\ UNCHANGED sink
         /\ UNCHANGED accepted \/ Len(accepted) <= Len(accepted')
<1>1. step # "over" /\ step' # "over"
  BY DEF Conversion, TakeBlock, Convert, ConvertEnds, PutDone, PutInBlock, FullBlock, FlushBlock,
         WriteBegins, WriteUnit, CloseOut
<1>2. CASE TakeBlock \/ PutInBlock \/ CloseOut
  BY <1>1, <1>2 DEF TakeBlock, NextBlock, PutInBlock, Fill1, CloseOut, CloseOutput, drainVars
<1>3. CASE ConvertEnds \/ PutDone \/ FullBlock \/ WriteBegins \/ \E b, k : Convert(b, k)
  BY <1>1, <1>3, Zenon DEF Convert, ConvertEnds, PutDone, FullBlock, WriteBegins, outVars, drainVars
<1>4. CASE FlushBlock
  <2>1. CASE UNCHANGED outVars
    BY <1>1, <2>1 DEF outVars, drainVars
  <2>2. CASE WriteBlock /\ step' = "block"
    <3>1. outMemory[blk] \in Seq(Nat) /\ accepted \in Seq(Nat)
      <4>1. blk # NoBuf
        BY <1>1, <1>4, Here DEF FlushBlock, Control, ConversionTypeOK
      <4>2. blk \in OutBuffers
        BY <1>1, <4>1, Here, AsyncWriterAssumption DEF OutputTypeOK, NoBuf, OutBuffers
      <4>3. QED
        BY <1>1, <4>2, Here DEF OutputTypeOK
    <3>2. accepted' = accepted \o outMemory[blk] /\ UNCHANGED sink
      BY <2>2 DEF WriteBlock, drainVars
    <3>3. Len(accepted) <= Len(accepted')
      BY <3>1, <3>2, Grows
    <3>4. QED
      BY <1>1, <3>2, <3>3
  <2>3. QED
    BY <1>4, <2>1, <2>2 DEF FlushBlock
<1>5. CASE WriteUnit
  <2>1. CASE WriteTake
    BY <1>1, <2>1 DEF WriteTake, drainVars
  <2>2. CASE WriteCopy(Head(todo))
    <3>1. accepted' = Append(accepted, Head(todo)) /\ UNCHANGED sink /\ accepted \in Seq(Nat)
      BY <1>1, <2>2, Here DEF WriteCopy, drainVars, OutputTypeOK
    <3>2. Len(accepted) <= Len(accepted')
      BY <3>1, Grows
    <3>3. QED
      BY <1>1, <3>1, <3>2
  <2>3. QED
    BY <1>5, <2>1, <2>2 DEF WriteUnit
<1>6. QED
  BY <1>2, <1>3, <1>4, <1>5, Zenon DEF Conversion

LEMMA StreamStep ==
  ASSUME IInv, Beginnings, Beginnings', [Next]_vars
  PROVE  [Passed!Next]_(Passed!vars)
<1>1. CASE Exit
  <2>1. /\ step # "over" /\ step' = "over" /\ UNCHANGED <<accepted, sink>>
        /\ drainer = "done"
        /\ exit' = (IF step = "failing" \/ writeErr THEN "error" ELSE "ok")
        /\ step \in {"wait", "failing"}
    BY <1>1 DEF Exit, outVars, drainVars
  <2>2. CASE exit' = "ok"
    <3>1. sink = accepted
      BY <2>1, <2>2, AllIsOut
    <3>2. Passed!End
      BY <2>1, <2>2, <3>1 DEF Passed!End
    <3>3. QED
      BY <3>2 DEF Passed!Next
  <2>3. CASE exit' # "ok"
    <3>1. Passed!Fail
      BY <2>1, <2>3 DEF Passed!Fail
    <3>2. QED
      BY <3>1 DEF Passed!Next
  <2>4. QED
    BY <2>2, <2>3
<1>2. CASE Conversion /\ ~Exit
  <2>1. /\ step # "over" /\ step' # "over" /\ UNCHANGED sink
        /\ UNCHANGED accepted \/ Len(accepted) <= Len(accepted')
    BY <1>2, ConversionGives
  <2>2. CASE UNCHANGED accepted
    BY <2>1, <2>2 DEF Passed!vars
  <2>3. CASE Len(accepted) <= Len(accepted')
    <3>1. Passed!IsPrefix(accepted, accepted')
      BY <2>3, BeginningsArePrefixes DEF Beginnings
    <3>2. Passed!Give
      BY <2>1, <3>1 DEF Passed!Give
    <3>3. QED
      BY <3>2 DEF Passed!Next
  <2>4. QED
    BY <2>1, <2>2, <2>3
<1>3. CASE Reading \/ UNCHANGED vars
  BY <1>3 DEF Reading, vars, outVars, drainVars, Passed!vars
<1>4. CASE Writing
  <2>1. UNCHANGED <<step, exit, accepted>>
    BY <1>4 DEF Writing, Drain, DrainTake, DrainWrite, DrainFree
  <2>2. step # "over"
    BY <1>4 DEF Writing, Drain, DrainTake, DrainWrite, DrainFree, IInv, Control
  <2>3. CASE UNCHANGED sink
    BY <2>1, <2>3 DEF Passed!vars
  <2>4. CASE DrainWrite
    <3>1. PICK out : OutputFlow(out)
      BY <2>2, Here
    <3>2. Len(sink) <= Len(sink')
      BY <1>4, <2>2, <2>4, <3>1, Here, DrainWriteStep DEF Writing
    <3>3. Passed!IsPrefix(sink, sink') /\ Passed!IsPrefix(sink', accepted)
      BY <2>1, <3>2, BeginningsArePrefixes DEF Beginnings
    <3>4. Passed!Pass
      BY <2>1, <2>2, <3>3 DEF Passed!Pass
    <3>5. QED
      BY <3>4 DEF Passed!Next
  <2>5. QED
    BY <1>4, <2>3, <2>4 DEF Writing, Drain, DrainTake, DrainFree
<1>5. QED
  BY <1>1, <1>2, <1>3, <1>4 DEF Next

(* What the calls of AsyncWriter accepted reaches the output in order and  *)
(* without a hole, although a buffer that was written is filled again, and *)
(* Close returns no error only when all of it did: for any number of       *)
(* buffers, the writer of a program implements a stream.                   *)
THEOREM WriterIsAStream == Spec => WriterKeepsThePromise
<1>1. Init => Passed!Init
  BY DEF Init, OutInit, Passed!Init
<1>2. IInv => Beginnings
  BY AreBeginnings
<1>3. IInv /\ Beginnings /\ Beginnings' /\ [Next]_vars => [Passed!Next]_(Passed!vars)
  BY StreamStep
<1>4. QED
  BY <1>1, <1>2, <1>3, Inductive, PTL DEF Spec, WriterKeepsThePromise, Passed!Spec

(* The types, and where each buffer is: free, in a channel, with one of    *)
(* the goroutines, and never in two of these places.                       *)
THEOREM BuffersApart ==
  Spec => [](InputTypeOK /\ OutputTypeOK /\ ConversionTypeOK /\ OutputOnce
             /\ (step # "over" => InputOnce))
<1>1. IInv => /\ InputTypeOK /\ OutputTypeOK /\ ConversionTypeOK /\ OutputOnce
              /\ (step # "over" => InputOnce)
  BY DEF IInv, Between
<1>2. QED
  BY <1>1, Inductive, PTL
=============================================================================
