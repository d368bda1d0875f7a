----------------------------- MODULE AsyncWriter -----------------------------
(***************************************************************************)
(* iopipe.AsyncWriter: the conversion fills buffers, with NextBlock and    *)
(* WriteBlock (mmt2ts) or Write (ts2mmt), and a goroutine writes them out  *)
(* and hands them back.  The first write that fails is kept: what comes    *)
(* after it is dropped, and the next call and Close return it.             *)
(***************************************************************************)
EXTENDS Integers, Sequences, FiniteSets

CONSTANTS
  OutDepth,    \* how many buffers there are
  OutBlock,    \* units per buffer
  OutFails     \* whether a write may fail

ASSUME AsyncWriterAssumption ==
  /\ {OutDepth, OutBlock} \subseteq Nat \ {0}
  /\ OutFails \in BOOLEAN

VARIABLES
  drainer,     \* where drain is: "take", "write", "free" or "done"
  draining,    \* the buffer drain has
  queue,       \* the channel of filled buffers
  outFree,     \* the channel of free buffers
  outMemory,   \* buffer -> what it holds
  blk,         \* the buffer the conversion fills, or NoBuf
  writeErr,    \* the write that failed is kept
  outClosed,   \* Close closed the channel
  sink,        \* what was written
  accepted     \* what the calls that returned no error took

drainVars == <<drainer, draining, writeErr, sink>>
outVars   == <<drainVars, queue, outFree, outMemory, blk, outClosed, accepted>>

OutBuffers == 1 .. OutDepth
NoBuf == 0

OutInit ==
  /\ drainer = "take"
  /\ draining = NoBuf
  /\ queue = <<>>
  /\ outFree = [i \in OutBuffers |-> i]
  /\ outMemory = [b \in OutBuffers |-> <<>>]
  /\ blk = NoBuf
  /\ writeErr = FALSE
  /\ outClosed = FALSE
  /\ sink = <<>>
  /\ accepted = <<>>
-----------------------------------------------------------------------------
(* drain                                                                   *)

\* the next buffer; after a failed write it is only handed back
DrainTake ==
  /\ drainer = "take"
  /\ \/ /\ queue # <<>>
        /\ draining' = Head(queue)
        /\ queue' = Tail(queue)
        /\ drainer' = IF writeErr THEN "free" ELSE "write"
     \/ /\ queue = <<>> /\ outClosed
        /\ drainer' = "done"
        /\ UNCHANGED <<draining, queue>>
  /\ UNCHANGED <<outFree, outMemory, blk, writeErr, outClosed, sink, accepted>>

\* WriteFull: all of the buffer, or a part and an error
DrainWrite ==
  /\ drainer = "write"
  /\ \E n \in 0 .. Len(outMemory[draining]) :
       /\ n < Len(outMemory[draining]) => OutFails
       /\ sink' = sink \o SubSeq(outMemory[draining], 1, n)
       /\ writeErr' = (n < Len(outMemory[draining]))
  /\ drainer' = "free"
  /\ UNCHANGED <<draining, queue, outFree, outMemory, blk, outClosed, accepted>>

\* mutant: a buffer that was not written is not handed back
DrainFreeWritten ==
  /\ drainer = "free"
  /\ outFree' = IF ~writeErr THEN Append(outFree, draining) ELSE outFree
  /\ draining' = NoBuf
  /\ drainer' = "take"
  /\ UNCHANGED <<queue, outMemory, blk, writeErr, outClosed, sink, accepted>>

DrainFree ==
  /\ drainer = "free"
  /\ outFree' = IF Len(outFree) < OutDepth THEN Append(outFree, draining) ELSE outFree
  /\ draining' = NoBuf
  /\ drainer' = "take"
  /\ UNCHANGED <<queue, outMemory, blk, writeErr, outClosed, sink, accepted>>

Drain == DrainTake \/ DrainWrite \/ DrainFree
-----------------------------------------------------------------------------
(* The calls of the conversion.  A call that would block is not enabled.   *)

\* NextBlock: the buffer it has, or the next free one, emptied
NextBlock ==
  /\ IF blk # NoBuf
     THEN UNCHANGED <<blk, outFree>> /\ outMemory' = [outMemory EXCEPT ![blk] = <<>>]
     ELSE /\ outFree # <<>>
          /\ blk' = Head(outFree)
          /\ outFree' = Tail(outFree)
          /\ outMemory' = [outMemory EXCEPT ![Head(outFree)] = <<>>]
  /\ UNCHANGED <<drainVars, queue, outClosed, accepted>>

\* the conversion appends to the block it got, which no call of the writer sees
Fill1(x) ==
  /\ outMemory' = [outMemory EXCEPT ![blk] = Append(@, x)]
  /\ UNCHANGED <<drainVars, queue, outFree, blk, outClosed, accepted>>

\* WriteBlock of a block that is not empty
WriteBlock ==
  /\ ~writeErr
  /\ Len(queue) < OutDepth
  /\ queue' = Append(queue, blk)
  /\ accepted' = accepted \o outMemory[blk]
  /\ blk' = NoBuf
  /\ UNCHANGED <<drainVars, outFree, outMemory, outClosed>>

\* Write takes a free buffer when it has none, and sends it when it is full
WriteTake ==
  /\ blk = NoBuf /\ outFree # <<>>
  /\ blk' = Head(outFree)
  /\ outFree' = Tail(outFree)
  /\ outMemory' = [outMemory EXCEPT ![Head(outFree)] = <<>>]
  /\ UNCHANGED <<drainVars, queue, outClosed, accepted>>

WriteCopy(x) ==
  /\ blk # NoBuf
  /\ Len(outMemory[blk]) + 1 = OutBlock => Len(queue) < OutDepth
  /\ outMemory' = [outMemory EXCEPT ![blk] = Append(@, x)]
  /\ accepted' = Append(accepted, x)
  /\ IF Len(outMemory[blk]) + 1 = OutBlock
     THEN queue' = Append(queue, blk) /\ blk' = NoBuf
     ELSE UNCHANGED <<queue, blk>>
  /\ UNCHANGED <<drainVars, outFree, outClosed>>

\* mutant: what Write left in an unfinished buffer is forgotten
CloseOutputEarly(mine) ==
  /\ ~outClosed
  /\ outClosed' = TRUE
  /\ UNCHANGED <<drainVars, queue, outFree, outMemory, blk, accepted>>

\* Close sends what Write left in a buffer; mine: the block is the caller's
CloseOutput(mine) ==
  /\ ~outClosed
  /\ IF ~mine /\ blk # NoBuf /\ outMemory[blk] # <<>>
     THEN Len(queue) < OutDepth /\ queue' = Append(queue, blk) /\ blk' = NoBuf
     ELSE UNCHANGED <<queue, blk>>
  /\ outClosed' = TRUE
  /\ UNCHANGED <<drainVars, outFree, outMemory, accepted>>
=============================================================================
