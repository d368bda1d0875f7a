------------------------------ MODULE ReadAhead ------------------------------
(***************************************************************************)
(* iopipe.ReadAhead: a goroutine reads standard input, or what else is no  *)
(* regular file, ahead of the conversion into Depth buffers that go around *)
(* between the two.  The input is the sequence of its units, 1 .. Total.   *)
(***************************************************************************)
EXTENDS Integers, Sequences, FiniteSets

CONSTANTS
  InDepth,     \* how many buffers there are
  InBlock,     \* units per buffer
  Total,       \* units of the input
  InFails      \* whether a read may fail

ASSUME ReadAheadAssumption ==
  /\ {InDepth, InBlock} \subseteq Nat \ {0}
  /\ Total \in Nat
  /\ InFails \in BOOLEAN

VARIABLES
  filler,      \* where fill is: "take", "read", "block", "error" or "done"
  filled,      \* the block fill is about to send
  pos,         \* units read so far
  ahead,       \* the channel of blocks
  spare,       \* the channel of free buffers
  inMemory,    \* buffer -> what it holds
  rest,        \* what is left of the block the conversion is in
  readErr,     \* "none", or what Read returns from now on: "EOF" or "failed"
  stop         \* Close was called

fillVars  == <<filler, filled, pos, inMemory>>
inVars    == <<fillVars, ahead, spare, rest, readErr, stop>>

InBuffers == 1 .. InDepth
EmptyBlock == [buf |-> 0, from |-> 0, to |-> 0, err |-> "none"]

InInit ==
  /\ filler = "take"
  /\ filled = EmptyBlock
  /\ pos = 0
  /\ ahead = <<>>
  /\ spare = [i \in InBuffers |-> i]
  /\ inMemory = [b \in InBuffers |-> <<>>]
  /\ rest = EmptyBlock
  /\ readErr = "none"
  /\ stop = FALSE
-----------------------------------------------------------------------------
(* fill                                                                    *)

FillTake ==
  /\ filler = "take"
  /\ spare # <<>>
  /\ filled' = [EmptyBlock EXCEPT !.buf = Head(spare)]
  /\ spare' = Tail(spare)
  /\ filler' = "read"
  /\ UNCHANGED <<pos, ahead, inMemory, rest, readErr, stop>>

\* a select that may take <-stop; the deferred close ends the channel
FillStop ==
  /\ stop
  /\ filler \in {"take", "block", "error"}
  /\ filler' = "done"
  /\ UNCHANGED <<filled, pos, ahead, spare, inMemory, rest, readErr, stop>>

\* io.Reader: some units, an error, or both
FillRead ==
  /\ filler = "read"
  /\ \E n \in 0 .. InBlock, e \in {"none", "EOF", "failed"} :
       /\ pos + n <= Total
       /\ n > 0 \/ e # "none"
       /\ e = "EOF" => pos + n = Total
       /\ e = "failed" => InFails
       /\ inMemory' = [inMemory EXCEPT ![filled.buf] = [i \in 1 .. n |-> pos + i]]
       /\ filled' = [filled EXCEPT !.to = n, !.err = e]
       /\ filler' = IF n > 0 THEN "block" ELSE "error"
       /\ pos' = pos + n
  /\ UNCHANGED <<ahead, spare, rest, readErr, stop>>

\* mutant: what came with an error is not sent
FillSendOnlyError ==
  /\ filler = "block" /\ Len(ahead) < InDepth
  /\ ahead' = IF filled.err = "none" THEN Append(ahead, filled) ELSE ahead
  /\ filler' = IF filled.err = "none" THEN "take" ELSE "error"
  /\ UNCHANGED <<filled, pos, spare, inMemory, rest, readErr, stop>>

FillSend ==
  /\ filler = "block" /\ Len(ahead) < InDepth
  /\ ahead' = Append(ahead, [filled EXCEPT !.err = "none"])
  /\ filler' = IF filled.err = "none" THEN "take" ELSE "error"
  /\ UNCHANGED <<filled, pos, spare, inMemory, rest, readErr, stop>>

FillSendError ==
  /\ filler = "error" /\ Len(ahead) < InDepth
  /\ ahead' = Append(ahead, [EmptyBlock EXCEPT !.err = filled.err])
  /\ filler' = "done"
  /\ UNCHANGED <<filled, pos, spare, inMemory, rest, readErr, stop>>

Fill == FillTake \/ FillStop \/ FillRead \/ FillSend \/ FillSendError
-----------------------------------------------------------------------------
(* Read and Close                                                          *)

AtMost(m, n) == IF m < n THEN m ELSE n

\* the units that a Read of up to k units of block b returns
Copied(b, k) == SubSeq(inMemory[b.buf], b.from + 1, b.from + AtMost(k, b.to - b.from))

\* a buffer all of whose units were returned goes back
After(b, k) ==
  IF k >= b.to - b.from
  THEN /\ rest' = EmptyBlock
       /\ spare' = IF Len(spare) < InDepth THEN Append(spare, b.buf) ELSE spare
  ELSE /\ rest' = [b EXCEPT !.from = @ + k]
       /\ UNCHANGED spare

\* the next Read returns units of block b
Current(b) ==
  \/ rest.from < rest.to /\ b = rest
  \/ rest = EmptyBlock /\ readErr = "none" /\ ahead # <<>> /\ Head(ahead).err = "none"
     /\ b = Head(ahead)

ReadUnits(b, k) ==
  /\ Current(b)
  /\ After(b, k)
  /\ ahead' = IF rest = EmptyBlock THEN Tail(ahead) ELSE ahead
  /\ UNCHANGED <<fillVars, readErr, stop>>

\* the error comes through the channel; a closed channel is the end
ReadEnds ==
  /\ rest = EmptyBlock /\ readErr = "none"
  /\ \/ /\ ahead # <<>> /\ Head(ahead).err # "none"
        /\ readErr' = Head(ahead).err
        /\ ahead' = Tail(ahead)
     \/ /\ ahead = <<>> /\ filler = "done"
        /\ readErr' = "EOF"
        /\ UNCHANGED ahead
  /\ UNCHANGED <<fillVars, spare, rest, stop>>

CloseInput ==
  /\ stop' = TRUE
  /\ UNCHANGED <<fillVars, ahead, spare, rest, readErr>>
=============================================================================
