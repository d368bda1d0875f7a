---------------------------- MODULE ParallelReader ----------------------------
(***************************************************************************)
(* iopipe.ParallelReader: workers read the blocks of a regular file in     *)
(* turn, each ahead of the consumer through a channel of its own, and Read *)
(* takes the blocks round-robin.  Buffers go around: the consumer hands a  *)
(* buffer back to its worker, which reads into the same memory again.      *)
(*                                                                         *)
(* The file's content is the sequence of its units, 1 .. FileSize.         *)
(***************************************************************************)
EXTENDS Integers, Sequences

CONSTANTS
  Workers,    \* how many workers there are
  Depth,      \* how many blocks a worker's channel holds
  BlockSize,  \* units per block
  FileSize,   \* units in the file when it was opened
  Asks,       \* how many units a call of Read asks for
  Failing     \* how many units a read that fails has read before it failed

ASSUME ReaderAssumption ==
  /\ {Workers, Depth, BlockSize} \subseteq Nat \ {0}
  /\ FileSize \in Nat
  /\ Asks \subseteq Nat \ {0}
  /\ Failing \subseteq 0 .. BlockSize - 1

VARIABLES
  pc,        \* worker -> "take", "read", "block", "error" or "done"
  off,       \* worker -> where it reads next
  held,      \* worker -> the block it is about to send
  ready,     \* worker -> its channel of blocks
  closed,    \* worker -> its channel is closed
  free,      \* worker -> its channel of free buffers
  memory,    \* buffer -> what it holds
  next,      \* the worker whose block comes next
  cur,       \* what is left of the block the consumer is in
  err,       \* "none", or what Read returns from now on: "EOF" or "failed"
  out,       \* what Read returned, all calls together
  stopped    \* Close was called

worker  == <<pc, off, held, ready, closed, free, memory>>
reading == <<next, cur, err, out, stopped>>
vars    == <<worker, reading>>

WorkerIds == 0 .. Workers - 1
Buffers   == WorkerIds \X (0 .. Depth)
NoBuffer  == <<-1, 0>>
NoBlock   == [buf |-> NoBuffer, from |-> 0, to |-> 0, err |-> "none"]

File == [i \in 1 .. FileSize |-> i]

Init ==
  /\ pc = [w \in WorkerIds |-> "take"]
  /\ off = [w \in WorkerIds |-> w * BlockSize]
  /\ held = [w \in WorkerIds |-> NoBlock]
  /\ ready = [w \in WorkerIds |-> <<>>]
  /\ closed = [w \in WorkerIds |-> FALSE]
  /\ free = [w \in WorkerIds |-> [i \in 1 .. Depth + 1 |-> <<w, i - 1>>]]
  /\ memory = [b \in Buffers |-> <<>>]
  /\ next = 0
  /\ cur = NoBlock
  /\ err = "none"
  /\ out = <<>>
  /\ stopped = FALSE
-----------------------------------------------------------------------------
(* fetch, one goroutine per worker.                                        *)

\* a file of unknown size, reported as 0, is read to its end
More(w) == FileSize = 0 \/ off[w] < FileSize

Take(w) ==
  /\ pc[w] = "take" /\ More(w)
  /\ free[w] # <<>>
  /\ held' = [held EXCEPT ![w] = [NoBlock EXCEPT !.buf = Head(free[w])]]
  /\ free' = [free EXCEPT ![w] = Tail(@)]
  /\ pc' = [pc EXCEPT ![w] = "read"]
  /\ UNCHANGED <<off, ready, closed, memory, reading>>

Return(w) ==
  /\ pc' = [pc EXCEPT ![w] = "done"]
  /\ closed' = [closed EXCEPT ![w] = TRUE]

Ends(w) ==
  /\ pc[w] = "take" /\ ~More(w)
  /\ Return(w)
  /\ UNCHANGED <<off, held, ready, free, memory, reading>>

\* a select that may take <-stop
Halt(w) ==
  /\ stopped
  /\ pc[w] \in {"take", "block", "error"}
  /\ Return(w)
  /\ UNCHANGED <<off, held, ready, free, memory, reading>>

Least(m, n) == IF m < n THEN m ELSE n

\* how much there is to read in the block at off
Available(w) == IF off[w] >= FileSize THEN 0 ELSE Least(BlockSize, FileSize - off[w])

\* ReadAt reads the whole block, or less and says why
Reads(w, n, e) ==
  \/ n = Available(w) /\ e = (IF n < BlockSize THEN "EOF" ELSE "none")
  \/ n \in Failing /\ n < Available(w) /\ e = "failed"

ReadBlock(w) ==
  /\ pc[w] = "read"
  /\ \E n \in 0 .. BlockSize, e \in {"none", "EOF", "failed"} :
       /\ Reads(w, n, e)
       /\ memory' = [memory EXCEPT ![held[w].buf] = [i \in 1 .. n |-> off[w] + i]]
       /\ held' = [held EXCEPT ![w].to = n, ![w].err = e]
       /\ pc' = [pc EXCEPT ![w] = IF n > 0 THEN "block" ELSE "error"]
  /\ UNCHANGED <<off, ready, closed, free, reading>>

\* mutant: a worker goes on with the next block instead of its own next one
SendBlockNext(w) ==
  /\ pc[w] = "block" /\ Len(ready[w]) < Depth
  /\ ready' = [ready EXCEPT ![w] = Append(@, [held[w] EXCEPT !.err = "none"])]
  /\ held' = [held EXCEPT ![w].buf = NoBuffer, ![w].to = 0]
  /\ pc' = [pc EXCEPT ![w] = IF held[w].err = "none" THEN "take" ELSE "error"]
  /\ off' = [off EXCEPT ![w] = IF held[w].err = "none" THEN @ + BlockSize ELSE @]
  /\ UNCHANGED <<closed, free, memory, reading>>

\* a block read with an error is sent before the error, which ends the worker
SendBlock(w) ==
  /\ pc[w] = "block" /\ Len(ready[w]) < Depth
  /\ ready' = [ready EXCEPT ![w] = Append(@, [held[w] EXCEPT !.err = "none"])]
  /\ held' = [held EXCEPT ![w].buf = NoBuffer, ![w].to = 0]
  /\ pc' = [pc EXCEPT ![w] = IF held[w].err = "none" THEN "take" ELSE "error"]
  /\ off' = [off EXCEPT ![w] = IF held[w].err = "none" THEN @ + Workers * BlockSize ELSE @]
  /\ UNCHANGED <<closed, free, memory, reading>>

SendError(w) ==
  /\ pc[w] = "error" /\ Len(ready[w]) < Depth
  /\ ready' = [ready EXCEPT ![w] = Append(@, [NoBlock EXCEPT !.err = held[w].err])]
  /\ Return(w)
  /\ UNCHANGED <<off, held, free, memory, reading>>

Fetch(w) == Take(w) \/ Ends(w) \/ Halt(w) \/ ReadBlock(w) \/ SendBlock(w) \/ SendError(w)
-----------------------------------------------------------------------------
(* Read and Close, called by the conversion.                               *)

\* mutant: a buffer used up by a later call is not handed back
DeliverForgetful(b, k) ==
  LET n == Least(k, b.to - b.from)
      w == b.buf[1]
  IN  /\ out' = out \o SubSeq(memory[b.buf], b.from + 1, b.from + n)
      /\ IF b.from + n = b.to
         THEN /\ cur' = NoBlock
              /\ free' = IF b.from = 0 /\ Len(free[w]) <= Depth
                         THEN [free EXCEPT ![w] = Append(@, b.buf)] ELSE free
         ELSE /\ cur' = [b EXCEPT !.from = @ + n]
              /\ UNCHANGED free

\* copies at most k units of block b, and hands a used-up buffer back
Deliver(b, k) ==
  LET n == Least(k, b.to - b.from)
      w == b.buf[1]
  IN  /\ out' = out \o SubSeq(memory[b.buf], b.from + 1, b.from + n)
      /\ IF b.from + n = b.to
         THEN /\ cur' = NoBlock
              /\ free' = IF Len(free[w]) <= Depth
                         THEN [free EXCEPT ![w] = Append(@, b.buf)] ELSE free
         ELSE /\ cur' = [b EXCEPT !.from = @ + n]
              /\ UNCHANGED free

ReadRest(k) ==
  /\ ~stopped /\ cur.from < cur.to
  /\ Deliver(cur, k)
  /\ UNCHANGED <<pc, off, held, ready, closed, memory, next, err, stopped>>

Advance == next' = (next + 1) % Workers

ReadNext(k) ==
  /\ ~stopped /\ cur = NoBlock /\ err = "none"
  /\ ready[next] # <<>>
  /\ Advance
  /\ ready' = [ready EXCEPT ![next] = Tail(@)]
  /\ LET b == Head(ready[next]) IN
       IF b.err = "none" THEN Deliver(b, k) /\ UNCHANGED err
       ELSE err' = b.err /\ UNCHANGED <<cur, out, free>>
  /\ UNCHANGED <<pc, off, held, closed, memory, stopped>>

ReadClosed ==
  /\ ~stopped /\ cur = NoBlock /\ err = "none"
  /\ ready[next] = <<>> /\ closed[next]
  /\ Advance
  /\ err' = "EOF"
  /\ UNCHANGED <<worker, cur, out, stopped>>

Read == ReadClosed \/ \E k \in Asks : ReadRest(k) \/ ReadNext(k)

\* after the end, an error, or an error elsewhere in the conversion
Close ==
  /\ ~stopped
  /\ stopped' = TRUE
  /\ UNCHANGED <<worker, next, cur, err, out>>

Next ==
  \/ \E w \in WorkerIds : Fetch(w)
  \/ Read
  \/ Close

Spec == Init /\ [][Next]_vars

\* goroutines are scheduled, ReadAt returns, and the conversion goes on reading
FairSpec ==
  /\ Spec
  /\ \A w \in WorkerIds : WF_vars(Fetch(w))
  /\ WF_vars(Read)
-----------------------------------------------------------------------------
Promise == INSTANCE Stream WITH
  given <- File, passed <- out,
  outcome <- CASE err = "none" -> "open" [] err = "EOF" -> "end" [] err = "failed" -> "error"

(* Read keeps the promise of a stream: the file's units in order and       *)
(* without a hole, and the end only after the last of them.                *)
KeepsThePromise == Promise!Spec

(* Read never waits for ever: the end, an error or Close comes; and Close  *)
(* ends every goroutine, wherever it waits.                                *)
Finishes ==
  /\ <>(err # "none" \/ stopped)
  /\ stopped ~> \A w \in WorkerIds : pc[w] = "done"
=============================================================================
