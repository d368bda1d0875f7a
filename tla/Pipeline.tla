------------------------------- MODULE Pipeline -------------------------------
(***************************************************************************)
(* A program run from standard input to an output: ReadAhead, the          *)
(* conversion and AsyncWriter, three goroutines that wait for each other   *)
(* through the two pairs of channels.  The conversion stands for what      *)
(* internal/remux and internal/tsremux do between the two; here it passes  *)
(* every unit on.                                                          *)
(*                                                                         *)
(* mmt2ts fills blocks (mpegts.Writer: NextBlock, Flush with WriteBlock),  *)
(* ts2mmt calls Write.                                                     *)
(***************************************************************************)
EXTENDS ReadAhead, AsyncWriter

CONSTANT Asks   \* how many units a call of Read asks for

ASSUME AsksAssumption == Asks \subseteq Nat \ {0}

VARIABLES
  program,   \* "mmt2ts" or "ts2mmt"
  step,      \* where the conversion is
  todo,      \* units it has read and not yet written
  exit       \* "none", or how the program ended: "ok" or "error"

vars == <<inVars, outVars, program, step, todo, exit>>

Init ==
  /\ InInit
  /\ OutInit
  /\ program \in {"mmt2ts", "ts2mmt"}
  /\ step = IF program = "mmt2ts" THEN "block" ELSE "read"
  /\ todo = <<>>
  /\ exit = "none"
-----------------------------------------------------------------------------
\* NewWriter and Flush take the next block
TakeBlock ==
  /\ step = "block"
  /\ NextBlock
  /\ step' = "put"
  /\ UNCHANGED <<inVars, program, todo, exit>>

Convert(b, k) ==
  /\ step = "read"
  /\ ReadUnits(b, k)
  /\ todo' = Copied(b, k)
  /\ step' = "put"
  /\ UNCHANGED <<outVars, program, exit>>

\* the end of the input: mmt2ts flushes the last block and fails when the read
\* did; ts2mmt takes every error of ReadFull for the end
ConvertEnds ==
  /\ step = "read"
  /\ ReadEnds
  /\ step' = IF program = "ts2mmt" THEN "close"
             ELSE IF readErr' = "failed" THEN "fail" ELSE "flush"
  /\ UNCHANGED <<outVars, program, todo, exit>>

PutDone ==
  /\ step = "put" /\ todo = <<>>
  /\ step' = IF readErr = "none" THEN "read" ELSE "close"
  /\ UNCHANGED <<inVars, outVars, program, todo, exit>>

\* mpegts.Writer.packet: a full block is flushed first
PutInBlock ==
  /\ step = "put" /\ todo # <<>> /\ program = "mmt2ts"
  /\ Len(outMemory[blk]) < OutBlock
  /\ Fill1(Head(todo))
  /\ todo' = Tail(todo)
  /\ UNCHANGED <<inVars, program, step, exit>>

FullBlock ==
  /\ step = "put" /\ todo # <<>> /\ program = "mmt2ts"
  /\ Len(outMemory[blk]) = OutBlock
  /\ step' = "flush"
  /\ UNCHANGED <<inVars, outVars, program, todo, exit>>

\* Flush of an empty block does nothing; a write that failed ends the conversion
FlushBlock ==
  /\ step = "flush"
  /\ \/ /\ outMemory[blk] = <<>>
        /\ step' = "put"
        /\ UNCHANGED outVars
     \/ /\ outMemory[blk] # <<>> /\ writeErr
        /\ step' = "fail"
        /\ UNCHANGED outVars
     \/ /\ outMemory[blk] # <<>>
        /\ WriteBlock
        /\ step' = "block"
  /\ UNCHANGED <<inVars, program, todo, exit>>

\* Write: the error is looked up once, at the start of the call
WriteBegins ==
  /\ step = "put" /\ todo # <<>> /\ program = "ts2mmt"
  /\ step' = IF writeErr THEN "fail" ELSE "write"
  /\ UNCHANGED <<inVars, outVars, program, todo, exit>>

WriteUnit ==
  /\ step = "write"
  /\ \/ WriteTake /\ UNCHANGED <<todo, step>>
     \/ /\ todo # <<>>
        /\ WriteCopy(Head(todo))
        /\ todo' = Tail(todo)
        /\ step' = IF Tail(todo) = <<>> THEN "put" ELSE step
  /\ UNCHANGED <<inVars, program, exit>>

\* closeOut, deferred or not
CloseOut ==
  /\ step \in {"close", "fail"}
  /\ CloseOutput(program = "mmt2ts")
  /\ step' = IF step = "close" THEN "wait" ELSE "failing"
  /\ UNCHANGED <<inVars, program, todo, exit>>

\* mutant: Close does not wait for the writes
ExitEarly ==
  /\ step \in {"wait", "failing"}
  /\ exit' = IF step = "failing" \/ writeErr THEN "error" ELSE "ok"
  /\ step' = "over"
  /\ CloseInput
  /\ UNCHANGED <<outVars, program, todo>>

\* Close waits for drain to end and returns its error; then closeIn
Exit ==
  /\ step \in {"wait", "failing"} /\ drainer = "done"
  /\ exit' = IF step = "failing" \/ writeErr THEN "error" ELSE "ok"
  /\ step' = "over"
  /\ CloseInput
  /\ UNCHANGED <<outVars, program, todo>>

Conversion ==
  \/ TakeBlock
  \/ \E b \in {rest} \cup {ahead[i] : i \in 1 .. Len(ahead)}, k \in Asks : Convert(b, k)
  \/ ConvertEnds \/ PutDone \/ PutInBlock \/ FullBlock \/ FlushBlock
  \/ WriteBegins \/ WriteUnit
  \/ CloseOut \/ Exit

Reading == Fill /\ UNCHANGED <<outVars, program, step, todo, exit>>
Writing == Drain /\ UNCHANGED <<inVars, program, step, todo, exit>>

Next == Reading \/ Conversion \/ Writing

Spec == Init /\ [][Next]_vars

\* goroutines are scheduled, and reads and writes return
FairSpec == Spec /\ WF_vars(Reading) /\ WF_vars(Conversion) /\ WF_vars(Writing)
-----------------------------------------------------------------------------
Input == [i \in 1 .. Total |-> i]

Passed == INSTANCE Stream WITH
  given <- accepted, passed <- sink,
  outcome <- IF step = "over" THEN IF exit = "ok" THEN "end" ELSE "error" ELSE "open"

(* AsyncWriter keeps the promise of a stream although buffers are reused   *)
(* while the conversion fills the next ones: what the calls accepted       *)
(* reaches the output in order and without a hole, and Close returns no    *)
(* error only when all of it did.                                          *)
WriterKeepsThePromise == Passed!Spec

(* The program: what is in the output is always a beginning of the input,  *)
(* and exit status 0 means that everything up to the end of the input or   *)
(* up to the failed read of ts2mmt is there: a write that failed, whenever *)
(* it did, is never taken for success, and mmt2ts never takes a failed     *)
(* read for success either.                                                *)
SuccessIsComplete ==
  /\ sink = SubSeq(Input, 1, Len(sink))
  /\ exit = "ok" =>
       /\ sink = SubSeq(Input, 1, pos)
       /\ program = "mmt2ts" \/ readErr = "EOF" => sink = Input

(* The three goroutines never wait for each other in a circle: the program *)
(* ends, also after a write failed with buffers waiting.                   *)
Terminates == <>(exit # "none")
=============================================================================
