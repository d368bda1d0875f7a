-------------------------------- MODULE Stream --------------------------------
(***************************************************************************)
(* What a reader or a writer of internal/iopipe promises: what is given is *)
(* passed on in order and without a hole, and the end is only reported     *)
(* when all of it was passed on.                                           *)
(***************************************************************************)
EXTENDS SequencesExt

VARIABLES
  given,    \* what there is to pass on, so far
  passed,   \* what was passed on
  outcome   \* "open", or how it ended: "end" or "error"

vars == <<given, passed, outcome>>

Init ==
  /\ passed = <<>>
  /\ outcome = "open"

Give ==
  /\ outcome = "open"
  /\ IsPrefix(given, given')
  /\ UNCHANGED <<passed, outcome>>

Pass ==
  /\ outcome = "open"
  /\ IsPrefix(passed, passed')
  /\ IsPrefix(passed', given)
  /\ UNCHANGED <<given, outcome>>

End ==
  /\ outcome = "open" /\ passed = given
  /\ outcome' = "end"
  /\ UNCHANGED <<given, passed>>

Fail ==
  /\ outcome = "open"
  /\ outcome' = "error"
  /\ UNCHANGED <<given, passed>>

Next == Give \/ Pass \/ End \/ Fail

Spec == Init /\ [][Next]_vars
=============================================================================
