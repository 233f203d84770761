--------------------------- MODULE ResponseCounter ---------------------------
(***************************************************************************)
(* What the worker relies on in http_rsp_parse(): of a response of a known *)
(* length it consumes what belongs to it and no more, and says that it is  *)
(* complete with the byte that completes it.  RunLoop.tla counts response  *)
(* units this way.  A length of 0 stands for a header without a length, of *)
(* which nothing is promised.                                              *)
(***************************************************************************)
EXTENDS Integers

CONSTANT Most    \* the most bytes of one call

VARIABLES
  length,     \* of the response that is being received
  seen,       \* how much of it was consumed
  outcome     \* what the last call said: read on, it is complete, or too much

vars == <<length, seen, outcome>>

Init == length \in Nat /\ seen = 0 /\ outcome = "reading"

(* A piece of the response, or its end, or the end and something after it. *)
Take(bytes) ==
  /\ outcome # "overrun" /\ length > 0
  /\ seen' = IF bytes < length - seen THEN seen + bytes ELSE length
  /\ outcome' = IF bytes > length - seen THEN "overrun"
                ELSE IF bytes = length - seen THEN "complete" ELSE "reading"
  /\ UNCHANGED length

(* Without a length any outcome will do. *)
TakeUnmeasured ==
  /\ outcome # "overrun" /\ length = 0
  /\ outcome' \in {"reading", "complete", "overrun"}
  /\ UNCHANGED <<length, seen>>

(* The parser is cleared for the next response. *)
Clear ==
  /\ outcome = "complete"
  /\ length' \in Nat /\ seen' = 0 /\ outcome' = "reading"

Next == Clear \/ TakeUnmeasured \/ \E bytes \in 1..Most : Take(bytes)

Spec == Init /\ [][Next]_vars
==============================================================================
