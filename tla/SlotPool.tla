------------------------------ MODULE SlotPool -------------------------------
(***************************************************************************)
(* What the pool of connection slots promises: a slot that is handed out   *)
(* was free, a slot that is given back was handed out, and an allocation   *)
(* fails only when every slot is out.  RunLoop.tla uses the pool at this   *)
(* level, as the set of free slots.                                        *)
(***************************************************************************)
CONSTANT Slots

VARIABLES
  free,       \* the slots not handed out
  failed      \* an allocation found none and ended the program

vars == <<free, failed>>

Init == free = {} /\ failed = FALSE

Get(c) == ~failed /\ c \in free /\ free' = free \ {c} /\ UNCHANGED failed

GetFails == ~failed /\ free = {} /\ failed' = TRUE /\ UNCHANGED free

(* A slot comes back, or worker_start() adds one it has just allocated. *)
Put(c) == ~failed /\ c \notin free /\ free' = free \cup {c} /\ UNCHANGED failed

Next == GetFails \/ \E c \in Slots : Get(c) \/ Put(c)

Spec == Init /\ [][Next]_vars
==============================================================================
