---------------------------- MODULE RequestCycle -----------------------------
(***************************************************************************)
(* What the worker of main.c promises of each connection, whatever the     *)
(* network does: a request is sent whole, its response is counted once,    *)
(* and only then is the request sent again on the same connection.  A      *)
(* connection may be given up at any point, without counting anything.     *)
(***************************************************************************)
EXTENDS Integers

CONSTANTS
  Slots,      \* the slots of the connection pool
  MaxCount    \* the largest value of a counter

VARIABLES
  phase,      \* of each slot: no connection, a request under way, an answer due
  sent,       \* requests sent whole
  answered    \* responses received whole

vars == <<phase, sent, answered>>

Phases == {"idle", "sending", "awaiting"}

TypeOK ==
  /\ phase \in [Slots -> Phases]
  /\ sent \in 0..MaxCount
  /\ answered \in 0..MaxCount

Init ==
  /\ phase = [c \in Slots |-> "idle"]
  /\ sent = 0
  /\ answered = 0

Tick(counter) == (counter + 1) % (MaxCount + 1)

Become(c, from, to) ==
  /\ phase[c] \in from
  /\ phase' = [phase EXCEPT ![c] = to]

Connect(c) == Become(c, {"idle"}, "sending") /\ UNCHANGED <<sent, answered>>

Send(c) == Become(c, {"sending"}, "awaiting") /\ sent' = Tick(sent) /\ UNCHANGED answered

(* The answer is there: the next request goes out in one piece, ... *)
AnswerAndSend(c) ==
  Become(c, {"awaiting"}, "awaiting") /\ sent' = Tick(sent) /\ answered' = Tick(answered)

(* ... or only in part, ... *)
Answer(c) == Become(c, {"awaiting"}, "sending") /\ UNCHANGED sent /\ answered' = Tick(answered)

(* ... or not at all, because the server has hung up. *)
AnswerAndClose(c) ==
  Become(c, {"awaiting"}, "idle") /\ UNCHANGED sent /\ answered' = Tick(answered)

Close(c) == Become(c, {"sending", "awaiting"}, "idle") /\ UNCHANGED <<sent, answered>>

Next == \E c \in Slots :
  \/ Connect(c) \/ Send(c) \/ AnswerAndSend(c)
  \/ Answer(c) \/ AnswerAndClose(c) \/ Close(c)

Spec == Init /\ [][Next]_vars
==============================================================================
