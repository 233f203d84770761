----------------------------- MODULE WorkerCycle -----------------------------
(***************************************************************************)
(* The worker implements RequestCycle: the mapping from what run_loop()    *)
(* keeps to the phases of the abstract specification.                      *)
(***************************************************************************)
EXTENDS RunLoop

Phase(c) ==
  IF c \in freed THEN "idle"
  ELSE IF IsSent(request_sent[c]) THEN "awaiting" ELSE "sending"

(* Where the conversation on an open connection stands: EPOLLOUT is asked for *)
(* while the request is incomplete; until it is complete nothing has been     *)
(* answered; afterwards no more arrives than the response still lacks, unless *)
(* the parser was left at the end of the previous one.                        *)
Conversation(c) ==
  LET s == sock[c]
  IN /\ "OUT" \in interest[c] <=> ~IsSent(request_sent[c])
     /\ s.got = IF IsSent(request_sent[c]) THEN 0 ELSE request_sent[c]
     /\ ~IsSent(request_sent[c]) => s.rx = 0 /\ s.owed = 0 /\ seen[c] \in {0, RspLen}
     /\ IsSent(request_sent[c]) => seen[c] = RspLen \/ seen[c] + s.rx + s.owed <= RspLen

(* With a server that only answers, and as long as no epoll_wait() fails,     *)
(* this is inductive relative to IInv: every open connection is in order, and *)
(* an event with EPOLLOUT is still about an incomplete request when it is     *)
(* served.                                                                    *)
CycleInv ==
  /\ pc # "exit" => \A c \in Used : Conversation(c)
  /\ \A k \in DOMAIN events :
       "OUT" \in events[k].flags => ~IsSent(request_sent[events[k].info])

Cycle == INSTANCE RequestCycle WITH
  Slots    <- Infos,
  MaxCount <- CounterMax,
  phase    <- [c \in Infos |-> Phase(c)],
  sent     <- stats["sent"],
  answered <- stats["recved"]

(* Every step of the worker is one of RequestCycle's or leaves its state      *)
(* alone, as long as the server sends nothing that was not asked for and no   *)
(* epoll_wait() fails: a response is counted once, and only for a request     *)
(* that was sent whole.                                                       *)
RefinesRequestCycle == Cycle!Spec
==============================================================================
