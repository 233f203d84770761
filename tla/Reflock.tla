------------------------------- MODULE Reflock -------------------------------
(***************************************************************************)
(* How wepoll (win-epoll.c) keeps an epoll port alive while threads use    *)
(* it: epoll_ctl() and epoll_wait() find the port in the tree of handles   *)
(* and take a reference; epoll_close() takes it out of the tree, closes    *)
(* its completion port, and waits until it holds the only reference.       *)
(*                                                                         *)
(* The lock's word holds a count and flags; count and flags are changed by *)
(* one interlocked addition.  The tree is guarded by a lock of its own, so *)
(* that finding a port and referencing it are one step.                    *)
(***************************************************************************)
EXTENDS Integers, FiniteSets

CONSTANT Threads

ASSUME ReflockAssumption == IsFiniteSet(Threads)

VARIABLES
  at,       \* where each thread is, "out" when it is in no call
  refs,     \* the count in reflock_t.state
  mark,     \* the flags in it
  listed,   \* the port is in epoll__handle_tree
  object    \* the memory of port_state_t, whose address a later port may have

refVars == <<at, refs, mark, listed, object>>

\* The places of a thread with a reference of its own, ...
Inside  == {"ctl", "wait", "polling", "polled", "unref"}
\* ... and those of epoll_close(), which has one until it drops it.
Closing == {"close", "drop", "await", "poison", "delete"}
Places  == {"out", "signal"} \cup Inside \cup Closing

RefInit ==
  /\ at     = [t \in Threads |-> "out"]
  /\ refs   = 0
  /\ mark   = "poison"
  /\ listed = FALSE
  /\ object = "free"

Go(t, from, to) == at[t] = from /\ at' = [at EXCEPT ![t] = to]

(* epoll_create(): nobody knows the port before it is in the tree. *)
Create(t) ==
  /\ at[t] = "out" /\ object = "free"
  /\ object' = "live" /\ refs' = 0 /\ mark' = "none" /\ listed' = TRUE
  /\ UNCHANGED at

(* Mutant for NoUseAfterFree: a thread waits for the port without a reference. *)
EnterMutant(t, place) ==
  /\ listed
  /\ Go(t, "out", place)
  /\ refs' = IF place = "wait" THEN refs ELSE refs + 1
  /\ UNCHANGED <<mark, listed, object>>

(* ts_tree_find_and_ref(); without a port the call fails. *)
Enter(t, place) ==
  /\ listed
  /\ Go(t, "out", place)
  /\ refs' = refs + 1
  /\ UNCHANGED <<mark, listed, object>>

(* A step inside of a call that does not touch the lock. *)
Move(t, from, to) == Go(t, from, to) /\ UNCHANGED <<refs, mark, listed, object>>

(* Mutant for CloseReturns: the last reference wakes nobody. *)
UnrefMutant(t) ==
  /\ Go(t, "unref", "out")
  /\ refs' = refs - 1
  /\ UNCHANGED <<mark, listed, object>>

(* reflock_unref(): the last one out wakes the thread that destroys. *)
Unref(t) ==
  /\ Go(t, "unref", IF refs = 1 /\ mark = "destroy" THEN "signal" ELSE "out")
  /\ refs' = refs - 1
  /\ UNCHANGED <<mark, listed, object>>

(* ts_tree_del_and_ref() *)
StartClose(t) ==
  /\ listed
  /\ Go(t, "out", "close")
  /\ listed' = FALSE
  /\ refs' = refs + 1
  /\ UNCHANGED <<mark, object>>

(* Mutant for LockAsserts: the closer does not wait. *)
DropMutant(t) ==
  /\ Go(t, "drop", "poison")
  /\ refs' = refs - 1
  /\ mark' = "destroy"
  /\ UNCHANGED <<listed, object>>

(* reflock_unref_and_destroy(): its addition, ... *)
Drop(t) ==
  /\ Go(t, "drop", IF refs = 1 THEN "poison" ELSE "await")
  /\ refs' = refs - 1
  /\ mark' = "destroy"
  /\ UNCHANGED <<listed, object>>

(* ... the keyed event, at which the one who signals and the one who waits    *)
(* meet, ...                                                                  *)
Meet(t, u) ==
  /\ at[t] = "signal" /\ at[u] = "await"
  /\ at' = [at EXCEPT ![t] = "out", ![u] = "poison"]
  /\ UNCHANGED <<refs, mark, listed, object>>

(* ... and the exchange that leaves the poison. *)
Poison(t) == Go(t, "poison", "delete") /\ mark' = "poison" /\ UNCHANGED <<refs, listed, object>>

(* port_delete() *)
Free(t) == Go(t, "delete", "out") /\ object' = "free" /\ UNCHANGED <<refs, mark, listed>>

RefNext ==
  \E t \in Threads :
    \/ Create(t) \/ StartClose(t) \/ Move(t, "close", "drop")
    \/ Drop(t) \/ Poison(t) \/ Free(t) \/ Unref(t)
    \/ \E place \in Inside : Enter(t, place)
    \/ \E from, to \in Inside : Move(t, from, to)
    \/ \E u \in Threads : Meet(t, u)

RefSpec == RefInit /\ [][RefNext]_refVars

------------------------------------------------------------------------------
RefTypeOK ==
  /\ at \in [Threads -> Places]
  /\ refs \in Int
  /\ mark \in {"none", "destroy", "poison"}
  /\ listed \in BOOLEAN
  /\ object \in {"live", "free"}

Holders == {t \in Threads : at[t] \in Inside \cup {"close", "drop"}}
Closers == {t \in Threads : at[t] \in Closing}

(* No thread inside of a call, and not the one that closes, touches a port    *)
(* that was freed.                                                            *)
NoUseAfterFree == \A t \in Threads : at[t] \in Inside \cup Closing => object = "live"

(* The assertions of the lock: nobody takes or drops a reference of a lock    *)
(* that was destroyed (win-epoll.c:1560, 1568), it is destroyed once (1580),  *)
(* and with no reference left (1586).                                         *)
LockAsserts ==
  /\ listed => mark = "none"
  /\ \A t \in Threads :
       /\ at[t] \in Inside => mark # "poison"
       /\ at[t] \in {"close", "drop"} => mark = "none"
       /\ at[t] = "poison" => mark = "destroy" /\ refs = 0

(* The inductive invariant: the count is the number of those who hold a       *)
(* reference, a port that is not listed has one closer, and the closer waits  *)
(* exactly while references are left or the last one is about to signal.      *)
RefInv ==
  /\ RefTypeOK
  /\ object = "live" => refs = Cardinality(Holders)
  /\ listed => object = "live" /\ mark = "none"
  /\ object = "free" => mark = "poison" /\ Holders = {}
  /\ \A t \in Closers :
       /\ ~listed /\ object = "live"
       /\ \A u \in Closers : u = t
       /\ at[t] \in {"close", "drop"} => mark = "none"
       /\ at[t] \in {"await", "poison"} => mark = "destroy"
       /\ at[t] = "delete" => mark = "poison" /\ Holders = {}
       /\ at[t] = "poison" => Holders = {}
  /\ object = "live" /\ ~listed => Closers # {}
  /\ \A t \in Threads :
       at[t] = "signal" => /\ Holders = {}
                           /\ \E u \in Threads : at[u] = "await"
                           /\ \A u \in Threads : at[u] = "signal" => u = t
==============================================================================
