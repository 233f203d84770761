------------------------------ MODULE ConnPool -------------------------------
(***************************************************************************)
(* The pool of main.c with its two linked lists, run->active and           *)
(* run->freed, threaded through info->next: worker_start(), _info_alloc()  *)
(* and _info_free().  Nothing but these functions touches the lists, and   *)
(* _info_free() is called for any connection that is open, in any order.   *)
(***************************************************************************)
EXTENDS Naturals, FiniteSets

CONSTANTS
  Infos,      \* the myinfo_t's calloc() returns
  NULL        \* the null pointer

ASSUME ConnPoolAssumption == IsFiniteSet(Infos) /\ NULL \notin Infos

VARIABLES
  active,     \* run->active
  freed,      \* run->freed
  next,       \* info->next of each slot
  started,    \* the slots worker_start() has added
  open,       \* the slots of the open connections
  failed      \* exit(1), "ran out of memory"

vars == <<active, freed, next, started, open, failed>>

Init ==
  /\ active = NULL
  /\ freed = NULL
  /\ next = [c \in Infos |-> NULL]
  /\ started = {}
  /\ open = {}
  /\ failed = FALSE

(* One turn of the loop in worker_start() that builds the pool. *)
AddInfo(c) ==
  /\ c \notin started
  /\ started' = started \cup {c}
  /\ next' = [next EXCEPT ![c] = freed]
  /\ freed' = c
  /\ UNCHANGED <<active, open, failed>>

Running == started = Infos /\ ~failed

(* Mutant for ImplementsSlotPool: info->next is set before it is read. *)
InfoAllocMutant ==
  /\ Running
  /\ freed # NULL
  /\ freed' = active
  /\ next' = [next EXCEPT ![freed] = active]
  /\ active' = freed
  /\ open' = open \cup {freed}
  /\ UNCHANGED <<started, failed>>

(* _info_alloc(): take the head of the free list, push it on the active one. *)
InfoAlloc ==
  /\ Running
  /\ freed # NULL
  /\ freed' = next[freed]
  /\ next' = [next EXCEPT ![freed] = active]
  /\ active' = freed
  /\ open' = open \cup {freed}
  /\ UNCHANGED <<started, failed>>

InfoAllocFails ==
  /\ Running
  /\ freed = NULL
  /\ failed' = TRUE
  /\ UNCHANGED <<active, freed, next, started, open>>

(* Mutant for FreeListExact: the slot keeps its place in the active list. *)
InfoFreeMutant(c) ==
  /\ Running
  /\ c \in open
  /\ active' = next[c]
  /\ freed' = c
  /\ open' = open \ {c}
  /\ UNCHANGED <<next, started, failed>>

(* _info_free(): the head of the active list becomes what follows info,       *)
(* whether or not info was the head.                                          *)
InfoFree(c) ==
  /\ Running
  /\ c \in open
  /\ active' = next[c]
  /\ next' = [next EXCEPT ![c] = freed]
  /\ freed' = c
  /\ open' = open \ {c}
  /\ UNCHANGED <<started, failed>>

Terminated == failed /\ UNCHANGED vars

Next ==
  \/ InfoAlloc \/ InfoAllocFails \/ Terminated
  \/ \E c \in Infos : AddInfo(c) \/ InfoFree(c)

Spec == Init /\ [][Next]_vars

------------------------------------------------------------------------------
(* The entry k links behind a list's head. *)
Follow(head) ==
  LET entry[k \in 0..Cardinality(Infos)] ==
        IF k = 0 THEN head
        ELSE IF entry[k - 1] = NULL THEN NULL ELSE next[entry[k - 1]]
  IN entry

Listed(head) == {Follow(head)[k] : k \in 0..Cardinality(Infos)} \ {NULL}

(* The free list holds exactly the slots that are not in use, and it ends:    *)
(* it never runs into the active list or into itself.                         *)
FreeListExact ==
  /\ Listed(freed) = started \ open
  /\ Follow(freed)[Cardinality(Infos)] = NULL

Pool == INSTANCE SlotPool WITH Slots <- Infos, free <- Listed(freed), failed <- failed

(* The lists implement the set of free slots. *)
ImplementsSlotPool == Pool!Spec
==============================================================================
