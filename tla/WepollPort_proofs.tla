-------------------------- MODULE WepollPort_proofs --------------------------
(***************************************************************************)
(* The reference lock of the Windows epoll, for any number of threads: its *)
(* count is exact, its assertions hold, and no thread uses a freed port.   *)
(* And the port, which uses the lock as Reflock says, whatever its         *)
(* threads, its sockets and the kernel do: it has these properties, and    *)
(* those of its own records, polls and queues.                             *)
(***************************************************************************)
EXTENDS PortOps_proofs

-------------------------------------------------------------------------------
(* The lock. *)

HasRef == Inside \cup {"close", "drop"}

(* What a step of one thread does to the sets of those who hold a reference   *)
(* and of those who close.                                                    *)
LEMMA GoSets ==
  ASSUME at \in [Threads -> Places], NEW t \in Threads, NEW from, NEW to, Go(t, from, to)
  PROVE  /\ to \in HasRef => Holders' = Holders \cup {t}
         /\ to \notin HasRef => Holders' = Holders \ {t}
         /\ to \in Closing => Closers' = Closers \cup {t}
         /\ to \notin Closing => Closers' = Closers \ {t}
         /\ from \in HasRef <=> t \in Holders
         /\ from \in Closing <=> t \in Closers
         /\ at'[t] = to /\ at[t] = from
         /\ \A u \in Threads \ {t} : at'[u] = at[u]
BY DEF Go, Holders, Closers, HasRef

(* The count of the holders goes up and down with them. *)
LEMMA HoldersCount ==
  /\ IsFiniteSet(Holders) /\ Cardinality(Holders) \in Nat
  /\ Cardinality(Holders) = 0 <=> Holders = {}
  /\ \A t \in Threads : t \notin Holders => Cardinality(Holders \cup {t}) = Cardinality(Holders) + 1
  /\ \A t \in Holders : Cardinality(Holders \ {t}) = Cardinality(Holders) - 1
  /\ \A t \in Holders : Cardinality(Holders) = 1 => Holders = {t}
<1>1. IsFiniteSet(Holders)
  BY ReflockAssumption, FS_Subset DEF Holders
<1>2. Cardinality(Holders) \in Nat
  BY <1>1, FS_CardinalityType
<1>3. Cardinality(Holders) = 0 <=> Holders = {}
  BY <1>1, FS_EmptySet
<1>4. ASSUME NEW t \in Threads, t \notin Holders
      PROVE  Cardinality(Holders \cup {t}) = Cardinality(Holders) + 1
  BY <1>1, <1>4, FS_AddElement
<1>5. ASSUME NEW t \in Holders
      PROVE  Cardinality(Holders \ {t}) = Cardinality(Holders) - 1
  BY <1>1, <1>5, FS_RemoveElement
<1>6. ASSUME NEW t \in Holders, Cardinality(Holders) = 1
      PROVE  Holders = {t}
  <2>1. IsFiniteSet(Holders \ {t}) /\ Cardinality(Holders \ {t}) = 0
    BY <1>1, <1>6, FS_RemoveElement
  <2>2. Holders \ {t} = {}
    BY <2>1, FS_EmptySet
  <2> QED BY <1>6, <2>2
<1> QED BY <1>1, <1>2, <1>3, <1>4, <1>5, <1>6

(* Nobody closes a listed port, and so nobody waits or signals. *)
LEMMA ListedQuiet ==
  ASSUME RefInv, listed
  PROVE  /\ Closers = {} /\ object = "live" /\ mark = "none"
         /\ \A u \in Threads : at[u] # "signal"
BY DEF RefInv, RefTypeOK, Closers, Closing

(* A thread with a reference keeps the port, and nobody signals meanwhile. *)
LEMMA HolderKeeps ==
  ASSUME RefInv, NEW t \in Holders
  PROVE  /\ object = "live" /\ mark # "poison"
         /\ \A u \in Threads : at[u] \notin {"signal", "poison", "delete"}
         /\ refs = Cardinality(Holders) /\ refs # 0
<1>1. object = "live" /\ Holders # {}
  BY DEF RefInv, RefTypeOK
<1>2. refs = Cardinality(Holders) /\ refs # 0
  BY <1>1, HoldersCount DEF RefInv
<1>3. \A u \in Threads : at[u] \notin {"signal", "poison", "delete"}
  BY <1>1 DEF RefInv, Closers, Closing
<1>4. mark # "poison"
  <2>1. CASE listed
    BY <2>1, ListedQuiet
  <2>2. CASE ~listed
    <3>1. PICK u \in Closers : TRUE
      BY <1>1, <2>2 DEF RefInv
    <3>2. at[u] \in {"close", "drop", "await"}
      BY <1>3, <3>1 DEF Closers, Closing
    <3> QED BY <3>1, <3>2 DEF RefInv
  <2> QED BY <2>1, <2>2
<1> QED BY <1>1, <1>2, <1>3, <1>4

LEMMA CreateInv ==
  ASSUME RefInv, NEW t \in Threads, Create(t)
  PROVE  RefInv'
<1>1. Holders = {} /\ Closers = {} /\ \A u \in Threads : at[u] # "signal"
  BY DEF RefInv, Create, Closers, Closing
<1>2. Holders' = {} /\ Closers' = {}
  BY <1>1 DEF Create, Holders, Closers
<1>3. refs' = Cardinality(Holders')
  BY <1>2, FS_EmptySet DEF Create
<1>4. RefTypeOK'
  BY DEF RefInv, RefTypeOK, Create
<1> QED BY <1>1, <1>2, <1>3, <1>4 DEF RefInv, Create

LEMMA EnterInv ==
  ASSUME RefInv, NEW t \in Threads, NEW place \in Inside, Enter(t, place)
  PROVE  RefInv'
<1>1. /\ Closers = {} /\ object = "live" /\ mark = "none"
      /\ \A u \in Threads : at[u] # "signal"
  BY ListedQuiet DEF Enter
<1>2. RefTypeOK'
  BY DEF RefInv, RefTypeOK, Enter, Go, Places, Inside
<1>3. Holders' = Holders \cup {t} /\ t \notin Holders /\ Closers' = {}
  BY <1>1, GoSets DEF RefInv, RefTypeOK, Enter, HasRef, Inside, Closing
<1>4. refs' = Cardinality(Holders')
  BY <1>1, <1>3, HoldersCount DEF Enter, RefInv
<1>5. \A u \in Threads : at'[u] # "signal"
  BY <1>1, GoSets DEF RefInv, RefTypeOK, Enter, Inside
<1> QED BY <1>1, <1>2, <1>3, <1>4, <1>5 DEF RefInv, Enter

(* A step of a holder that leaves the lock alone. *)
LEMMA MoveInv ==
  ASSUME RefInv, NEW t \in Threads, NEW from, NEW to, Move(t, from, to),
         (from \in Inside /\ to \in Inside) \/ (from = "close" /\ to = "drop")
  PROVE  RefInv'
<1>1. RefTypeOK'
  BY DEF RefInv, RefTypeOK, Move, Go, Places, Inside, Closing
<1>2. t \in Holders /\ Holders' = Holders /\ Closers' = Closers
  <2>1. at \in [Threads -> Places] /\ Go(t, from, to)
    BY DEF RefInv, RefTypeOK, Move
  <2>2. from \in HasRef /\ to \in HasRef
    BY DEF HasRef
  <2>3. from \in Closing <=> to \in Closing
    BY DEF Inside, Closing
  <2>4. /\ t \in Holders /\ Holders' = Holders \cup {t}
        /\ to \in Closing => Closers' = Closers \cup {t}
        /\ to \notin Closing => Closers' = Closers \ {t}
        /\ from \in Closing <=> t \in Closers
    BY <2>1, <2>2, GoSets
  <2> QED BY <2>3, <2>4
<1>3. /\ object = "live"
      /\ \A u \in Threads : at[u] \notin {"signal", "poison", "delete"}
  BY <1>2, HolderKeeps
<1>4. /\ \A u \in Threads \ {t} : at'[u] = at[u]
      /\ at[t] = from /\ at'[t] = to
  BY GoSets DEF RefInv, RefTypeOK, Move
<1>5. /\ \A u \in Threads : at'[u] \notin {"signal", "poison", "delete"}
      /\ \A u \in Threads : at'[u] = "await" => at[u] = "await"
      /\ \A u \in Threads : at'[u] \in {"close", "drop"} => at[u] \in {"close", "drop"}
  BY <1>3, <1>4 DEF Inside
<1>6. Closers \subseteq Threads
  BY DEF Closers
<1> QED BY <1>1, <1>2, <1>3, <1>5, <1>6 DEF RefInv, Move

(* The last reference: a closer is waiting then, and is alone. *)
LEMMA UnrefInv ==
  ASSUME RefInv, NEW t \in Threads, Unref(t)
  PROVE  RefInv'
<1> DEFINE last == refs = 1 /\ mark = "destroy"
           to == IF last THEN "signal" ELSE "out"
<1>1. RefTypeOK'
  BY DEF RefInv, RefTypeOK, Unref, Go, Places
<1>2. t \in Holders /\ Holders' = Holders \ {t} /\ Closers' = Closers /\ t \notin Closers
  BY GoSets DEF RefInv, RefTypeOK, Unref, HasRef, Inside, Closing
<1>3. /\ object = "live" /\ mark # "poison"
      /\ \A u \in Threads : at[u] \notin {"signal", "poison", "delete"}
      /\ refs = Cardinality(Holders)
  BY <1>2, HolderKeeps
<1>4. refs' = Cardinality(Holders') /\ refs' = refs - 1
  BY <1>2, <1>3, HoldersCount DEF Unref
<1>5. at'[t] = to /\ \A u \in Threads \ {t} : at'[u] = at[u]
  BY GoSets DEF RefInv, RefTypeOK, Unref
<1>6. ASSUME last
      PROVE  Holders' = {} /\ \E u \in Threads : at'[u] = "await"
  <2>1. Holders' = {}
    BY <1>2, <1>3, <1>6, HoldersCount
  <2>2. ~listed
    BY <1>6 DEF RefInv
  <2>3. PICK u \in Closers : TRUE
    BY <1>3, <2>2 DEF RefInv
  <2>4. u \in Threads /\ u # t /\ at[u] \in Closing
    BY <1>2, <2>3 DEF Closers
  <2>5. at[u] = "await"
    BY <1>3, <1>6, <2>3, <2>4 DEF RefInv, Closing
  <2> QED BY <1>5, <2>1, <2>4, <2>5
<1>7. \A u \in Closers : at'[u] = at[u] /\ u \in Threads
  BY <1>2, <1>5 DEF Closers
<1>8. ASSUME NEW u \in Threads, at'[u] = "signal"
      PROVE  u = t /\ last
  BY <1>3, <1>5, <1>8
<1> HIDE DEF last, to
<1> QED
  <2>1. \A u \in Closers' :
          /\ ~listed' /\ object' = "live"
          /\ \A v \in Closers' : v = u
          /\ at'[u] \in {"close", "drop"} => mark' = "none"
          /\ at'[u] \in {"await", "poison"} => mark' = "destroy"
          /\ at'[u] = "delete" => mark' = "poison" /\ Holders' = {}
          /\ at'[u] = "poison" => Holders' = {}
    BY <1>2, <1>3, <1>7 DEF RefInv, Unref
  <2>2. \A u \in Threads :
          at'[u] = "signal" => /\ Holders' = {}
                               /\ \E v \in Threads : at'[v] = "await"
                               /\ \A v \in Threads : at'[v] = "signal" => v = u
    BY <1>6, <1>8
  <2>3. object' = "live" /\ mark' = mark /\ listed' = listed
    BY <1>3 DEF Unref
  <2> QED BY <1>1, <1>2, <1>3, <1>4, <2>1, <2>2, <2>3 DEF RefInv

LEMMA StartCloseInv ==
  ASSUME RefInv, NEW t \in Threads, StartClose(t)
  PROVE  RefInv'
<1>1. /\ Closers = {} /\ object = "live" /\ mark = "none"
      /\ \A u \in Threads : at[u] # "signal"
  BY ListedQuiet DEF StartClose
<1>2. RefTypeOK'
  <2>1. listed' \in BOOLEAN
    BY DEF StartClose
  <2> QED BY <2>1 DEF RefInv, RefTypeOK, StartClose, Go, Places, Closing
<1>3. /\ Holders' = Holders \cup {t} /\ t \notin Holders /\ Closers' = {t}
      /\ at'[t] = "close" /\ \A u \in Threads \ {t} : at'[u] = at[u]
  BY <1>1, GoSets DEF RefInv, RefTypeOK, StartClose, HasRef, Inside, Closing
<1>4. refs' = Cardinality(Holders')
  BY <1>1, <1>3, HoldersCount DEF StartClose, RefInv
<1>5. \A u \in Threads : at'[u] # "signal"
  BY <1>1, <1>3
<1> QED BY <1>1, <1>2, <1>3, <1>4, <1>5 DEF RefInv, StartClose

(* The closer gives its reference back: it goes on at once if that was the    *)
(* last one, and else waits.                                                  *)
LEMMA DropInv ==
  ASSUME RefInv, NEW t \in Threads, Drop(t)
  PROVE  RefInv'
<1>1. RefTypeOK'
  BY DEF RefInv, RefTypeOK, Drop, Go, Places, Closing
<1>2. /\ t \in Holders /\ Holders' = Holders \ {t}
      /\ t \in Closers /\ Closers' = Closers
      /\ at'[t] = (IF refs = 1 THEN "poison" ELSE "await")
      /\ \A u \in Threads \ {t} : at'[u] = at[u]
  BY GoSets DEF RefInv, RefTypeOK, Drop, HasRef, Inside, Closing
<1>3. /\ object = "live" /\ refs = Cardinality(Holders)
      /\ \A u \in Threads : at[u] # "signal"
  BY <1>2, HolderKeeps
<1>4. refs' = Cardinality(Holders') /\ (refs = 1 => Holders' = {})
  BY <1>2, <1>3, HoldersCount DEF Drop
<1>5. ~listed /\ Closers = {t}
  BY <1>2 DEF RefInv
<1>6. \A u \in Threads : at'[u] # "signal"
  BY <1>2, <1>3
<1> QED BY <1>1, <1>2, <1>3, <1>4, <1>5, <1>6 DEF RefInv, Drop

(* The last one out meets the closer, which holds nothing back any more. *)
LEMMA MeetInv ==
  ASSUME RefInv, NEW t \in Threads, NEW u \in Threads, Meet(t, u)
  PROVE  RefInv'
<1>1. RefTypeOK'
  BY DEF RefInv, RefTypeOK, Meet, Places, Closing
<1>2. /\ at[t] = "signal" /\ at[u] = "await" /\ t # u
      /\ at'[t] = "out" /\ at'[u] = "poison"
      /\ \A v \in Threads \ {t, u} : at'[v] = at[v]
  BY DEF Meet, RefInv, RefTypeOK
<1>3. Holders = {} /\ \A v \in Threads : at[v] = "signal" => v = t
  BY <1>2 DEF RefInv
<1>4. u \in Closers /\ Closers = {u} /\ mark = "destroy" /\ ~listed /\ object = "live"
  BY <1>2 DEF RefInv, Closers, Closing
<1>5. Holders' = {}
  BY <1>2, <1>3 DEF Holders, Inside
<1>6. Closers' = {u}
  BY <1>2, <1>4 DEF Closers, Closing
<1>7. \A v \in Threads : at'[v] # "signal"
  BY <1>2, <1>3
<1>8. refs' = Cardinality(Holders')
  BY <1>3, <1>4, <1>5 DEF RefInv, Meet
<1> QED BY <1>1, <1>2, <1>4, <1>5, <1>6, <1>7, <1>8 DEF RefInv, Meet

LEMMA PoisonInv ==
  ASSUME RefInv, NEW t \in Threads, Poison(t)
  PROVE  RefInv'
<1>1. RefTypeOK'
  BY DEF RefInv, RefTypeOK, Poison, Go, Places, Closing
<1>2. /\ at[t] = "poison" /\ at'[t] = "delete" /\ t \in Closers
      /\ Closers' = Closers /\ Holders' = Holders \ {t}
      /\ \A u \in Threads \ {t} : at'[u] = at[u]
  BY GoSets DEF RefInv, RefTypeOK, Poison, HasRef, Inside, Closing
<1>3. Holders = {} /\ Closers = {t} /\ ~listed /\ object = "live"
  BY <1>2 DEF RefInv
<1>4. \A u \in Threads : at[u] # "signal" /\ at'[u] # "signal"
  <2>1. \A u \in Threads : at[u] # "await"
    BY <1>2, <1>3 DEF Closers, Closing
  <2> QED BY <1>2, <2>1 DEF RefInv
<1>5. Holders' = Holders /\ refs' = Cardinality(Holders')
  BY <1>2, <1>3 DEF RefInv, Poison
<1> QED BY <1>1, <1>2, <1>3, <1>4, <1>5 DEF RefInv, Poison

LEMMA FreeInv ==
  ASSUME RefInv, NEW t \in Threads, Free(t)
  PROVE  RefInv'
<1>1. RefTypeOK'
  BY DEF RefInv, RefTypeOK, Free, Go, Places
<1>2. /\ at[t] = "delete" /\ at'[t] = "out" /\ t \in Closers
      /\ Closers' = Closers \ {t} /\ Holders' = Holders \ {t}
      /\ \A u \in Threads \ {t} : at'[u] = at[u]
  BY GoSets DEF RefInv, RefTypeOK, Free, HasRef, Inside, Closing
<1>3. Holders = {} /\ Closers = {t} /\ ~listed /\ mark = "poison"
  BY <1>2 DEF RefInv
<1>4. \A u \in Threads : at'[u] # "signal"
  <2>1. \A u \in Threads : at[u] # "await"
    BY <1>2, <1>3 DEF Closers, Closing
  <2> QED BY <1>2, <2>1 DEF RefInv
<1> QED BY <1>1, <1>2, <1>3, <1>4 DEF RefInv, Free

------------------------------------------------------------------------------
LEMMA RefInitInv == ASSUME RefInit PROVE RefInv
<1>1. Holders = {} /\ Closers = {}
  BY DEF RefInit, Holders, Closers, Inside, Closing
<1>2. RefTypeOK
  <2>1. listed \in BOOLEAN
    BY DEF RefInit
  <2> QED BY <2>1 DEF RefInit, RefTypeOK, Places
<1>3. \A t \in Threads : at[t] # "signal"
  BY DEF RefInit
<1> QED BY <1>1, <1>2, <1>3 DEF RefInit, RefInv

LEMMA RefStepInv == ASSUME RefInv, [RefNext]_refVars PROVE RefInv'
<1>1. CASE UNCHANGED refVars
  <2>1. Holders' = Holders /\ Closers' = Closers
    BY <1>1 DEF refVars, Holders, Closers
  <2> QED BY <1>1, <2>1 DEF refVars, RefInv, RefTypeOK
<1>2. ASSUME NEW t \in Threads, Create(t) PROVE RefInv'
  BY <1>2, CreateInv
<1>3. ASSUME NEW t \in Threads, StartClose(t) PROVE RefInv'
  BY <1>3, StartCloseInv
<1>4. ASSUME NEW t \in Threads, Move(t, "close", "drop") PROVE RefInv'
  BY <1>4, MoveInv
<1>5. ASSUME NEW t \in Threads, Drop(t) PROVE RefInv'
  BY <1>5, DropInv
<1>6. ASSUME NEW t \in Threads, Poison(t) PROVE RefInv'
  BY <1>6, PoisonInv
<1>7. ASSUME NEW t \in Threads, Free(t) PROVE RefInv'
  BY <1>7, FreeInv
<1>8. ASSUME NEW t \in Threads, Unref(t) PROVE RefInv'
  BY <1>8, UnrefInv
<1>9. ASSUME NEW t \in Threads, NEW place \in Inside, Enter(t, place) PROVE RefInv'
  BY <1>9, EnterInv
<1>10. ASSUME NEW t \in Threads, NEW from \in Inside, NEW to \in Inside, Move(t, from, to)
       PROVE  RefInv'
  BY <1>10, MoveInv
<1>11. ASSUME NEW t \in Threads, NEW u \in Threads, Meet(t, u) PROVE RefInv'
  BY <1>11, MeetInv
<1> QED BY <1>1, <1>2, <1>3, <1>4, <1>5, <1>6, <1>7, <1>8, <1>9, <1>10, <1>11 DEF RefNext

(* The count of the lock is that of the threads with a reference, and a port  *)
(* that is closed has one closer (win-epoll.c:1556-1587).                     *)
THEOREM RefCorrect == RefSpec => []RefInv
<1>1. RefInit => RefInv
  BY RefInitInv
<1>2. RefInv /\ [RefNext]_refVars => RefInv'
  BY RefStepInv
<1> QED BY <1>1, <1>2, PTL DEF RefSpec

LEMMA RefInvSafe == ASSUME RefInv PROVE NoUseAfterFree
<1> SUFFICES ASSUME NEW t \in Threads, at[t] \in Inside \cup Closing
             PROVE  object = "live"
  BY DEF NoUseAfterFree
<1>1. CASE at[t] \in Inside
  <2>1. t \in Holders
    BY <1>1 DEF Holders
  <2> QED BY <2>1, HolderKeeps
<1>2. CASE at[t] \in Closing
  BY <1>2 DEF RefInv, Closers
<1> QED BY <1>1, <1>2

LEMMA RefInvAsserts == ASSUME RefInv PROVE LockAsserts
<1>1. listed => mark = "none"
  BY DEF RefInv
<1>2. ASSUME NEW t \in Threads, at[t] \in Inside
      PROVE  mark # "poison"
  <2>1. t \in Holders
    BY <1>2 DEF Holders
  <2> QED BY <2>1, HolderKeeps
<1>3. ASSUME NEW t \in Threads, at[t] \in {"close", "drop"}
      PROVE  mark = "none"
  BY <1>3 DEF RefInv, Closers, Closing
<1>4. ASSUME NEW t \in Threads, at[t] = "poison"
      PROVE  mark = "destroy" /\ refs = 0
  <2>1. t \in Closers
    BY <1>4 DEF Closers, Closing
  <2>2. mark = "destroy" /\ object = "live" /\ Holders = {}
    BY <1>4, <2>1 DEF RefInv
  <2> QED BY <2>2, HoldersCount DEF RefInv
<1> QED BY <1>1, <1>2, <1>3, <1>4 DEF LockAsserts

(* However many threads use a port while another closes it, none of them      *)
(* touches it after it was freed.                                             *)
THEOREM NoUseAfterFreeHolds == RefSpec => []NoUseAfterFree
<1>1. RefInv => NoUseAfterFree
  BY RefInvSafe
<1> QED BY <1>1, RefCorrect, PTL

(* The assertions of the reference lock hold. *)
THEOREM LockAssertsHold == RefSpec => []LockAsserts
<1>1. RefInv => LockAsserts
  BY RefInvAsserts
<1> QED BY <1>1, RefCorrect, PTL

-------------------------------------------------------------------------------
(* The port uses the lock. *)

LEMMA PortInitRef == ASSUME Init PROVE RefInit
BY DEF Init

(* epoll_ctl() and epoll_wait() touch the lock only when they enter and leave *)
(* the port; in between they move within it.                                  *)
LEMMA CtlRef ==
  ASSUME NEW t \in Threads, Epoll_ctl(t)
  PROVE  [RefNext]_refVars
<1>1. CASE Move(t, "ctl", "unref")
  BY <1>1 DEF RefNext, Inside
<1>2. CASE UNCHANGED refVars
  BY <1>2
<1>3. Move(t, "ctl", "unref") \/ UNCHANGED refVars
  BY DEF Epoll_ctl, CtlAdd, CtlAddFails, CtlAddAborts, CtlMod, CtlDel, CtlFails
<1> QED BY <1>1, <1>2, <1>3

LEMMA WaitRef ==
  ASSUME NEW t \in Threads,
         WaitStart(t) \/ Dequeue(t) \/ DequeueFails(t) \/ WaitEnd(t)
  PROVE  [RefNext]_refVars
<1>1. ASSUME NEW from \in Inside, NEW to \in Inside, Move(t, from, to)
      PROVE  RefNext
  BY <1>1 DEF RefNext
<1>2. /\ "wait" \in Inside /\ "polling" \in Inside /\ "polled" \in Inside
      /\ "unref" \in Inside
  BY DEF Inside
<1>3. ASSUME NEW from \in Inside, NEW p, NEW no, PollFrom(t, from, p, no)
      PROVE  RefNext
  <2>1. Move(t, from, "polling") \/ Move(t, from, "unref")
    BY <1>3 DEF PollFrom
  <2> QED BY <1>1, <1>2, <2>1
<1>4. CASE WaitStart(t)
  BY <1>2, <1>3, <1>4 DEF WaitStart
<1>5. CASE Dequeue(t) \/ DequeueFails(t)
  <2>1. Move(t, "polling", "polled")
    BY <1>5 DEF Dequeue, DequeueFails
  <2> QED BY <1>1, <1>2, <2>1
<1>6. CASE WaitEnd(t)
  <2>1. PICK no \in Refusals :
          LET fed == FeedAll([port EXCEPT !.active = @ - 1], held[t], no)
          IN Move(t, "polled", "unref") \/ PollFrom(t, "polled", fed, no)
    BY <1>6 DEF WaitEnd
  <2> QED BY <1>1, <1>2, <1>3, <2>1
<1> QED BY <1>4, <1>5, <1>6

LEMMA CloseRef ==
  ASSUME NEW t \in Threads, EpollClose(t)
  PROVE  [RefNext]_refVars
BY DEF EpollClose, PortClose, PortDelete, RefNext

LEMMA CallerRef ==
  ASSUME NEW t \in Threads, Caller(t)
  PROVE  [RefNext]_refVars
<1>1. CASE EpollCreate(t)
  BY <1>1 DEF EpollCreate, RefNext
<1>2. CASE EpollEnter(t)
  BY <1>2 DEF EpollEnter, RefNext, Inside
<1>3. CASE EpollLeave(t)
  BY <1>3 DEF EpollLeave, RefNext
<1>4. CASE \E u \in Threads : Meet(t, u) /\ UNCHANGED portVars
  BY <1>4 DEF RefNext
<1> QED BY <1>1, <1>2, <1>3, <1>4, CtlRef, WaitRef, CloseRef DEF Caller

(* The kernel and the owners of the sockets do not touch it. *)
LEMMA EnvironmentRef == ASSUME Environment PROVE UNCHANGED refVars
BY Zenon DEF Environment, Complete, CompleteFails, Finish, CloseSocket, Change

LEMMA PortStepRef == ASSUME [Next]_vars PROVE [RefNext]_refVars
<1>1. CASE UNCHANGED vars
  BY <1>1 DEF vars
<1>2. ASSUME NEW t \in Threads, Caller(t)
      PROVE  [RefNext]_refVars
  BY <1>2, CallerRef
<1>3. CASE Environment
  BY <1>3, EnvironmentRef
<1> QED BY <1>1, <1>2, <1>3 DEF Next

(* Every behaviour of the port is one of the reference lock. *)
THEOREM PortUsesLock == Spec => RefSpec
<1>1. Init => RefInit
  BY PortInitRef
<1>2. [Next]_vars => [RefNext]_refVars
  BY PortStepRef
<1> QED BY <1>1, <1>2, PTL DEF Spec, RefSpec

(* No call of epoll_ctl(), epoll_wait() or epoll_close() touches a port that  *)
(* was freed, with any number of threads, any sockets, and every failure of   *)
(* the kernel.                                                                *)
THEOREM PortNoUseAfterFree == Spec => []NoUseAfterFree
BY PortUsesLock, NoUseAfterFreeHolds, PTL

(* No assertion of the reference lock fails in an epoll port. *)
THEOREM PortLockAsserts == Spec => []LockAsserts
BY PortUsesLock, LockAssertsHold, PTL

------------------------------------------------------------------------------
(* The inductive invariant of the port and its threads: what must hold of the *)
(* port (PortInv), what the packets are, and how the two hang together.       *)

Out(c) == c \in ToSet(packets) \/ \E t \in Threads : c \in ToSet(held[t])

Polling == {t \in Threads : at[t] \in {"polling", "polled"}}

PacketTypes ==
  packets \in Seq(Cells) /\ held \in [Threads -> Seq(Cells)] /\ iocp \in BOOLEAN

(* No cell has two packets, ... *)
InFlight ==
  /\ IsInjective(packets)
  /\ \A t \in Threads :
       /\ IsInjective(held[t])
       /\ ToSet(packets) \cap ToSet(held[t]) = {}
       /\ \A u \in Threads : t # u => ToSet(held[t]) \cap ToSet(held[u]) = {}

(* ... those that have one are the busy ones whose poll ended, while the      *)
(* completion port is open, ...                                               *)
Answered ==
  /\ \A c \in Cells : Out(c) => port.cell[c].status # "IDLE" /\ port.cell[c].iosb # "pending"
  /\ iocp => \A c \in Cells :
       port.cell[c].status # "IDLE" => port.cell[c].iosb = "pending" \/ Out(c)

AfterClose == {"drop", "await", "poison", "delete"}

(* ... and after it is closed there are only those that threads took before.  *)
Shut ==
  /\ ~iocp => packets = <<>>
  /\ object = "free" => ~iocp /\ port.heap = {}
  /\ \A t \in Threads : /\ held[t] # <<>> => at[t] = "polled"
                        /\ at[t] \in AfterClose => ~iocp

PortsInv ==
  /\ RefInv /\ PortInv(port) /\ port.active = Cardinality(Polling)
  /\ PacketTypes /\ InFlight /\ Answered /\ Shut

LEMMA PollingCount ==
  /\ IsFiniteSet(Polling) /\ Cardinality(Polling) \in Nat
  /\ \A t \in Threads \ Polling : Cardinality(Polling \cup {t}) = Cardinality(Polling) + 1
  /\ \A t \in Polling : Cardinality(Polling \ {t}) = Cardinality(Polling) - 1
<1>1. IsFiniteSet(Polling)
  BY ReflockAssumption, FS_Subset DEF Polling
<1> QED BY <1>1, FS_CardinalityType, FS_AddElement, FS_RemoveElement

LEMMA InitPortsInv == ASSUME Init PROVE PortsInv
<1>1. RefInv
  BY RefInitInv DEF Init
<1>2. PortInv(port) /\ port.heap = {} /\ port.active = 0
  BY NewPortInv DEF Init, PortInit
<1>3. Polling = {} /\ Cardinality(Polling) = 0
  BY FS_EmptySet DEF Init, RefInit, Polling
<1>4. packets = <<>> /\ held = [t \in Threads |-> <<>>] /\ iocp = FALSE
  BY Zenon DEF Init, PortInit
<1>a. PacketTypes
  <2>1. iocp \in BOOLEAN
    BY <1>4
  <2>2. packets \in Seq(Cells) /\ held \in [Threads -> Seq(Cells)]
    BY <1>4
  <2> QED BY <2>1, <2>2 DEF PacketTypes
<1>b. \A c : ~Out(c)
  BY <1>4 DEF Out, ToSet
<1>5. InFlight
  BY DEF Init, PortInit, InFlight, IsInjective, ToSet
<1>6. Shut
  BY <1>2 DEF Init, PortInit, RefInit, Shut, AfterClose
<1>7. Answered
  BY <1>4, <1>b DEF Answered
<1> QED BY <1>1, <1>2, <1>3, <1>a, <1>5, <1>6, <1>7 DEF PortsInv

(* A thread in a call keeps the port, and only those threads hold packets. *)
LEMMA InsideKeeps ==
  ASSUME PortsInv, NEW t \in Threads, at[t] \in Inside
  PROVE  object = "live"
<1>1. t \in Holders
  BY DEF Holders
<1> QED BY <1>1, HolderKeeps DEF PortsInv

(* The threads that wait, when one thread moves. *)
LEMMA MovesPolling ==
  ASSUME RefInv, NEW t \in Threads, NEW from, NEW to, Move(t, from, to)
  PROVE  /\ at[t] = from /\ at'[t] = to /\ \A u \in Threads \ {t} : at'[u] = at[u]
         /\ object' = object
         /\ Polling' = IF to \in {"polling", "polled"} THEN Polling \cup {t} ELSE Polling \ {t}
         /\ t \in Polling <=> from \in {"polling", "polled"}
<1>1. at[t] = from /\ at'[t] = to /\ \A u \in Threads \ {t} : at'[u] = at[u]
  BY DEF RefInv, RefTypeOK, Move, Go
<1>2. object' = object
  BY DEF Move
<1>3. \A u \in Threads : u \in Polling' <=> at'[u] \in {"polling", "polled"}
  BY DEF Polling
<1>4. Polling' \subseteq Threads /\ Polling \subseteq Threads
  BY DEF Polling
<1>5. t \in Polling <=> from \in {"polling", "polled"}
  BY <1>1 DEF Polling
<1>6. Polling' = IF to \in {"polling", "polled"} THEN Polling \cup {t} ELSE Polling \ {t}
  BY <1>1, <1>3, <1>4 DEF Polling
<1> QED BY <1>1, <1>2, <1>5, <1>6

(* Steps that leave the port and the packets alone. *)
LEMMA QuietInv ==
  ASSUME PortsInv, RefInv', UNCHANGED <<port, iocp, packets, held, object>>,
         Polling' = Polling,
         \A t \in Threads : /\ at[t] = "polled" => at'[t] = "polled"
                            /\ at'[t] \in AfterClose => at[t] \in AfterClose \/ ~iocp
  PROVE  PortsInv'
<1>1. PortInv(port)' /\ (port.active = Cardinality(Polling))'
  BY DEF PortsInv
<1>2. PacketTypes' /\ InFlight'
  BY DEF PortsInv, PacketTypes, InFlight
<1>3. Answered'
  BY DEF PortsInv, Answered, Out
<1>4. Shut'
  BY DEF PortsInv, Shut
<1> QED BY <1>1, <1>2, <1>3, <1>4 DEF PortsInv

(* A critical section of a call: the packets the thread has taken are         *)
(* processed, and what else happens keeps the polls.                          *)
LEMMA TurnInv ==
  ASSUME PortsInv, RefInv', NEW t \in Threads, at[t] \in Inside,
         NEW fed, \A c \in ToSet(held[t]) : fed.cell[c].status = "IDLE",
         \A c \in Cells \ ToSet(held[t]) : fed.cell[c] = port.cell[c],
         NEW q, Keeps(fed, q), port'.cell = q.cell,
         PortInv(port'), port'.active = Cardinality(Polling'),
         held' = [held EXCEPT ![t] = <<>>], UNCHANGED <<iocp, packets, object>>,
         \A u \in Threads \ {t} : at'[u] = at[u], at'[t] \notin AfterClose
  PROVE  PortsInv'
<1>1. object' = "live"
  BY InsideKeeps
<1>2. /\ held'[t] = <<>> /\ \A u \in Threads \ {t} : held'[u] = held[u]
      /\ PacketTypes'
  BY DEF PortsInv, PacketTypes
<1>3. ToSet(held'[t]) = {} /\ IsInjective(held'[t])
  BY <1>2 DEF ToSet, IsInjective
<1>4. InFlight'
  <2>1. \A u \in Threads : ToSet(held'[u]) \subseteq ToSet(held[u]) /\ IsInjective(held'[u])
    BY <1>2, <1>3 DEF PortsInv, InFlight
  <2> QED BY <2>1 DEF PortsInv, InFlight
<1>5. \A c \in Cells : Out(c)' <=> Out(c) /\ c \notin ToSet(held[t])
  BY <1>2, <1>3 DEF PortsInv, InFlight, Out
<1>6. Answered'
  <2>1. ASSUME NEW c \in Cells, Out(c)'
        PROVE  port'.cell[c].status # "IDLE" /\ port'.cell[c].iosb # "pending"
    <3>1. Out(c) /\ fed.cell[c] = port.cell[c]
      BY <1>5, <2>1
    <3> QED BY <3>1 DEF PortsInv, Answered, Keeps
  <2>2. ASSUME NEW c \in Cells, iocp', port'.cell[c].status # "IDLE"
        PROVE  port'.cell[c].iosb = "pending" \/ Out(c)'
    <3>1. CASE fed.cell[c].status = "IDLE"
      BY <2>2, <3>1 DEF Keeps
    <3>2. CASE fed.cell[c].status # "IDLE"
      <4>1. c \notin ToSet(held[t]) /\ fed.cell[c] = port.cell[c]
        BY <3>2
      <4>2. port.cell[c].iosb = "pending" \/ Out(c)
        BY <2>2, <3>2, <4>1 DEF PortsInv, Answered
      <4>3. port'.cell[c].iosb = port.cell[c].iosb
        BY <3>2, <4>1 DEF Keeps
      <4> QED BY <1>5, <4>1, <4>2, <4>3
    <3> QED BY <3>1, <3>2
  <2> QED BY <2>1, <2>2 DEF Answered
<1>7. Shut'
  BY <1>1, <1>2 DEF PortsInv, Shut
<1> QED BY <1>2, <1>4, <1>6, <1>7 DEF PortsInv

------------------------------------------------------------------------------
(* epoll_ctl() and epoll_wait(), with the property that no update is left     *)
(* while a thread waits, when the kernel refuses nothing.                     *)

Served(p) == p.active > 0 => p.update = <<>>

(* port__update_events_if_polling() *)
LEMMA IfPollingInv ==
  ASSUME NEW p, PortInv(p), NEW no
  PROVE  LET q == UpdateIfPolling(p, no)
         IN PortInv(q) /\ Keeps(p, q) /\ (no = {} => Served(q))
<1>1. CASE p.active > 0
  BY <1>1, UpdateAllInv DEF UpdateIfPolling, Served
<1>2. CASE ~(p.active > 0)
  <2>1. UpdateIfPolling(p, no) = p
    BY <1>2 DEF UpdateIfPolling
  <2>2. Keeps(p, p)
    BY DEF Keeps
  <2> QED BY <1>2, <2>1, <2>2 DEF Served
<1> QED BY <1>1, <1>2

(* What all steps of a call share: the thread has no packets, and what it     *)
(* does keeps the polls.                                                      *)
LEMMA CtlInv ==
  ASSUME PortsInv, RefInv', NEW t \in Threads, Move(t, "ctl", "unref"),
         PortInv(port'), Keeps(port, port'), UNCHANGED <<iocp, packets, held>>
  PROVE  PortsInv'
<1>1. /\ at[t] = "ctl" /\ at'[t] = "unref" /\ \A u \in Threads \ {t} : at'[u] = at[u]
      /\ object' = object /\ Polling' = Polling
  BY MovesPolling DEF PortsInv
<1>2. held[t] = <<>> /\ ToSet(held[t]) = {} /\ held' = [held EXCEPT ![t] = <<>>]
  <2>1. held[t] = <<>>
    BY <1>1 DEF PortsInv, Shut
  <2>2. ToSet(held[t]) = {}
    BY <2>1 DEF ToSet
  <2> QED BY <2>1, <2>2 DEF PortsInv, PacketTypes
<1>3. port'.active = Cardinality(Polling')
  BY <1>1 DEF Keeps, PortsInv
<1> QED BY <1>1, <1>2, <1>3, TurnInv DEF Inside, AfterClose

(* epoll_ctl() has the port keep its polls. *)
LEMMA CtlAddPort ==
  ASSUME PortInv(port), NEW t, CtlAdd(t)
  PROVE  /\ PortInv(port') /\ Keeps(port, port')
         /\ Refusals = {{}} /\ Served(port) => Served(port')
<1>1. PICK s \in Sockets, no \in Refusals : \E events \in Interests[s] :
        IF ready[s] = Closed THEN UNCHANGED port
        ELSE /\ iocp \/ ~NeedsGroup(port)
             /\ port' = UpdateIfPolling(Added(port, s, events), no)
  BY DEF CtlAdd
<1>2. CASE UNCHANGED port
  BY <1>2 DEF Keeps
<1>3. ASSUME NEW events \in Interests[s],
             port' = UpdateIfPolling(Added(port, s, events), no)
      PROVE  /\ PortInv(port') /\ Keeps(port, port')
             /\ Refusals = {{}} /\ Served(port) => Served(port')
  <2>1. PortInv(Added(port, s, events)) /\ Keeps(port, Added(port, s, events))
    BY AddedInv
  <2>2. /\ PortInv(port') /\ Keeps(Added(port, s, events), port')
        /\ no = {} => Served(port')
    BY <1>3, <2>1, IfPollingInv
  <2>3. Keeps(port, port')
    BY <2>1, <2>2, KeepsTrans DEF PortInv
  <2> QED BY <2>2, <2>3
<1> QED BY <1>1, <1>2, <1>3

LEMMA CtlModPort ==
  ASSUME PortInv(port), NEW t, CtlMod(t)
  PROVE  /\ PortInv(port') /\ Keeps(port, port')
         /\ Refusals = {{}} /\ Served(port) => Served(port')
<1>1. PICK s \in Sockets, no \in Refusals : \E events \in Interests[s] :
        /\ port.tree[s] # NULL
        /\ port' = UpdateIfPolling(SetEvent(port, port.tree[s], events), no)
  BY DEF CtlMod
<1>2. PICK events \in Interests[s] :
        /\ port.tree[s] # NULL
        /\ port' = UpdateIfPolling(SetEvent(port, port.tree[s], events), no)
  BY <1>1
<1> DEFINE c == port.tree[s]
           q == SetEvent(port, c, events)
<1>3. c \in port.heap /\ ~port.cell[c].deleted
  BY <1>2 DEF PortInv, Registry, Linked
<1>4. events \in SUBSET (Known \cup {"ONESHOT"})
  BY InterestAssumption
<1>5. Nearly(port, c)
  BY NearlyPort
<1>6. PortInv(q) /\ Keeps(port, q)
  BY <1>3, <1>4, <1>5, SetEventInv
<1>7. port' = UpdateIfPolling(q, no)
  BY <1>2
<1> HIDE DEF q
<1>8. PortInv(port') /\ Keeps(q, port') /\ (no = {} => Served(port'))
  BY <1>6, <1>7, IfPollingInv
<1>9. Keeps(port, port')
  BY <1>6, <1>8, KeepsTrans DEF PortInv
<1> QED BY <1>8, <1>9

LEMMA CtlDelPort ==
  ASSUME PortInv(port), NEW t, CtlDel(t)
  PROVE  /\ PortInv(port') /\ Keeps(port, port')
         /\ Refusals = {{}} /\ Served(port) => Served(port')
<1>1. PICK s \in Sockets, no \in Refusals :
        port.tree[s] # NULL /\ port' = Delete(port, port.tree[s], FALSE, no)
  BY Zenon DEF CtlDel
<1> DEFINE c == port.tree[s]
<1>2. c \in port.heap /\ port.heap \subseteq Cells /\ Nearly(port, c)
  BY <1>1, NearlyPort DEF PortInv, Registry, Linked, Port
<1>3. /\ port.cell[c].status = "IDLE" => Freed(port, c, port')
      /\ port.cell[c].status # "IDLE" => Kept(port, c, port')
  <2>1. /\ port.cell[c].status = "IDLE" => Freed(port, c, Delete(port, c, FALSE, no))
        /\ port.cell[c].status # "IDLE" => Kept(port, c, Delete(port, c, FALSE, no))
    BY <1>2, DeleteInv
  <2> QED BY <1>1, <2>1, Zenon
<1>4. Gone(port, c, port')
  BY <1>3 DEF Freed, Kept
<1>5. Keeps(port, port')
  BY <1>2, <1>3, <1>4 DEF Keeps, Gone, Freed, Kept, Blank
<1>6. Served(port) => Served(port')
  <2>1. Unlink(<<>>, c) = <<>>
    BY DEF Unlink, ToSet
  <2> QED BY <1>4, <2>1 DEF Gone, Served
<1> QED BY <1>4, <1>5, <1>6 DEF Gone

LEMMA EpollCtlInv ==
  ASSUME PortsInv, RefInv', NEW t \in Threads, Epoll_ctl(t)
  PROVE  PortsInv'
<1>1. CASE CtlAdd(t)
  <2>1. PortInv(port') /\ Keeps(port, port')
    BY <1>1, CtlAddPort DEF PortsInv
  <2> QED BY <1>1, <2>1, CtlInv DEF CtlAdd
<1>2. CASE CtlMod(t)
  <2>1. PortInv(port') /\ Keeps(port, port')
    BY <1>2, CtlModPort DEF PortsInv
  <2> QED BY <1>2, <2>1, CtlInv DEF CtlMod
<1>3. CASE CtlDel(t)
  <2>1. PortInv(port') /\ Keeps(port, port')
    BY <1>3, CtlDelPort DEF PortsInv
  <2> QED BY <1>3, <2>1, CtlInv DEF CtlDel
<1>4. CASE CtlAddFails(t) \/ CtlFails(t)
  <2>1. Keeps(port, port)
    BY DEF Keeps
  <2>2. Move(t, "ctl", "unref") /\ UNCHANGED portVars
    BY <1>4 DEF CtlAddFails, CtlFails
  <2> QED BY <2>1, <2>2, CtlInv DEF portVars, PortsInv
<1>5. CASE CtlAddAborts(t)
  BY <1>5, QuietInv DEF CtlAddAborts, refVars, Polling
<1> QED BY <1>1, <1>2, <1>3, <1>4, <1>5 DEF Epoll_ctl

(* port__poll() from where the updates are made. *)
LEMMA PollFromInv ==
  ASSUME RefInv, NEW t \in Threads, NEW from \in {"wait", "polled"}, NEW p, NEW no,
         PortInv(p), PollFrom(t, from, p, no), p.active = Cardinality(Polling \ {t})
  PROVE  \E q : /\ Keeps(p, q) /\ port'.cell = q.cell /\ PortInv(port')
                /\ port'.active = Cardinality(Polling') /\ object' = object
                /\ at[t] = from /\ at'[t] \in {"polling", "unref"}
                /\ \A u \in Threads \ {t} : at'[u] = at[u]
                /\ no = {} => Served(port')
<1> DEFINE q == UpdateAll(p, no)
<1>1. PortInv(q) /\ Keeps(p, q) /\ q.active = p.active
  BY UpdateAllInv DEF Keeps
<1>2. \/ /\ q.update = <<>> /\ port' = [q EXCEPT !.active = @ + 1]
         /\ Move(t, from, "polling")
      \/ port' = UpdateIfPolling(q, no) /\ Move(t, from, "unref")
  BY DEF PollFrom
<1> HIDE DEF q
<1>3. IsFiniteSet(Polling \ {t}) /\ Cardinality(Polling \ {t}) \in Nat
      /\ Cardinality((Polling \ {t}) \cup {t}) = Cardinality(Polling \ {t}) + 1
  <2>1. IsFiniteSet(Polling \ {t})
    BY PollingCount, FS_Subset
  <2> QED BY <2>1, FS_CardinalityType, FS_AddElement
<1>4. CASE /\ q.update = <<>> /\ port' = [q EXCEPT !.active = @ + 1]
           /\ Move(t, from, "polling")
  <2>1. q.active + 1 \in Int /\ port' = [q EXCEPT !.active = q.active + 1]
    BY <1>1, <1>3, <1>4
  <2>2. /\ PortInv(port') /\ port'.active = q.active + 1 /\ port'.cell = q.cell
        /\ port'.update = q.update
    BY <1>1, <2>1, ActiveInv
  <2>3. /\ at[t] = from /\ at'[t] = "polling" /\ \A u \in Threads \ {t} : at'[u] = at[u]
        /\ object' = object /\ Polling' = Polling \cup {t}
    BY <1>4, MovesPolling
  <2>4. Polling' = (Polling \ {t}) \cup {t}
    BY <2>3
  <2>5. port'.active = Cardinality(Polling')
    BY <1>1, <1>3, <2>2, <2>4
  <2> QED BY <1>1, <1>4, <2>2, <2>3, <2>5 DEF Served
<1>5. CASE port' = UpdateIfPolling(q, no) /\ Move(t, from, "unref")
  <2>1. PortInv(port') /\ Keeps(q, port') /\ (no = {} => Served(port'))
    BY <1>1, <1>5, IfPollingInv
  <2>2. Keeps(p, port')
    BY <1>1, <2>1, KeepsTrans DEF PortInv
  <2>3. /\ at[t] = from /\ at'[t] = "unref" /\ \A u \in Threads \ {t} : at'[u] = at[u]
        /\ object' = object /\ Polling' = Polling \ {t}
    BY <1>5, MovesPolling
  <2>4. port'.active = Cardinality(Polling')
    BY <2>2, <2>3 DEF Keeps
  <2> QED BY <2>1, <2>2, <2>3, <2>4
<1> QED BY <1>2, <1>4, <1>5

LEMMA WaitStartInv ==
  ASSUME PortsInv, RefInv', NEW t \in Threads, WaitStart(t)
  PROVE  PortsInv' /\ (Refusals = {{}} => Served(port'))
<1>1. at[t] = "wait" /\ UNCHANGED <<iocp, packets, held>>
  BY DEF WaitStart
<1>2. PICK no \in Refusals : PollFrom(t, "wait", port, no)
  BY DEF WaitStart
<1>3. Polling \ {t} = Polling
  BY <1>1 DEF Polling
<1>4. PICK q :  /\ Keeps(port, q) /\ port'.cell = q.cell /\ PortInv(port')
                /\ port'.active = Cardinality(Polling') /\ object' = object
                /\ at[t] = "wait" /\ at'[t] \in {"polling", "unref"}
                /\ \A u \in Threads \ {t} : at'[u] = at[u]
                /\ no = {} => Served(port')
  BY <1>2, <1>3, PollFromInv DEF PortsInv
<1>5. held[t] = <<>> /\ ToSet(held[t]) = {} /\ held' = [held EXCEPT ![t] = <<>>]
  <2>1. held[t] = <<>>
    BY <1>1 DEF PortsInv, Shut
  <2>2. ToSet(held[t]) = {}
    BY <2>1 DEF ToSet
  <2> QED BY <1>1, <2>1, <2>2 DEF PortsInv, PacketTypes
<1>6. at[t] \in Inside /\ at'[t] \notin AfterClose
  BY <1>4 DEF Inside, AfterClose
<1>7. PortsInv'
  BY <1>1, <1>4, <1>5, <1>6, TurnInv
<1> QED BY <1>4, <1>7

(* What a queue is cut into. *)
LEMMA CutQueue ==
  ASSUME NEW S, NEW q \in Seq(S), IsInjective(q), NEW n \in 0..Len(q)
  PROVE  LET a == SubSeq(q, 1, n)
             b == SubSeq(q, n + 1, Len(q))
         IN /\ a \in Seq(S) /\ b \in Seq(S) /\ IsInjective(a) /\ IsInjective(b)
            /\ ToSet(a) \cap ToSet(b) = {} /\ ToSet(a) \cup ToSet(b) = ToSet(q)
<1> DEFINE a == SubSeq(q, 1, n)
           b == SubSeq(q, n + 1, Len(q))
<1>1. /\ a \in Seq(S) /\ DOMAIN a = 1..n /\ \A i \in 1..n : a[i] = q[i]
      /\ Len(q) \in Nat /\ DOMAIN q = 1..Len(q)
  OBVIOUS
<1>2. /\ b \in Seq(S) /\ DOMAIN b = 1..(Len(q) - n)
      /\ \A i \in 1..(Len(q) - n) : b[i] = q[n + i]
  OBVIOUS
<1> HIDE DEF a, b
<1>3. IsInjective(a)
  BY <1>1 DEF IsInjective
<1>4. IsInjective(b)
  <2> SUFFICES ASSUME NEW i \in DOMAIN b, NEW j \in DOMAIN b, b[i] = b[j] PROVE i = j
    BY DEF IsInjective
  <2>1. n + i \in DOMAIN q /\ n + j \in DOMAIN q /\ q[n + i] = q[n + j]
    BY <1>1, <1>2
  <2>2. n + i = n + j
    BY <2>1 DEF IsInjective
  <2> QED BY <1>2, <2>2
<1>5. ASSUME NEW i \in DOMAIN a, NEW j \in DOMAIN b PROVE a[i] # b[j]
  <2>1. i \in DOMAIN q /\ n + j \in DOMAIN q /\ i # n + j /\ a[i] = q[i] /\ b[j] = q[n + j]
    BY <1>1, <1>2
  <2> QED BY <2>1 DEF IsInjective
<1>6. ASSUME NEW i \in DOMAIN q PROVE q[i] \in ToSet(a) \cup ToSet(b)
  <2>1. CASE i <= n
    <3>1. i \in DOMAIN a /\ a[i] = q[i]
      BY <1>1, <2>1
    <3> QED BY <3>1 DEF ToSet
  <2>2. CASE i > n
    <3>1. i - n \in DOMAIN b /\ n + (i - n) = i
      BY <1>1, <1>2, <2>2
    <3>2. b[i - n] = q[i]
      BY <1>2, <3>1
    <3> QED BY <3>1, <3>2 DEF ToSet
  <2> QED BY <1>1, <2>1, <2>2
<1>7. ToSet(a) \subseteq ToSet(q) /\ ToSet(b) \subseteq ToSet(q)
  <2>1. \A i \in DOMAIN a : i \in DOMAIN q /\ a[i] = q[i]
    BY <1>1
  <2>2. \A i \in DOMAIN b : n + i \in DOMAIN q /\ b[i] = q[n + i]
    BY <1>1, <1>2
  <2> QED BY <2>1, <2>2 DEF ToSet
<1>8. ToSet(q) \subseteq ToSet(a) \cup ToSet(b)
  BY <1>6 DEF ToSet
<1>9. ToSet(a) \cap ToSet(b) = {}
  BY <1>5 DEF ToSet
<1> QED BY <1>1, <1>2, <1>3, <1>4, <1>7, <1>8, <1>9 DEF a, b

(* GetQueuedCompletionStatusEx() moves packets to the thread. *)
LEMMA DequeueInv ==
  ASSUME PortsInv, RefInv', NEW t \in Threads, Dequeue(t)
  PROVE  PortsInv'
<1> DEFINE n == IF Len(packets) < MaxEvents THEN Len(packets) ELSE MaxEvents
           a == SubSeq(packets, 1, n)
           b == SubSeq(packets, n + 1, Len(packets))
<1>1. /\ at[t] = "polling" /\ at'[t] = "polled" /\ \A u \in Threads \ {t} : at'[u] = at[u]
      /\ object' = object /\ Polling' = Polling
  BY MovesPolling DEF PortsInv, Dequeue
<1>2. /\ held' = [held EXCEPT ![t] = a] /\ packets' = b /\ iocp
      /\ UNCHANGED <<port, iocp>>
  BY DEF Dequeue
<1>3. n \in 0..Len(packets)
  BY PortAssumption DEF PortsInv, PacketTypes
<1> HIDE DEF n
<1>4. /\ a \in Seq(Cells) /\ b \in Seq(Cells) /\ IsInjective(a) /\ IsInjective(b)
      /\ ToSet(a) \cap ToSet(b) = {} /\ ToSet(a) \cup ToSet(b) = ToSet(packets)
  BY <1>3, CutQueue DEF PortsInv, PacketTypes, InFlight
<1> HIDE DEF a, b
<1>5. ToSet(held[t]) = {}
  <2>1. held[t] = <<>>
    BY <1>1 DEF PortsInv, Shut
  <2> QED BY <2>1 DEF ToSet
<1>6. held'[t] = a /\ (\A u \in Threads \ {t} : held'[u] = held[u]) /\ PacketTypes'
  BY <1>2, <1>4 DEF PortsInv, PacketTypes
<1>7. InFlight'
  <2>1. \A u \in Threads : IsInjective(held[u]) /\ ToSet(packets) \cap ToSet(held[u]) = {}
    BY DEF PortsInv, InFlight
  <2>2. \A u, v \in Threads : u # v => ToSet(held[u]) \cap ToSet(held[v]) = {}
    BY DEF PortsInv, InFlight
  <2>3. \A u \in Threads : IsInjective(held'[u]) /\ ToSet(b) \cap ToSet(held'[u]) = {}
    BY <1>4, <1>6, <2>1
  <2>4. \A u \in Threads \ {t} : ToSet(a) \cap ToSet(held'[u]) = {}
    BY <1>4, <1>6, <2>1
  <2>5. ASSUME NEW u \in Threads, NEW v \in Threads, u # v
        PROVE  ToSet(held'[u]) \cap ToSet(held'[v]) = {}
    <3>1. CASE u = t
      BY <1>6, <2>4, <2>5, <3>1
    <3>2. CASE v = t
      BY <1>6, <2>4, <2>5, <3>2
    <3>3. CASE u # t /\ v # t
      BY <1>6, <2>2, <2>5, <3>3
    <3> QED BY <3>1, <3>2, <3>3
  <2> QED BY <1>2, <1>4, <2>3, <2>5 DEF InFlight
<1>8. \A c \in Cells : Out(c)' <=> Out(c)
  BY <1>2, <1>4, <1>5, <1>6 DEF Out
<1>9. Answered'
  BY <1>2, <1>8 DEF PortsInv, Answered
<1>10. Shut'
  BY <1>1, <1>2, <1>6 DEF PortsInv, Shut, AfterClose
<1> QED BY <1>1, <1>2, <1>6, <1>7, <1>9, <1>10 DEF PortsInv

LEMMA DequeueFailsInv ==
  ASSUME PortsInv, RefInv', NEW t \in Threads, DequeueFails(t)
  PROVE  PortsInv'
<1>1. /\ at[t] = "polling" /\ at'[t] = "polled" /\ \A u \in Threads \ {t} : at'[u] = at[u]
      /\ object' = object /\ Polling' = Polling
  BY MovesPolling DEF PortsInv, DequeueFails
<1> QED BY <1>1, QuietInv DEF DequeueFails, portVars, AfterClose

(* epoll_wait() processes the packets and reports, or waits once more. *)
LEMMA WaitEndInv ==
  ASSUME PortsInv, RefInv', NEW t \in Threads, WaitEnd(t)
  PROVE  PortsInv' /\ (Refusals = {{}} => Served(port'))
<1> DEFINE less == [port EXCEPT !.active = @ - 1]
<1>1. at[t] = "polled" /\ UNCHANGED <<iocp, packets>> /\ held' = [held EXCEPT ![t] = <<>>]
  BY DEF WaitEnd
<1>2. PICK no \in Refusals :
        \/ /\ port' = UpdateIfPolling(FeedAll(less, held[t], no), no)
           /\ Move(t, "polled", "unref")
        \/ PollFrom(t, "polled", FeedAll(less, held[t], no), no)
  BY DEF WaitEnd
<1> DEFINE fed == FeedAll(less, held[t], no)
<1>3. t \in Polling
  BY <1>1 DEF Polling
<1>4. port.active - 1 = Cardinality(Polling \ {t}) /\ port.active - 1 \in Int
  BY <1>3, PollingCount DEF PortsInv
<1>5. /\ PortInv(less) /\ less.cell = port.cell /\ less.active = Cardinality(Polling \ {t})
  <2>1. less = [port EXCEPT !.active = port.active - 1]
    OBVIOUS
  <2> HIDE DEF less
  <2> QED BY <1>4, <2>1, ActiveInv DEF PortsInv
<1>6. held[t] \in Seq(Cells) /\ IsInjective(held[t])
  BY DEF PortsInv, PacketTypes, InFlight
<1>7. \A c \in ToSet(held[t]) : c \in Cells /\ port.cell[c].status # "IDLE"
  <2>1. ToSet(held[t]) \subseteq Cells
    BY <1>6 DEF ToSet
  <2> QED BY <2>1 DEF PortsInv, Answered, Out
<1> HIDE DEF less
<1>8. /\ PortInv(fed) /\ fed.active = less.active
      /\ \A c \in ToSet(held[t]) : fed.cell[c].status = "IDLE"
      /\ \A c \in Cells \ ToSet(held[t]) : fed.cell[c] = port.cell[c]
  BY <1>5, <1>6, <1>7, FeedAllInv
<1> HIDE DEF fed
<1>9. CASE port' = UpdateIfPolling(fed, no) /\ Move(t, "polled", "unref")
  <2>1. PortInv(port') /\ Keeps(fed, port') /\ (no = {} => Served(port'))
    BY <1>8, <1>9, IfPollingInv
  <2>2. /\ at[t] = "polled" /\ at'[t] = "unref" /\ \A u \in Threads \ {t} : at'[u] = at[u]
        /\ object' = object /\ Polling' = Polling \ {t}
    BY <1>9, MovesPolling DEF PortsInv
  <2>3. port'.active = Cardinality(Polling')
    BY <1>5, <1>8, <2>1, <2>2 DEF Keeps
  <2>4. at[t] \in Inside /\ at'[t] \notin AfterClose
    BY <2>2 DEF Inside, AfterClose
  <2>5. PortsInv'
    BY <1>1, <1>8, <2>1, <2>2, <2>3, <2>4, TurnInv
  <2> QED BY <2>1, <2>5
<1>10. CASE PollFrom(t, "polled", fed, no)
  <2>1. PICK q :  /\ Keeps(fed, q) /\ port'.cell = q.cell /\ PortInv(port')
                  /\ port'.active = Cardinality(Polling') /\ object' = object
                  /\ at[t] = "polled" /\ at'[t] \in {"polling", "unref"}
                  /\ \A u \in Threads \ {t} : at'[u] = at[u]
                  /\ no = {} => Served(port')
    BY <1>5, <1>8, <1>10, PollFromInv DEF PortsInv
  <2>2. at[t] \in Inside /\ at'[t] \notin AfterClose
    BY <2>1 DEF Inside, AfterClose
  <2>3. PortsInv'
    BY <1>1, <1>8, <2>1, <2>2, TurnInv
  <2> QED BY <2>1, <2>3
<1> QED BY <1>2, <1>9, <1>10 DEF fed

------------------------------------------------------------------------------
(* The other calls, and the kernel. *)

LEMMA CreateStepInv ==
  ASSUME PortsInv, RefInv', NEW t \in Threads, EpollCreate(t)
  PROVE  PortsInv'
<1>1. /\ object = "free" /\ object' = "live" /\ at' = at /\ iocp' = TRUE
      /\ UNCHANGED <<port, packets, held>>
  BY Zenon DEF EpollCreate, Create
<1>2. port.heap = {} /\ ~iocp /\ packets = <<>>
  BY <1>1 DEF PortsInv, Shut
<1>3. \A u \in Threads : at[u] \notin AfterClose
  BY <1>1 DEF PortsInv, RefInv, Closers, Closing, AfterClose
<1>4. PortInv(port)' /\ (port.active = Cardinality(Polling))'
  BY <1>1 DEF PortsInv, Polling
<1>a. iocp' \in BOOLEAN
  BY <1>1
<1>5. PacketTypes' /\ InFlight'
  BY <1>1, <1>a DEF PortsInv, PacketTypes, InFlight
<1>6. \A c \in Cells : port.cell[c].status = "IDLE"
  BY <1>2, BusyInHeap DEF PortsInv
<1>7. Answered'
  BY <1>1, <1>6 DEF PortsInv, Answered, Out
<1>8. Shut'
  BY <1>1, <1>2, <1>3 DEF PortsInv, Shut
<1> QED BY <1>4, <1>5, <1>7, <1>8 DEF PortsInv

(* Threads that enter and leave, and those that wait for them. *)
LEMMA PassInv ==
  ASSUME PortsInv, RefInv', NEW t \in Threads, UNCHANGED portVars,
         \/ \E call \in {"ctl", "wait"} : Enter(t, call)
         \/ Unref(t) \/ StartClose(t) \/ Drop(t) \/ Poison(t)
         \/ \E u \in Threads : Meet(t, u)
  PROVE  PortsInv'
<1>1. object' = object /\ at \in [Threads -> Places]
  BY DEF Enter, Unref, StartClose, Drop, Poison, Meet, PortsInv, RefInv, RefTypeOK
<1>2. \A u \in Threads :
        \/ at'[u] = at[u]
        \/ /\ at[u] \notin {"polling", "polled"} /\ at'[u] \notin {"polling", "polled"}
           /\ at'[u] \in AfterClose => at[u] \in AfterClose
  BY <1>1 DEF Enter, Unref, StartClose, Drop, Poison, Meet, Go, AfterClose
<1>3. Polling' = Polling
  BY <1>2 DEF Polling
<1>4. \A u \in Threads : /\ at[u] = "polled" => at'[u] = "polled"
                         /\ at'[u] \in AfterClose => at[u] \in AfterClose
  BY <1>2
<1> QED BY <1>1, <1>3, <1>4, QuietInv DEF portVars

LEMMA PortCloseInv ==
  ASSUME PortsInv, RefInv', NEW t \in Threads, PortClose(t)
  PROVE  PortsInv'
<1>1. /\ at[t] = "close" /\ at'[t] = "drop" /\ \A u \in Threads \ {t} : at'[u] = at[u]
      /\ object' = object /\ Polling' = Polling
  <2>1. Move(t, "close", "drop")
    BY Zenon DEF PortClose
  <2> QED BY <2>1, MovesPolling DEF PortsInv
<1>2. iocp' = FALSE /\ packets' = <<>> /\ UNCHANGED <<port, held>>
  BY Zenon DEF PortClose
<1>3. ToSet(packets') = {} /\ IsInjective(packets') /\ packets' \in Seq(Cells)
  BY <1>2 DEF ToSet, IsInjective
<1>4. iocp' \in BOOLEAN
  BY <1>2
<1>5. PacketTypes' /\ InFlight'
  BY <1>2, <1>3, <1>4 DEF PortsInv, PacketTypes, InFlight
<1>6. \A c \in Cells : Out(c)' => Out(c)
  BY <1>2, <1>3 DEF Out
<1>7. Answered'
  BY <1>2, <1>6 DEF PortsInv, Answered
<1>8. Shut'
  BY <1>1, <1>2 DEF PortsInv, Shut
<1>9. PortInv(port)' /\ (port.active = Cardinality(Polling))'
  BY <1>1, <1>2 DEF PortsInv
<1> QED BY <1>5, <1>7, <1>8, <1>9 DEF PortsInv

(* When the port is deleted no thread holds a packet of it. *)
LEMMA PortDeleteInv ==
  ASSUME PortsInv, RefInv', NEW t \in Threads, PortDelete(t)
  PROVE  PortsInv' /\ Served(port')
<1>1. /\ at[t] = "delete" /\ at'[t] = "out" /\ \A u \in Threads \ {t} : at'[u] = at[u]
      /\ object' = "free"
  BY DEF PortsInv, RefInv, RefTypeOK, PortDelete, Free, Go
<1>2. port' = NewPort /\ UNCHANGED <<iocp, packets, held>>
  BY DEF PortDelete
<1>3. Holders = {}
  BY <1>1 DEF PortsInv, RefInv, Closers, Closing
<1>4. ~iocp /\ packets = <<>>
  BY <1>1 DEF PortsInv, Shut, AfterClose
<1>5. \A u \in Threads : at[u] \notin {"polling", "polled"}
  BY <1>3 DEF Holders, Inside
<1>6. \A u \in Threads : held[u] = <<>>
  BY <1>5 DEF PortsInv, Shut
<1>7. \A u \in Threads : at'[u] \notin {"polling", "polled"}
  BY <1>1, <1>5
<1>8. Polling' = {} /\ Cardinality(Polling') = 0
  BY <1>7, FS_EmptySet DEF Polling
<1>9. PortInv(port') /\ port'.heap = {} /\ port'.active = 0
  BY <1>2, NewPortInv
<1>10. \A c : ~Out(c)'
  BY <1>2, <1>4, <1>6 DEF Out, ToSet
<1>11. Answered'
  BY <1>2, <1>4, <1>10 DEF Answered
<1>12. PacketTypes' /\ InFlight'
  BY <1>2 DEF PortsInv, PacketTypes, InFlight
<1>13. Shut'
  BY <1>1, <1>2, <1>4, <1>6, <1>9 DEF Shut
<1> QED BY <1>8, <1>9, <1>11, <1>12, <1>13 DEF PortsInv, Served

(* Two queues with no element in common. *)
LEMMA JoinQueues ==
  ASSUME NEW S, NEW a \in Seq(S), NEW b \in Seq(S), IsInjective(a), IsInjective(b),
         ToSet(a) \cap ToSet(b) = {}
  PROVE  a \o b \in Seq(S) /\ IsInjective(a \o b) /\ ToSet(a \o b) = ToSet(a) \cup ToSet(b)
<1> DEFINE m == Len(a)
           n == Len(b)
           r == a \o b
<1>1. /\ m \in Nat /\ n \in Nat /\ r \in Seq(S) /\ DOMAIN r = 1..(m + n)
      /\ DOMAIN a = 1..m /\ DOMAIN b = 1..n
      /\ \A i \in 1..m : r[i] = a[i]
      /\ \A i \in (m + 1)..(m + n) : r[i] = b[i - m]
  OBVIOUS
<1> HIDE DEF m, n, r
<1>2. \A i \in DOMAIN r : \/ i \in DOMAIN a /\ r[i] = a[i]
                          \/ i - m \in DOMAIN b /\ r[i] = b[i - m]
  BY <1>1
<1>3. \A i \in DOMAIN a : i \in DOMAIN r /\ r[i] = a[i]
  BY <1>1
<1>4. \A i \in DOMAIN b : m + i \in DOMAIN r /\ r[m + i] = b[i]
  <2> SUFFICES ASSUME NEW i \in DOMAIN b PROVE m + i \in DOMAIN r /\ r[m + i] = b[i]
    OBVIOUS
  <2>1. m + i \in (m + 1)..(m + n) /\ (m + i) - m = i
    BY <1>1
  <2> QED BY <1>1, <2>1
<1>5. ToSet(r) = ToSet(a) \cup ToSet(b)
  <2>1. ToSet(r) \subseteq ToSet(a) \cup ToSet(b)
    BY <1>2 DEF ToSet
  <2>2. ToSet(a) \subseteq ToSet(r) /\ ToSet(b) \subseteq ToSet(r)
    BY <1>3, <1>4 DEF ToSet
  <2> QED BY <2>1, <2>2
<1>6. \A i \in DOMAIN a, j \in DOMAIN b : a[i] # b[j]
  BY DEF ToSet
<1>7. IsInjective(r)
  <2> SUFFICES ASSUME NEW i \in DOMAIN r, NEW j \in DOMAIN r, r[i] = r[j] PROVE i = j
    BY DEF IsInjective
  <2>1. CASE i \in DOMAIN a /\ j \in DOMAIN a
    BY <1>3, <2>1 DEF IsInjective
  <2>2. CASE i \notin DOMAIN a /\ j \notin DOMAIN a
    <3>1. i - m \in DOMAIN b /\ j - m \in DOMAIN b /\ b[i - m] = b[j - m]
      BY <1>2, <2>2
    <3>2. i - m = j - m
      BY <3>1 DEF IsInjective
    <3> QED BY <1>1, <3>2
  <2>3. CASE i \in DOMAIN a /\ j \notin DOMAIN a
    BY <1>2, <1>3, <1>6, <2>3
  <2>4. CASE i \notin DOMAIN a /\ j \in DOMAIN a
    BY <1>2, <1>3, <1>6, <2>4
  <2> QED BY <2>1, <2>2, <2>3, <2>4
<1> QED BY <1>1, <1>5, <1>7 DEF r

(* Some polls end, and their packets are queued. *)
LEMMA PostInv ==
  ASSUME PortsInv, NEW ended \in SUBSET Cells,
         \A c \in ended : port.cell[c].iosb = "pending",
         NEW status \in {"success", "cancelled", "failed"}, NEW found \in SUBSET AfdOf(Known),
         port' = Ended(port, ended, status, found),
         NEW cells \in Seq(Cells), IsInjective(cells), ToSet(cells) = ended, Post(cells),
         UNCHANGED <<refVars, iocp, held>>, RefInv'
  PROVE  PortsInv' /\ (Served(port) => Served(port'))
<1>b. EndsOnly(port, ended, status, port')
  <2>1. PortInv(port)
    BY DEF PortsInv
  <2>2. EndsOnly(port, ended, status, Ended(port, ended, status, found))
    BY <2>1, EndsInv
  <2> QED BY <2>2, Zenon
<1>1. /\ PortInv(port') /\ port'.heap = port.heap /\ port'.active = port.active
      /\ \A c \in ended : port.cell[c].status # "IDLE" /\ port'.cell[c].iosb = status
      /\ \A c \in Cells : port'.cell[c].status = port.cell[c].status
      /\ \A c \in Cells \ ended : port'.cell[c] = port.cell[c]
  BY <1>b DEF EndsOnly
<1>a. iocp' = iocp /\ held' = held
  OBVIOUS
<1>2. Polling' = Polling /\ object' = object /\ at' = at
  BY DEF refVars, Polling
<1>3. \A c \in ended : ~Out(c)
  BY DEF PortsInv, Answered
<1>4. ToSet(packets) \cap ended = {} /\ \A t \in Threads : ToSet(held[t]) \cap ended = {}
  BY <1>3 DEF Out
<1>5. /\ packets' \in Seq(Cells) /\ IsInjective(packets')
      /\ ToSet(packets') = IF iocp THEN ToSet(packets) \cup ended ELSE ToSet(packets)
  <2>1. packets \in Seq(Cells) /\ IsInjective(packets)
    BY DEF PortsInv, PacketTypes, InFlight
  <2>2. /\ packets \o cells \in Seq(Cells) /\ IsInjective(packets \o cells)
        /\ ToSet(packets \o cells) = ToSet(packets) \cup ended
    BY <1>4, <2>1, JoinQueues
  <2> QED BY <2>1, <2>2 DEF Post
<1>6. PacketTypes'
  BY <1>5 DEF PortsInv, PacketTypes
<1>7. InFlight'
  <2>1. \A t \in Threads : ToSet(packets') \cap ToSet(held[t]) = {}
    BY <1>4, <1>5 DEF PortsInv, InFlight
  <2> QED BY <1>5, <2>1 DEF PortsInv, InFlight
<1>8. \A c \in Cells : Out(c)' <=> Out(c) \/ (iocp /\ c \in ended)
  BY <1>5 DEF Out
<1>9. Answered'
  <2>1. ASSUME NEW c \in Cells, Out(c)'
        PROVE  port'.cell[c].status # "IDLE" /\ port'.cell[c].iosb # "pending"
    <3>1. CASE c \in ended
      BY <1>1, <3>1
    <3>2. CASE c \notin ended
      BY <1>1, <1>8, <2>1, <3>2 DEF PortsInv, Answered
    <3> QED BY <3>1, <3>2
  <2>2. ASSUME NEW c \in Cells, iocp', port'.cell[c].status # "IDLE"
        PROVE  port'.cell[c].iosb = "pending" \/ Out(c)'
    <3>1. CASE c \in ended
      BY <1>8, <2>2, <3>1
    <3>2. CASE c \notin ended
      <4>1. port.cell[c].status # "IDLE" /\ port'.cell[c] = port.cell[c]
        BY <1>1, <2>2, <3>2
      <4>2. iocp
        BY <1>a, <2>2
      <4>3. port.cell[c].iosb = "pending" \/ Out(c)
        BY <4>1, <4>2, Zenon DEF PortsInv, Answered
      <4> QED BY <1>8, <4>1, <4>3
    <3> QED BY <3>1, <3>2
  <2> QED BY <2>1, <2>2 DEF Answered
<1>10. Shut'
  <2>1. ~iocp => packets' = packets
    BY DEF Post
  <2> QED BY <1>1, <1>2, <2>1 DEF PortsInv, Shut
<1>11. Served(port) => Served(port')
  BY <1>b DEF EndsOnly, Served
<1> QED BY <1>1, <1>2, <1>6, <1>7, <1>9, <1>10, <1>11 DEF PortsInv

LEMMA FinishInv ==
  ASSUME PortsInv, RefInv', NEW c \in Cells, port.cell[c].iosb = "pending",
         NEW status \in {"success", "cancelled", "failed"}, NEW found \in SUBSET AfdOf(Known),
         Finish(c, status, found)
  PROVE  PortsInv' /\ (Served(port) => Served(port'))
<1> DEFINE d == [port.cell[c] EXCEPT !.iosb = status, !.found = found]
           after == [b \in Cells |-> IF b \in {c} THEN [port.cell[b] EXCEPT !.iosb = status, !.found = found]
                                     ELSE port.cell[b]]
<1>1. port \in Port /\ port.cell \in [Cells -> Cell]
  BY DEF PortsInv, PortInv, Port
<1>2. port' = [port EXCEPT !.cell = [port.cell EXCEPT ![c] = d]]
  BY <1>1 DEF Finish, Port, Cell
<1>3. [port.cell EXCEPT ![c] = d] = after
  <2> HIDE DEF d
  <2>1. \A b \in Cells : [port.cell EXCEPT ![c] = d][b] = after[b]
    BY <1>1 DEF d
  <2> QED BY <1>1, <2>1
<1>4. port' = Ended(port, {c}, status, found)
  BY <1>2, <1>3 DEF Ended
<1>5. <<c>> \in Seq(Cells) /\ IsInjective(<<c>>) /\ ToSet(<<c>>) = {c}
  BY DEF IsInjective, ToSet
<1>6. Post(<<c>>) /\ UNCHANGED <<refVars, iocp, held>>
  BY DEF Finish
<1>7. PortsInv' /\ (Served(port) => Served(port'))
  <2>1. {c} \in SUBSET Cells /\ \A b \in {c} : port.cell[b].iosb = "pending"
    OBVIOUS
  <2> QED BY <1>4, <1>5, <1>6, <2>1, PostInv
<1> QED BY <1>7

LEMMA CompleteInv ==
  ASSUME PortsInv, RefInv', NEW c \in Cells, Complete(c) \/ CompleteFails(c)
  PROVE  PortsInv' /\ (Served(port) => Served(port'))
<1> DEFINE d == port.cell[c]
           seen == ready[d.sock] \cap AfdOf(d.pending)
<1>1. d.pending \in SUBSET (Known \cup {"ONESHOT"})
  BY DEF PortsInv, PortInv, Port, Cell
<1>2. AfdOf(d.pending) \subseteq AfdOf(Known)
  <2> HIDE DEF d
  <2> QED BY <1>1 DEF AfdOf, Known, Closed
<1>3. seen \in SUBSET AfdOf(Known) /\ {} \in SUBSET AfdOf(Known)
  BY <1>2
<1>4. /\ d.iosb = "pending"
      /\ Finish(c, "cancelled", {}) \/ Finish(c, "success", seen) \/ Finish(c, "failed", {})
  BY DEF Complete, CompleteFails
<1> HIDE DEF seen
<1> QED BY <1>3, <1>4, FinishInv

(* closesocket() ends the polls of a socket, which its cells had submitted. *)
LEMMA CloseSocketInv ==
  ASSUME PortsInv, RefInv', NEW s \in Sockets, CloseSocket(s)
  PROVE  PortsInv' /\ (Served(port) => Served(port'))
<1> DEFINE ended == {c \in port.heap : port.cell[c].sock = s /\ port.cell[c].iosb = "pending"}
           cells == SetToSeq(ended)
<1>1. /\ port' = Ended(port, ended, "success", Closed)
      /\ Post(cells) /\ UNCHANGED <<refVars, iocp, held>>
  BY Zenon DEF CloseSocket, Ended
<1>2. port.heap \subseteq Cells
  BY DEF PortsInv, PortInv, Port
<1>3. ended \in SUBSET Cells /\ IsFiniteSet(ended)
  BY <1>2, PortAssumption, FS_Subset
<1>4. \A c \in ended : port.cell[c].iosb = "pending"
  OBVIOUS
<1>5. Closed \in SUBSET AfdOf(Known)
  BY DEF AfdOf
<1> HIDE DEF ended
<1>6. cells \in Seq(ended) /\ IsInjective(cells) /\ ToSet(cells) = ended
  BY <1>3, SetToSeqFacts
<1> HIDE DEF cells
<1>7. cells \in Seq(Cells)
  BY <1>3, <1>6
<1> QED BY <1>1, <1>3, <1>4, <1>5, <1>6, <1>7, PostInv

------------------------------------------------------------------------------
(* Every step keeps the invariant. *)

LEMMA CallerInv ==
  ASSUME PortsInv, RefInv', NEW t \in Threads, Caller(t)
  PROVE  PortsInv'
<1>1. CASE EpollCreate(t)
  BY <1>1, CreateStepInv
<1>2. CASE EpollEnter(t)
  <2>1. UNCHANGED portVars /\ \E call \in {"ctl", "wait"} : Enter(t, call)
    BY <1>2 DEF EpollEnter
  <2> QED BY <2>1, PassInv
<1>3. CASE EpollLeave(t)
  BY <1>3, PassInv DEF EpollLeave
<1>4. CASE Epoll_ctl(t)
  BY <1>4, EpollCtlInv
<1>5. CASE WaitStart(t)
  BY <1>5, WaitStartInv
<1>6. CASE Dequeue(t)
  BY <1>6, DequeueInv
<1>7. CASE DequeueFails(t)
  BY <1>7, DequeueFailsInv
<1>8. CASE WaitEnd(t)
  BY <1>8, WaitEndInv
<1>9. CASE EpollClose(t)
  <2>1. CASE StartClose(t) /\ UNCHANGED portVars
    BY <2>1, PassInv
  <2>2. CASE PortClose(t)
    BY <2>2, PortCloseInv
  <2>3. CASE (Drop(t) \/ Poison(t)) /\ UNCHANGED portVars
    BY <2>3, PassInv
  <2>4. CASE PortDelete(t)
    BY <2>4, PortDeleteInv
  <2> QED BY <1>9, <2>1, <2>2, <2>3, <2>4 DEF EpollClose
<1>10. CASE \E u \in Threads : Meet(t, u) /\ UNCHANGED portVars
  BY <1>10, PassInv
<1> QED BY <1>1, <1>2, <1>3, <1>4, <1>5, <1>6, <1>7, <1>8, <1>9, <1>10 DEF Caller

LEMMA EnvironmentInv ==
  ASSUME PortsInv, RefInv', Environment
  PROVE  PortsInv' /\ (Served(port) => Served(port'))
<1>1. ASSUME NEW s \in Sockets, Change(s)
      PROVE  PortsInv' /\ (Served(port) => Served(port'))
  <2>1. UNCHANGED <<at, object, port, iocp, packets, held>>
    BY <1>1 DEF Change, refVars
  <2>2. Polling' = Polling
    BY <2>1 DEF Polling
  <2>3. PortsInv'
    BY <2>1, <2>2, QuietInv
  <2> QED BY <2>1, <2>3
<1> QED BY <1>1, CompleteInv, CloseSocketInv DEF Environment

LEMMA PortsStepInv ==
  ASSUME PortsInv, [Next]_vars
  PROVE  PortsInv'
<1>1. RefInv'
  BY PortStepRef, RefStepInv DEF PortsInv
<1>2. CASE UNCHANGED vars
  <2>1. UNCHANGED <<at, object, port, iocp, packets, held>>
    BY <1>2 DEF vars, refVars, portVars
  <2>2. Polling' = Polling
    BY <2>1 DEF Polling
  <2> QED BY <1>1, <2>1, <2>2, QuietInv
<1>3. ASSUME NEW t \in Threads, Caller(t)
      PROVE  PortsInv'
  BY <1>1, <1>3, CallerInv
<1>4. CASE Environment
  BY <1>1, <1>4, EnvironmentInv
<1> QED BY <1>2, <1>3, <1>4 DEF Next

THEOREM PortsCorrect == Spec => []PortsInv
<1>1. Init => PortsInv
  BY InitPortsInv
<1>2. PortsInv /\ [Next]_vars => PortsInv'
  BY PortsStepInv
<1> QED BY <1>1, <1>2, PTL DEF Spec

------------------------------------------------------------------------------
(* What follows from the invariant. *)

(* What is allocated is registered or waits in the queue of the deleted, and  *)
(* the two queues of the port have no cell in common, for any number of       *)
(* threads and sockets.                                                       *)
THEOREM SocketsRegistered == Spec => []Registered
<1>1. ASSUME PortsInv PROVE Registered
  <2>1. /\ port \in Port /\ Registry(port) /\ RefTypeOK /\ PacketTypes
        /\ port.active = Cardinality(Polling)
        /\ \A c \in port.heap : PollOK(port, c)
    BY <1>1 DEF PortsInv, PortInv, RefInv
  <2>2. PortTypeOK
    BY <2>1 DEF PortTypeOK, Port, PacketTypes, Polling
  <2>3. ASSUME NEW c \in port.heap
        PROVE  IF port.cell[c].deleted
               THEN /\ c \in ToSet(port.deleted) \ ToSet(port.update)
                    /\ port.cell[c].status # "IDLE" /\ port.tree[port.cell[c].sock] # c
               ELSE c \notin ToSet(port.deleted) /\ port.tree[port.cell[c].sock] = c
    <3>1. Place(port, c) /\ PollOK(port, c) /\ c # NULL
      BY <2>1, PortAssumption DEF Registry, Linked, Port
    <3>2. port.tree[port.cell[c].sock] = c => ~port.cell[c].deleted
      BY <2>1, <3>1 DEF Registry, Linked, Place
    <3> QED BY <3>1, <3>2 DEF Place, PollOK
  <2>4. /\ IsInjective(port.update) /\ IsInjective(port.deleted)
        /\ ToSet(port.update) \subseteq port.heap /\ ToSet(port.deleted) \subseteq port.heap
        /\ \A s \in Sockets : port.tree[s] # NULL => port.tree[s] \in port.heap
    BY <2>1 DEF Registry, Linked
  <2> QED BY <2>2, <2>3, <2>4 DEF Registered
<1> QED BY <1>1, PortsCorrect, PTL

(* What the caller wants to know of a socket is watched for, or will be.      *)
THEOREM WantedIsWatched == Spec => []Watched
<1>1. ASSUME PortsInv PROVE Watched
  BY <1>1 DEF PortsInv, PortInv, PollOK, Watched
<1> QED BY <1>1, PortsCorrect, PTL

(* Poll groups are counted exactly, never over their size, and the full ones  *)
(* come first, for any size of a group.                                       *)
THEOREM GroupsStayPacked == Spec => []GroupsPacked
<1>1. ASSUME PortsInv PROVE GroupsPacked
  <2>1. port \in Port /\ Grouped(port) /\ Counts(port)
    BY <1>1 DEF PortsInv, PortInv
  <2>2. ToSet(port.groups) \subseteq GroupIds
    BY <2>1, CellsFinite DEF Grouped, GroupIds, Port
  <2>3. \A g \in ToSet(port.groups) : /\ port.size[g] = Cardinality(Members(port, g))
                                      /\ port.size[g] \in 0..MaxGroup
    BY <2>1, <2>2 DEF Grouped, Counts
  <2>4. \A j \in DOMAIN port.groups :
          port.groups[j] \in Full(port) <=> port.size[port.groups[j]] = MaxGroup
    BY <2>2 DEF Full, ToSet
  <2> QED BY <2>1, <2>3, <2>4 DEF Grouped, First, GroupsPacked
<1> QED BY <1>1, PortsCorrect, PTL

(* port_delete() frees everything, and its assertions hold.                   *)
THEOREM DeleteIsComplete == Spec => []DeletesAll
<1>1. ASSUME PortsInv PROVE DeletesAll
  <2> SUFFICES ASSUME NEW t \in Threads, at[t] = "delete"
               PROVE  LET last == Emptied(port)
                      IN /\ last.heap = {} /\ last.update = <<>> /\ ~iocp
                         /\ \A g \in DOMAIN last.size : last.size[g] = 0
    BY DEF DeletesAll
  <2>1. ~iocp /\ PortInv(port)
    BY <1>1 DEF PortsInv, Shut, AfterClose
  <2> QED BY <2>1, EmptiedInv
<1> QED BY <1>1, PortsCorrect, PTL

(* epoll_wait() reports a socket only by the registration it has now.         *)
THEOREM OnlyRegisteredReported == Spec => []ReportsOnlyRegistered
<1>1. ASSUME PortsInv PROVE ReportsOnlyRegistered
  <2> SUFFICES ASSUME NEW t \in Threads, NEW c \in Counted(t)
               PROVE  port.tree[port.cell[c].sock] = c
    BY DEF ReportsOnlyRegistered
  <2>1. c \in ToSet(held[t]) /\ ~port.cell[c].deleted
    BY DEF Counted, Reports
  <2>2. c \in Cells
    BY <1>1, <2>1 DEF PortsInv, PacketTypes, ToSet
  <2>3. c \in port.heap
    BY <1>1, <2>1, <2>2, BusyInHeap DEF PortsInv, Answered, Out
  <2> QED BY <1>1, <2>1, <2>3 DEF PortsInv, PortInv, Registry, Linked, Place
<1> QED BY <1>1, PortsCorrect, PTL

(* In a queue without repetitions there is at most one place for x. *)
LEMMA PlaceInQueue ==
  ASSUME NEW q, IsInjective(q), NEW x
  PROVE  LET places == {k \in DOMAIN q : q[k] = x}
         IN IF x \in ToSet(q) THEN \E k : places = {k} ELSE places = {}
BY DEF IsInjective, ToSet

(* Each poll that was submitted ends in one packet, which finds its cell      *)
(* still allocated; there is no packet of any other cell.                     *)
THEOREM EachPollOnePacket == Spec => []OnePacket
<1>1. ASSUME PortsInv PROVE OnePacket
  <2>1. ASSUME NEW t \in Threads, NEW c \in ToSet(held[t]) PROVE c \in port.heap
    <3>1. c \in Cells
      BY <1>1 DEF PortsInv, PacketTypes, ToSet
    <3> QED BY <1>1, <3>1, BusyInHeap DEF PortsInv, Answered, Out
  <2>2. ASSUME NEW c \in Cells
        PROVE  PacketsOf(c) = IF Out(c) THEN 1 ELSE 0
    <3> DEFINE Among(cells) == {k \in DOMAIN cells : cells[k] = c}
               A == Among(packets)
               B == UNION {{<<t, k>> : k \in Among(held[t])} : t \in Threads}
    <3>1. PacketsOf(c) = Cardinality(A) + Cardinality(B)
      BY DEF PacketsOf
    <3>2. IF c \in ToSet(packets) THEN \E k : A = {k} ELSE A = {}
      BY <1>1, PlaceInQueue DEF PortsInv, InFlight
    <3>3. \A t \in Threads : IF c \in ToSet(held[t]) THEN \E k : Among(held[t]) = {k}
                             ELSE Among(held[t]) = {}
      BY <1>1, PlaceInQueue DEF PortsInv, InFlight
    <3>4. \A z : z \in B <=> \E t \in Threads : \E k \in Among(held[t]) : z = <<t, k>>
      OBVIOUS
    <3> HIDE DEF Among, A, B
    <3>5. CASE c \in ToSet(packets)
      <4>1. \A t \in Threads : c \notin ToSet(held[t])
        BY <1>1, <3>5 DEF PortsInv, InFlight
      <4>2. B = {}
        BY <3>3, <3>4, <4>1
      <4>3. Cardinality(A) = 1 /\ Cardinality(B) = 0
        BY <3>2, <3>5, <4>2, FS_Singleton, FS_EmptySet
      <4> QED BY <3>1, <3>5, <4>3 DEF Out
    <3>6. ASSUME NEW t \in Threads, c \in ToSet(held[t])
          PROVE  PacketsOf(c) = 1
      <4>1. c \notin ToSet(packets) /\ \A u \in Threads \ {t} : c \notin ToSet(held[u])
        BY <1>1, <3>6 DEF PortsInv, InFlight
      <4>2. PICK k : Among(held[t]) = {k}
        BY <3>3, <3>6
      <4>3. \A u \in Threads \ {t} : Among(held[u]) = {}
        BY <3>3, <4>1
      <4>4. B = {<<t, k>>}
        <5>1. \A z : z \in B <=> z = <<t, k>>
          BY <3>4, <4>2, <4>3
        <5> QED BY <5>1
      <4>5. Cardinality(A) = 0 /\ Cardinality(B) = 1
        BY <3>2, <4>1, <4>4, FS_Singleton, FS_EmptySet
      <4> QED BY <3>1, <4>5
    <3>7. CASE ~Out(c)
      <4>1. c \notin ToSet(packets) /\ \A t \in Threads : c \notin ToSet(held[t])
        BY <3>7 DEF Out
      <4>2. A = {} /\ B = {}
        BY <3>2, <3>3, <3>4, <4>1
      <4>3. Cardinality(A) = 0 /\ Cardinality(B) = 0
        BY <4>2, FS_EmptySet
      <4> QED BY <3>1, <3>7, <4>3
    <3> QED BY <3>5, <3>6, <3>7 DEF Out
  <2>3. ASSUME iocp, NEW c \in Cells
        PROVE  PacketsOf(c) + (IF port.cell[c].iosb = "pending" THEN 1 ELSE 0)
                 = IF port.cell[c].status = "IDLE" THEN 0 ELSE 1
    <3>1. /\ Out(c) => port.cell[c].status # "IDLE" /\ port.cell[c].iosb # "pending"
          /\ port.cell[c].status # "IDLE" => port.cell[c].iosb = "pending" \/ Out(c)
          /\ port.cell[c].status = "IDLE" => port.cell[c].iosb = "none"
      BY <1>1, <2>3 DEF PortsInv, Answered, PortInv, Idles
    <3> QED BY <2>2, <3>1
  <2> QED BY <2>1, <2>3 DEF OnePacket
<1> QED BY <1>1, PortsCorrect, PTL

(* When the kernel refuses no request, no update is left while a thread waits *)
(* for packets.                                                               *)
THEOREM UpdatesAreServed == "poll" \notin Faults => (Spec => []QueueServed)
<1> SUFFICES ASSUME "poll" \notin Faults PROVE Spec => []QueueServed
  OBVIOUS
<1>1. Refusals = {{}}
  BY DEF Refusals
<1>2. QueueServed <=> Served(port)
  BY DEF QueueServed, Served
<1>3. Init => QueueServed
  BY NewPortInv DEF Init, PortInit, QueueServed
<1>4. ASSUME PortsInv, PortsInv', QueueServed, [Next]_vars
      PROVE  QueueServed'
  <2>1. PortInv(port) /\ Served(port)
    BY <1>2, <1>4 DEF PortsInv
  <2> SUFFICES Served(port')
    BY DEF QueueServed, Served
  <2>2. CASE UNCHANGED port
    BY <2>1, <2>2
  <2>3. ASSUME NEW t \in Threads, Caller(t)
        PROVE  Served(port')
    <3>1. RefInv'
      BY <1>4 DEF PortsInv
    <3>2. CASE Epoll_ctl(t)
      <4>1. CASE CtlAdd(t)
        BY <1>1, <2>1, <4>1, CtlAddPort
      <4>2. CASE CtlMod(t)
        BY <1>1, <2>1, <4>2, CtlModPort
      <4>3. CASE CtlDel(t)
        BY <1>1, <2>1, <4>3, CtlDelPort
      <4>4. CASE CtlAddFails(t) \/ CtlAddAborts(t) \/ CtlFails(t)
        BY <2>2, <4>4 DEF CtlAddFails, CtlAddAborts, CtlFails, portVars
      <4> QED BY <3>2, <4>1, <4>2, <4>3, <4>4 DEF Epoll_ctl
    <3>3. CASE WaitStart(t)
      BY <1>1, <1>4, <3>1, <3>3, WaitStartInv
    <3>4. CASE WaitEnd(t)
      BY <1>1, <1>4, <3>1, <3>4, WaitEndInv
    <3>5. CASE PortDelete(t)
      BY <1>4, <3>1, <3>5, PortDeleteInv
    <3>6. CASE EpollCreate(t) \/ Dequeue(t)
      BY <2>2, <3>6 DEF EpollCreate, Dequeue
    <3>7. CASE \/ EpollEnter(t) \/ EpollLeave(t) \/ DequeueFails(t)
               \/ \E u \in Threads : Meet(t, u) /\ UNCHANGED portVars
      BY <2>2, <3>7 DEF EpollEnter, EpollLeave, DequeueFails, portVars
    <3>8. CASE EpollClose(t)
      BY <2>2, <3>5, <3>8 DEF EpollClose, PortClose, portVars
    <3> QED BY <2>3, <3>2, <3>3, <3>4, <3>6, <3>7, <3>8 DEF Caller
  <2>4. CASE Environment
    BY <1>4, <2>1, <2>4, EnvironmentInv DEF PortsInv
  <2> QED BY <1>4, <2>2, <2>3, <2>4 DEF Next, vars, portVars
<1> QED BY <1>3, <1>4, PortsCorrect, PTL DEF Spec
==============================================================================
