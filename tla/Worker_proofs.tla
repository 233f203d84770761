---------------------------- MODULE Worker_proofs ----------------------------
(***************************************************************************)
(* The worker, for every number of connections, all lengths of requests,   *)
(* responses and buffers, both backends and whatever fails: its pool and   *)
(* batch invariants, those of the batch until an epoll_wait() fails; and,  *)
(* when none does and the server sends nothing that was not asked for,     *)
(* that it implements RequestCycle.                                        *)
(***************************************************************************)
EXTENDS WorkerCycle, FiniteSetTheorems, TLAPS

(* Every socket operation yields a socket, and only close() closes one. *)
LEMMA NewSocketType ==
  ASSUME NEW state \in States
  PROVE  NewSocket(state) \in Socket /\ NewSocket(state).st = state
BY SocketsAssumption DEF NewSocket, Socket

LEMMA DivModType ==
  ASSUME NEW a \in Nat, NEW b \in Nat \ {0}
  PROVE  a % b \in 0..(b - 1) /\ a \div b \in Nat
OBVIOUS

LEMMA AfterSendType ==
  ASSUME NEW s \in Socket, NEW rem \in Int, NEW k \in Int
  PROVE  AfterSend(s, rem, k) \in Socket /\ AfterSend(s, rem, k).st = s.st
<1>1. CASE k > 0
  <2> DEFINE full == k < rem
             got == (s.got + k) % ReqLen
             owed == s.owed + RspLen * ((s.got + k) \div ReqLen)
  <2>1. s.got + k \in Nat /\ s.owed \in Nat
    BY <1>1, SocketsAssumption DEF Socket
  <2>2. got \in 0..(ReqLen - 1) /\ (s.got + k) \div ReqLen \in Nat
    BY <2>1, DivModType, SocketsAssumption
  <2>3. owed \in Nat
    BY <2>1, <2>2, SocketsAssumption
  <2>4. AfterSend(s, rem, k) = [s EXCEPT !.wfull = full, !.got = got, !.owed = owed]
    BY <1>1 DEF AfterSend
  <2>5. full \in BOOLEAN
    OBVIOUS
  <2> HIDE DEF full, got, owed
  <2> QED BY <2>2, <2>3, <2>4, <2>5 DEF Socket
<1>2. CASE ~(k > 0)
  BY <1>2 DEF AfterSend, Socket
<1> QED BY <1>1, <1>2

LEMMA AfterRecvType ==
  ASSUME NEW s \in Socket
  PROVE  AfterRecv(s) \in Socket /\ AfterRecv(s).st = s.st
<1>1. s.rx > 0 => s.rx - RecvResult(s) \in 0..RcvBuf
  BY SocketsAssumption DEF RecvResult, Socket
<1>2. CASE s.rx > 0
  BY <1>1, <1>2 DEF AfterRecv, Socket
<1>3. CASE ~(s.rx > 0)
  BY <1>3 DEF AfterRecv, Socket
<1> QED BY <1>2, <1>3

LEMMA ShutdownType ==
  ASSUME NEW s \in Socket
  PROVE  Shutdown(s) \in Socket /\ Shutdown(s).st = s.st
BY DEF Shutdown, Socket

(* The counters stay within their width. *)
LEMMA CountType ==
  ASSUME NEW names, stats \in [Counters -> 0..CounterMax], Count(names)
  PROVE  stats' \in [Counters -> 0..CounterMax]
<1>1. ASSUME NEW s \in Counters
      PROVE  (stats[s] + 1) % (CounterMax + 1) \in 0..CounterMax
  <2>1. stats[s] + 1 \in Nat /\ CounterMax + 1 \in Nat \ {0} /\ (CounterMax + 1) - 1 = CounterMax
    BY RunLoopAssumption
  <2> QED BY <2>1, DivModType
<1> QED BY <1>1 DEF Count

(* Serving an event moves on to the next one.  As long as no epoll_wait() has *)
(* failed, the slot is in use, the descriptor is that of its own socket, and  *)
(* no later event of the batch is about the same slot.                        *)
LEMMA NextEventInv ==
  ASSUME IInv, NEW c, NEW fd, NEW flags, Serving(c, fd, flags), NextEvent
  PROVE  /\ c \in Infos
         /\ pc' \in {"create", "batch"} /\ i' \in 0..MaxCreate /\ n' \in 0..SizeMax
         /\ events' \in Seq(Events) /\ filled' \in Seq(Events)
         /\ LoopControl'
         /\ Intact' <=> Intact
         /\ Intact => /\ c \in Used /\ fd = c
                      /\ \A j, k \in DOMAIN events' : events'[j].info = events'[k].info => j = k
                      /\ \A k \in DOMAIN events' : events'[k].info \in Used \ {c}
<1>1. /\ pc = "batch" /\ events # <<>> /\ events \in Seq(Events)
      /\ c = events[1].info /\ n >= Len(events) /\ n \in 0..SizeMax
      /\ events' = Tail(events) /\ n' = n - 1 /\ i' = 0
      /\ pc' = IF n = 1 THEN "create" ELSE "batch"
      /\ filled' = filled /\ filled \in Seq(Events)
  BY DEF IInv, TypeOK, LoopControl, Serving, NextEvent
<1>2. /\ Len(events) \in Nat \ {0} /\ DOMAIN events = 1..Len(events)
      /\ events' \in Seq(Events) /\ Len(events') = Len(events) - 1
      /\ DOMAIN events' = 1..(Len(events) - 1)
      /\ \A k \in DOMAIN events' : events'[k] = events[k + 1] /\ k + 1 \in DOMAIN events
  BY <1>1
<1>3. c \in Infos
  <2>1. events[1] \in Events
    BY <1>1, <1>2
  <2> QED BY <1>1, <2>1 DEF Events
<1>4. n' \in 0..SizeMax /\ i' \in 0..MaxCreate /\ pc' \in {"create", "batch"}
  BY <1>1, <1>2, RunLoopAssumption
<1>5. Intact' <=> Intact
  <2>1. CASE n = Len(events)
    <3>1. n' = Len(events')
      BY <1>1, <1>2, <2>1
    <3> QED BY <1>1, <1>4, <2>1, <3>1 DEF Intact
  <2>2. CASE n # Len(events)
    <3>1. n' # Len(events') /\ n # 1
      <4>1. n \in Nat /\ n >= Len(events) /\ Len(events) \in Nat \ {0}
        BY <1>1, <1>2, RunLoopAssumption
      <4>2. \A x \in Nat, y \in Nat \ {0} : x >= y /\ x # y => x - 1 # y - 1 /\ x # 1
        OBVIOUS
      <4>3. n - 1 # Len(events) - 1 /\ n # 1
        BY <2>2, <4>1, <4>2
      <4> QED BY <1>1, <1>2, <4>3
    <3>2. pc' = "batch" /\ ~Intact'
      BY <1>1, <3>1 DEF Intact
    <3>3. ~Intact
      BY <1>1, <2>2 DEF Intact
    <3> QED BY <3>2, <3>3
  <2> QED BY <2>1, <2>2
<1>6. LoopControl'
  <2>1. pc' = "create" => events' = <<>>
    BY <1>1, <1>2
  <2>2. pc' = "batch" => n' > 0 /\ n' >= Len(events')
    BY <1>1, <1>2
  <2>3. (~Intact)' => "wait" \in Faults
    BY <1>1, <1>5 DEF IInv, LoopControl
  <2>4. Len(filled') <= concurrent_connections
    BY <1>1 DEF IInv, LoopControl
  <2> QED BY <1>4, <2>1, <2>2, <2>3, <2>4 DEF LoopControl, concurrent_connections
<1>7. ASSUME Intact
      PROVE  /\ c \in Used /\ fd = c
             /\ \A j, k \in DOMAIN events' : events'[j].info = events'[k].info => j = k
             /\ \A k \in DOMAIN events' : events'[k].info \in Used \ {c}
  <2>1. /\ \A k \in DOMAIN events : events[k].info \in Used
        /\ \A j, k \in DOMAIN events : events[j].info = events[k].info => j = k
    BY <1>7 DEF IInv, EventsFresh
  <2>2. c \in Used
    BY <1>1, <1>2, <2>1
  <2>3. fd = c
    BY <2>2 DEF Serving, Descriptors, Used
  <2>4. \A k \in DOMAIN events' : events'[k].info \in Used \ {c}
    BY <1>1, <1>2, <2>1
  <2>5. \A j, k \in DOMAIN events' : events'[j].info = events'[k].info => j = k
    BY <1>2, <2>1
  <2> QED BY <2>2, <2>3, <2>4, <2>5
<1> QED BY <1>1, <1>2, <1>3, <1>4, <1>5, <1>6, <1>7

(* run->concurrency counts a set of slots, which is finite. *)
LEMMA RegisteredType ==
  /\ IsFiniteSet(Registered) /\ Cardinality(Registered) \in 0..concurrent_connections
  /\ IsFiniteSet(Registered)' /\ Cardinality(Registered)' \in 0..concurrent_connections
<1>1. ASSUME NEW S \in SUBSET Infos
      PROVE  IsFiniteSet(S) /\ Cardinality(S) \in 0..concurrent_connections
  <2>1. IsFiniteSet(S) /\ Cardinality(S) <= Cardinality(Infos)
    BY SocketsAssumption, FS_Subset
  <2> QED BY <2>1, SocketsAssumption, FS_CardinalityType DEF concurrent_connections
<1>2. Registered \in SUBSET Infos /\ Registered' \in SUBSET Infos
  BY DEF Registered
<1> QED BY <1>1, <1>2

(* A close takes one connection out of all the records. *)
LEMMA CloseSlotInv ==
  ASSUME IInv, pc # "exit", NEW c \in Infos, NEW fd \in Infos, NEW names,
         interest[fd] # {}, CloseSlot(c, fd, names),
         Intact' => (Intact /\ c \in Used /\ fd = c)
  PROVE  /\ sock' \in [Infos -> Socket]
         /\ interest' \in [Infos -> SUBSET {"IN", "OUT"}]
         /\ freed' \subseteq Infos
         /\ stats' \in [Counters -> 0..CounterMax]
         /\ concurrency' \in 0..concurrent_connections
         /\ PoolConsistent'
         /\ Used' = Used \ {c}
<1>1. Used' = Used \ {c} /\ freed' \subseteq Infos
  BY DEF CloseSlot, Used, IInv, TypeOK
<1>2. /\ interest' \in [Infos -> SUBSET {"IN", "OUT"}]
      /\ Registered' = Registered \ {fd} /\ fd \in Registered
  BY DEF CloseSlot, Registered, IInv, TypeOK
<1>3. concurrency' = Cardinality(Registered')
  <2>1. Cardinality(Registered \ {fd}) = Cardinality(Registered) - 1
    BY <1>2, RegisteredType, FS_RemoveElement
  <2> QED BY <1>2, <2>1 DEF IInv, PoolConsistent, CloseSlot
<1>4. /\ sock' \in [Infos -> Socket]
      /\ \A d \in Infos : sock'[d].st # "closed" <=> (sock[d].st # "closed" /\ d # fd)
  BY NewSocketType DEF CloseSlot, IInv, TypeOK, States
<1>5. stats' \in [Counters -> 0..CounterMax]
  BY CountType DEF CloseSlot, IInv, TypeOK
<1>6. PoolConsistent'
  <2>1. \A d \in Infos : d \in Registered' <=> sock'[d].st # "closed"
    BY <1>2, <1>4 DEF IInv, PoolConsistent
  <2>2. Intact' => Used' = Registered'
    BY <1>1, <1>2 DEF IInv, PoolConsistent
  <2> QED BY <1>3, <2>1, <2>2 DEF PoolConsistent
<1>7. concurrency' \in 0..concurrent_connections
  BY <1>3, RegisteredType
<1> QED BY <1>1, <1>2, <1>4, <1>5, <1>6, <1>7

(* Steps that neither open nor close anything. *)
LEMMA SamePool ==
  ASSUME IInv, pc # "exit", UNCHANGED <<freed, concurrency>>, Intact' => Intact,
         \A d \in Infos : interest'[d] # {} <=> interest[d] # {},
         \A d \in Infos : sock'[d].st # "closed" <=> sock[d].st # "closed"
  PROVE  PoolConsistent' /\ Used' = Used
<1>1. Registered' = Registered /\ Used' = Used
  BY DEF Registered, Used
<1> QED BY <1>1 DEF IInv, PoolConsistent

(* What is left to show of an action that serves an event. *)
LEMMA EventStep ==
  ASSUME IInv, NEW c, NEW fd, NEW flags, Serving(c, fd, flags), NextEvent,
         sock' \in [Infos -> Socket],
         interest' \in [Infos -> SUBSET {"IN", "OUT"}],
         freed' \subseteq Infos,
         concurrency' \in 0..concurrent_connections,
         stats' \in [Counters -> 0..CounterMax],
         request_sent' \in [Infos -> 0..ReqLen],
         is_connected' \in [Infos -> BOOLEAN],
         seen' \in [Infos -> 0..RspLen],
         PoolConsistent',
         Used \ {c} \subseteq Used'
  PROVE  IInv'
<1>1. /\ pc' \in {"create", "batch"} /\ i' \in 0..MaxCreate /\ n' \in 0..SizeMax
      /\ events' \in Seq(Events) /\ filled' \in Seq(Events)
      /\ LoopControl'
      /\ Intact' => /\ \A j, k \in DOMAIN events' : events'[j].info = events'[k].info => j = k
                    /\ \A k \in DOMAIN events' : events'[k].info \in Used \ {c}
  BY NextEventInv
<1>2. TypeOK'
  BY <1>1 DEF TypeOK, Places, concurrent_connections
<1>3. EventsFresh'
  BY <1>1 DEF EventsFresh
<1> QED BY <1>1, <1>2, <1>3 DEF IInv

(* What send() returns, and what the request has come to afterwards. *)
LEMMA SendType ==
  ASSUME NEW s, NEW rem \in Nat, NEW k \in SendResults(s, rem), NEW units \in Nat
  PROVE  k \in Int /\ Sent(units, k) \in units..(units + rem)
BY DEF SendResults, Sent

(* What epoll_ctl(MOD) leaves registered. *)
LEMMA ModifiedType ==
  ASSUME IInv, NEW fd \in Infos, NEW mask \in SUBSET {"IN", "OUT"}, mask # {}
  PROVE  /\ Modified(fd, mask) \in SUBSET {"IN", "OUT"}
         /\ Modified(fd, mask) # {} <=> interest[fd] # {}
BY DEF Modified

LEMMA ServeOutInv ==
  ASSUME IInv, NEW c, NEW fd \in Infos, NEW flags, ServeOut(c, fd, flags)
  PROVE  IInv'
<1>1. Serving(c, fd, flags) /\ NextEvent /\ pc # "exit"
  BY DEF ServeOut, Serving
<1>0. c \in Infos /\ (Intact' <=> Intact)
  BY <1>1, NextEventInv
<1> DEFINE rem == ReqLen - request_sent[c]
<1>2. /\ sock[fd] \in Socket /\ rem \in Nat /\ request_sent[c] \in Nat
      /\ request_sent[c] + rem = ReqLen
  BY <1>0, SocketsAssumption DEF IInv, TypeOK
<1>3. PICK k \in SendResults(sock[fd], rem) :
        LET units == Sent(request_sent[c], k)
            after == AfterSend(sock[fd], rem, k)
        IN /\ request_sent' = [request_sent EXCEPT ![c] = units]
           /\ sock' = [sock EXCEPT ![fd] =
                         IF IsSent(units) /\ IsShutdown THEN Shutdown(after) ELSE after]
           /\ interest' = [interest EXCEPT ![fd] = InterestAfterOut(fd, units)]
           /\ Count(SentCount(units) \cup IF is_connected[c] THEN {} ELSE {"succeeded"})
  BY DEF ServeOut
<1> DEFINE units == Sent(request_sent[c], k)
           after == AfterSend(sock[fd], rem, k)
           new   == IF IsSent(units) /\ IsShutdown THEN Shutdown(after) ELSE after
<1>4. k \in Int /\ units \in 0..ReqLen
  BY <1>2, SendType
<1>5. new \in Socket /\ new.st = sock[fd].st
  BY <1>2, <1>4, AfterSendType, ShutdownType
<1>6. sock' = [sock EXCEPT ![fd] = new] /\ request_sent' = [request_sent EXCEPT ![c] = units]
  BY <1>3
<1>7. interest' = [interest EXCEPT ![fd] = InterestAfterOut(fd, units)]
  BY <1>3
<1>8. stats' \in [Counters -> 0..CounterMax]
  BY <1>3, CountType DEF IInv, TypeOK
<1> HIDE DEF units, after, new, rem
<1>9. /\ InterestAfterOut(fd, units) \in SUBSET {"IN", "OUT"}
      /\ InterestAfterOut(fd, units) # {} <=> interest[fd] # {}
  BY ModifiedType DEF InterestAfterOut, IInv, TypeOK
<1>10. /\ interest' \in [Infos -> SUBSET {"IN", "OUT"}]
       /\ \A d \in Infos : interest'[d] # {} <=> interest[d] # {}
  BY <1>7, <1>9 DEF IInv, TypeOK
<1>11. /\ sock' \in [Infos -> Socket]
       /\ \A d \in Infos : sock'[d].st # "closed" <=> sock[d].st # "closed"
  BY <1>5, <1>6 DEF IInv, TypeOK
<1>12. UNCHANGED <<concurrency, freed, seen>> /\ is_connected' = [is_connected EXCEPT ![c] = TRUE]
  BY DEF ServeOut
<1>13. PoolConsistent' /\ Used' = Used
  BY <1>0, <1>1, <1>10, <1>11, <1>12, SamePool
<1>14. /\ request_sent' \in [Infos -> 0..ReqLen] /\ is_connected' \in [Infos -> BOOLEAN]
       /\ seen' \in [Infos -> 0..RspLen] /\ freed' \subseteq Infos
       /\ concurrency' \in 0..concurrent_connections
  BY <1>0, <1>4, <1>6, <1>12 DEF IInv, TypeOK
<1> QED BY <1>1, <1>8, <1>10, <1>11, <1>13, <1>14, EventStep

LEMMA RecvAndResendInv ==
  ASSUME IInv, NEW c, NEW fd \in Infos, NEW flags, RecvAndResend(c, fd, flags)
  PROVE  IInv'
<1>1. Serving(c, fd, flags) /\ NextEvent /\ pc # "exit"
  BY DEF RecvAndResend, ResponseComplete, Receiving, Serving
<1>0. c \in Infos /\ (Intact' <=> Intact)
  BY <1>1, NextEventInv
<1> DEFINE drained == AfterRecv(sock[fd])
           left    == ReqLen - SendInit(c)
<1>2. /\ drained \in Socket /\ drained.st = sock[fd].st
      /\ left \in Nat /\ SendInit(c) \in Nat /\ SendInit(c) + left = ReqLen
  BY SocketsAssumption, AfterRecvType DEF IInv, TypeOK, SendInit
<1>3. PICK k \in SendResults(drained, left) :
        LET units == Sent(SendInit(c), k)
        IN /\ request_sent' = [request_sent EXCEPT ![c] = units]
           /\ sock' = [sock EXCEPT ![fd] = AfterSend(drained, left, k)]
           /\ seen' = [seen EXCEPT ![c] = SeenAfterResend(units)]
           /\ interest' = [interest EXCEPT ![fd] = InterestAfterResend(fd, units)]
           /\ Count({"recved"} \cup SentCount(units))
  BY DEF RecvAndResend
<1> DEFINE units == Sent(SendInit(c), k)
           new   == AfterSend(drained, left, k)
<1>4. k \in Int /\ units \in 0..ReqLen
  BY <1>2, SendType
<1>5. new \in Socket /\ new.st = sock[fd].st
  BY <1>2, <1>4, AfterSendType
<1>6. /\ sock' = [sock EXCEPT ![fd] = new] /\ request_sent' = [request_sent EXCEPT ![c] = units]
      /\ seen' = [seen EXCEPT ![c] = SeenAfterResend(units)]
  BY <1>3
<1>7. interest' = [interest EXCEPT ![fd] = InterestAfterResend(fd, units)]
  BY <1>3
<1>8. stats' \in [Counters -> 0..CounterMax]
  BY <1>3, CountType DEF IInv, TypeOK
<1>9. SeenAfterResend(units) \in 0..RspLen
  BY SocketsAssumption DEF SeenAfterResend
<1> HIDE DEF units, new, drained, left
<1>10. /\ InterestAfterResend(fd, units) \in SUBSET {"IN", "OUT"}
       /\ InterestAfterResend(fd, units) # {} <=> interest[fd] # {}
  BY ModifiedType DEF InterestAfterResend, IInv, TypeOK
<1>11. /\ interest' \in [Infos -> SUBSET {"IN", "OUT"}]
       /\ \A d \in Infos : interest'[d] # {} <=> interest[d] # {}
  BY <1>7, <1>10 DEF IInv, TypeOK
<1>12. /\ sock' \in [Infos -> Socket]
       /\ \A d \in Infos : sock'[d].st # "closed" <=> sock[d].st # "closed"
  BY <1>5, <1>6 DEF IInv, TypeOK
<1>13. UNCHANGED <<concurrency, freed, is_connected>>
  BY DEF RecvAndResend
<1>14. PoolConsistent' /\ Used' = Used
  BY <1>0, <1>1, <1>11, <1>12, <1>13, SamePool
<1>15. /\ request_sent' \in [Infos -> 0..ReqLen] /\ is_connected' \in [Infos -> BOOLEAN]
       /\ seen' \in [Infos -> 0..RspLen] /\ freed' \subseteq Infos
       /\ concurrency' \in 0..concurrent_connections
  BY <1>4, <1>6, <1>9, <1>13 DEF IInv, TypeOK
<1> QED BY <1>1, <1>8, <1>11, <1>12, <1>14, <1>15, EventStep

(* An action that serves an event and closes its connection. *)
LEMMA ClosingInv ==
  ASSUME IInv, NEW c, NEW fd \in Infos, NEW flags, NEW names,
         Serving(c, fd, flags), interest[fd] # {}, CloseSlot(c, fd, names), NextEvent,
         request_sent' \in [Infos -> 0..ReqLen],
         is_connected' \in [Infos -> BOOLEAN],
         seen' \in [Infos -> 0..RspLen]
  PROVE  IInv'
<1>1. /\ pc # "exit" /\ c \in Infos
      /\ Intact' => (Intact /\ c \in Used /\ fd = c)
  BY NextEventInv DEF Serving
<1>2. /\ sock' \in [Infos -> Socket] /\ interest' \in [Infos -> SUBSET {"IN", "OUT"}]
      /\ freed' \subseteq Infos /\ stats' \in [Counters -> 0..CounterMax]
      /\ concurrency' \in 0..concurrent_connections
      /\ PoolConsistent' /\ Used \ {c} \subseteq Used'
  BY <1>1, CloseSlotInv
<1> QED BY <1>2, EventStep

LEMMA RecvEndInv ==
  ASSUME IInv, NEW c, NEW fd \in Infos, NEW flags, RecvEnd(c, fd, flags)
  PROVE  IInv'
<1> DEFINE names == {IF "HUP" \in flags THEN "hangup" ELSE "read"}
<1>1. Serving(c, fd, flags) /\ interest[fd] # {} /\ CloseSlot(c, fd, names) /\ NextEvent /\ UNCHANGED infoVars
  BY DEF RecvEnd, Receiving
<1>2. /\ request_sent' \in [Infos -> 0..ReqLen] /\ is_connected' \in [Infos -> BOOLEAN]
      /\ seen' \in [Infos -> 0..RspLen]
  BY <1>1 DEF infoVars, IInv, TypeOK
<1> QED BY <1>1, <1>2, ClosingInv

LEMMA ServeHangupInv ==
  ASSUME IInv, NEW c, NEW fd \in Infos, NEW flags, ServeHangup(c, fd, flags)
  PROVE  IInv'
<1>1. Serving(c, fd, flags) /\ interest[fd] # {} /\ CloseSlot(c, fd, {"hangup"}) /\ NextEvent /\ UNCHANGED infoVars
  BY DEF ServeHangup
<1>2. /\ request_sent' \in [Infos -> 0..ReqLen] /\ is_connected' \in [Infos -> BOOLEAN]
      /\ seen' \in [Infos -> 0..RspLen]
  BY <1>1 DEF infoVars, IInv, TypeOK
<1> QED BY <1>1, <1>2, ClosingInv

LEMMA RecvPipelinedInv ==
  ASSUME IInv, NEW c, NEW fd \in Infos, NEW flags, RecvPipelined(c, fd, flags)
  PROVE  IInv'
<1>1. /\ Serving(c, fd, flags) /\ interest[fd] # {} /\ CloseSlot(c, fd, {"hangup2"}) /\ NextEvent
      /\ seen' = [seen EXCEPT ![c] = RspLen] /\ UNCHANGED <<request_sent, is_connected>>
  BY DEF RecvPipelined, Receiving
<1>2. /\ request_sent' \in [Infos -> 0..ReqLen] /\ is_connected' \in [Infos -> BOOLEAN]
      /\ seen' \in [Infos -> 0..RspLen]
  BY <1>1, NextEventInv, SocketsAssumption DEF IInv, TypeOK
<1> QED BY <1>1, <1>2, ClosingInv

LEMMA RecvLastInv ==
  ASSUME IInv, NEW c, NEW fd \in Infos, NEW flags, RecvLast(c, fd, flags)
  PROVE  IInv'
<1>1. /\ Serving(c, fd, flags) /\ interest[fd] # {} /\ CloseSlot(c, fd, {"recved", "hangup"}) /\ NextEvent
      /\ seen' = [seen EXCEPT ![c] = RspLen] /\ UNCHANGED <<request_sent, is_connected>>
  BY DEF RecvLast, ResponseComplete, Receiving
<1>2. /\ request_sent' \in [Infos -> 0..ReqLen] /\ is_connected' \in [Infos -> BOOLEAN]
      /\ seen' \in [Infos -> 0..RspLen]
  BY <1>1, NextEventInv, SocketsAssumption DEF IInv, TypeOK
<1> QED BY <1>1, <1>2, ClosingInv

LEMMA RecvPartInv ==
  ASSUME IInv, NEW c, NEW fd \in Infos, NEW flags, RecvPart(c, fd, flags)
  PROVE  IInv'
<1> DEFINE bytes == RecvResult(sock[fd])
<1>1. /\ Serving(c, fd, flags) /\ interest[fd] # {} /\ NextEvent
      /\ bytes > 0 /\ seen[c] + bytes < RspLen
      /\ seen' = [seen EXCEPT ![c] = @ + bytes]
      /\ UNCHANGED <<request_sent, is_connected>>
  BY DEF RecvPart, Receiving
<1>2. bytes \in Int /\ sock[fd] \in Socket /\ c \in Infos /\ (Intact' <=> Intact)
  <2>1. sock[fd] \in Socket
    BY DEF IInv, TypeOK
  <2>2. bytes \in Int
    BY <2>1, SocketsAssumption DEF RecvResult, Socket
  <2>3. c \in Infos /\ (Intact' <=> Intact)
    BY <1>1, NextEventInv
  <2> QED BY <2>1, <2>2, <2>3
<1>3. /\ request_sent' \in [Infos -> 0..ReqLen] /\ is_connected' \in [Infos -> BOOLEAN]
      /\ seen' \in [Infos -> 0..RspLen]
  <2> HIDE DEF bytes
  <2> QED BY <1>1, <1>2, SocketsAssumption DEF IInv, TypeOK
<1>4. CASE "HUP" \in flags
  <2>1. CloseSlot(c, fd, {"unknown"})
    BY <1>4 DEF RecvPart
  <2> QED BY <1>1, <1>3, <2>1, ClosingInv
<1>5. CASE "HUP" \notin flags
  <2>1. sock' = [sock EXCEPT ![fd] = AfterRecv(sock[fd])] /\ UNCHANGED <<interest, runVars>>
    BY <1>5 DEF RecvPart
  <2>2. AfterRecv(sock[fd]) \in Socket /\ AfterRecv(sock[fd]).st = sock[fd].st
    BY <1>2, AfterRecvType
  <2>3. /\ sock' \in [Infos -> Socket]
        /\ \A d \in Infos : sock'[d].st # "closed" <=> sock[d].st # "closed"
    BY <2>1, <2>2 DEF IInv, TypeOK
  <2>4. /\ interest' \in [Infos -> SUBSET {"IN", "OUT"}] /\ freed' \subseteq Infos
        /\ stats' \in [Counters -> 0..CounterMax]
        /\ concurrency' \in 0..concurrent_connections
    BY <2>1 DEF runVars, IInv, TypeOK
  <2>5. PoolConsistent' /\ Used' = Used
    <3>1. pc # "exit"
      BY <1>1 DEF Serving
    <3> QED BY <1>2, <2>1, <2>3, <3>1, SamePool DEF runVars
  <2> QED BY <1>1, <1>3, <2>3, <2>4, <2>5, EventStep
<1> QED BY <1>4, <1>5

(* The two ways an error ends the program. *)
LEMMA ExitInv ==
  ASSUME IInv, NEW c, NEW fd \in Infos, NEW flags, Serving(c, fd, flags), ExitOnError(fd),
         sock' \in [Infos -> Socket]
  PROVE  IInv'
<1>1. /\ pc' = "exit" /\ UNCHANGED <<i, n, events, filled, concurrency, freed, infoVars>>
      /\ interest' = [interest EXCEPT ![fd] = {}]
  BY DEF ExitOnError, batchVars
<1>2. stats' \in [Counters -> 0..CounterMax]
  BY CountType DEF ExitOnError, IInv, TypeOK
<1>3. TypeOK'
  BY <1>1, <1>2 DEF IInv, TypeOK, infoVars, Places, Ended, concurrent_connections
<1>4. LoopControl' /\ PoolConsistent' /\ EventsFresh'
  BY <1>1 DEF LoopControl, PoolConsistent, EventsFresh, Intact, IInv, concurrent_connections
<1> QED BY <1>3, <1>4 DEF IInv

(* Steps that change no connection, and leave the batch as it is or empty. *)
LEMMA ControlInv ==
  ASSUME IInv, pc # "exit", UNCHANGED <<sockVars, runVars, infoVars>>,
         pc' \in Places, i' \in 0..MaxCreate, n' \in 0..SizeMax,
         events' \in Seq(Events), filled' \in Seq(Events), LoopControl', EventsFresh',
         Intact' => Intact
  PROVE  IInv'
<1>1. TypeOK'
  BY DEF IInv, TypeOK, sockVars, runVars, infoVars, concurrent_connections
<1>2. PoolConsistent'
  BY DEF IInv, PoolConsistent, Registered, Used, sockVars, runVars
<1> QED BY <1>1, <1>2 DEF IInv

LEMMA ServeClosedInv ==
  ASSUME IInv, NEW c, NEW fd, NEW flags, ServeClosed(c, fd, flags)
  PROVE  IInv'
<1>1. /\ pc = "batch" /\ pc' = "exit" /\ UNCHANGED <<i, n, events, filled>>
      /\ UNCHANGED <<sockVars, runVars, infoVars>>
  BY DEF ServeClosed, Serving, batchVars
<1>2. LoopControl' /\ EventsFresh' /\ ~Intact'
  BY <1>1 DEF LoopControl, EventsFresh, Intact, IInv, concurrent_connections
<1> QED BY <1>1, <1>2, ControlInv DEF Places, Ended, IInv, TypeOK

LEMMA ServeEventInv ==
  ASSUME IInv, ServeEvent
  PROVE  IInv'
<1>1. PICK c, fd \in Infos, flags \in {Head(events).flags} :
        \/ ServeOut(c, fd, flags) \/ ServeError(c, fd, flags) \/ RecvFails(c, fd, flags)
        \/ RecvEnd(c, fd, flags) \/ RecvPipelined(c, fd, flags) \/ RecvPart(c, fd, flags)
        \/ RecvLast(c, fd, flags) \/ RecvAndResend(c, fd, flags) \/ ServeHangup(c, fd, flags)
        \/ ServeClosed(c, fd, flags)
  BY DEF ServeEvent
<1>2. CASE ServeError(c, fd, flags)
  <2>1. Serving(c, fd, flags) /\ ExitOnError(fd) /\ sock' \in [Infos -> Socket]
    BY <1>2 DEF ServeError, IInv, TypeOK
  <2> QED BY <2>1, ExitInv
<1>3. CASE RecvFails(c, fd, flags)
  <2>1. Serving(c, fd, flags) /\ ExitOnError(fd)
    BY <1>3 DEF RecvFails, Receiving
  <2>2. sock[fd] \in Socket /\ sock' = [sock EXCEPT ![fd] = AfterRecv(sock[fd])]
    BY <1>3 DEF RecvFails, IInv, TypeOK
  <2>3. sock' \in [Infos -> Socket]
    BY <2>2, AfterRecvType DEF IInv, TypeOK
  <2> QED BY <2>1, <2>3, ExitInv
<1> QED BY <1>1, <1>2, <1>3, ServeOutInv, RecvEndInv, RecvPipelinedInv, RecvPartInv,
           RecvLastInv, RecvAndResendInv, ServeHangupInv, ServeClosedInv

(* A connection is added to all the records at once. *)
LEMMA OpenSlotInv ==
  ASSUME IInv, pc = "create", NEW c \in freed, OpenSlot(c),
         concurrency < concurrent_connections,
         pc' = "create", i' \in 0..MaxCreate, UNCHANGED <<n, events, filled>>
  PROVE  IInv'
<1>1. c \in Infos /\ c \notin Used /\ Used' = Used \cup {c} /\ freed' \subseteq Infos
  BY DEF OpenSlot, Used, IInv, TypeOK
<1>2. Intact /\ Used = Registered /\ Registered' = Registered \cup {c}
  <2>1. Intact /\ Used = Registered
    BY DEF Intact, IInv, PoolConsistent
  <2> QED BY <1>1, <2>1 DEF OpenSlot, Registered, IInv, TypeOK
<1>3. concurrency' = Cardinality(Registered') /\ concurrency' \in 0..concurrent_connections'
  <2>1. Cardinality(Registered \cup {c}) = Cardinality(Registered) + 1
    BY <1>1, <1>2, RegisteredType, FS_AddElement
  <2>2. concurrency = Cardinality(Registered) /\ concurrency' = concurrency + 1
    BY DEF IInv, PoolConsistent, OpenSlot
  <2> QED BY <1>2, <2>1, <2>2, RegisteredType DEF concurrent_connections
<1>4. /\ sock' \in [Infos -> Socket]
      /\ \A d \in Infos : sock'[d].st # "closed" <=> (sock[d].st # "closed" \/ d = c)
  BY <1>1, NewSocketType DEF OpenSlot, IInv, TypeOK, States
<1>5. /\ interest' \in [Infos -> SUBSET {"IN", "OUT"}]
      /\ \A d \in Infos : interest'[d] # {} <=> (interest[d] # {} \/ d = c)
  BY <1>1 DEF OpenSlot, IInv, TypeOK
<1>6. stats' \in [Counters -> 0..CounterMax]
  BY CountType DEF OpenSlot, IInv, TypeOK
<1>7. /\ request_sent' \in [Infos -> 0..ReqLen] /\ is_connected' \in [Infos -> BOOLEAN]
      /\ seen' \in [Infos -> 0..RspLen]
  BY <1>1, SocketsAssumption DEF OpenSlot, IInv, TypeOK
<1>8. TypeOK'
  BY <1>1, <1>3, <1>4, <1>5, <1>6, <1>7 DEF IInv, TypeOK, Places
<1>9. PoolConsistent'
  <2>1. \A d \in Infos : d \in Registered' <=> sock'[d].st # "closed"
    BY <1>2, <1>4 DEF IInv, PoolConsistent
  <2> QED BY <1>1, <1>2, <1>3, <2>1 DEF PoolConsistent
<1>10. LoopControl' /\ EventsFresh'
  BY <1>1 DEF LoopControl, EventsFresh, Intact, IInv, concurrent_connections
<1> QED BY <1>8, <1>9, <1>10 DEF IInv

LEMMA CreateConnectionInv ==
  ASSUME IInv, CreateConnection
  PROVE  IInv'
<1>1. /\ pc = "create" /\ i \in 0..MaxCreate /\ i < MaxCreate
      /\ concurrency < concurrent_connections /\ UNCHANGED <<n, events, filled>>
  BY DEF CreateConnection, Creating, batchVars, IInv, TypeOK
<1>2. CASE freed = {}
  <2>1. pc' = "exit" /\ UNCHANGED <<sockVars, i, runVars, infoVars>>
    BY <1>2 DEF CreateConnection
  <2>2. LoopControl' /\ EventsFresh' /\ ~Intact'
    BY <1>1, <2>1 DEF LoopControl, EventsFresh, Intact, IInv, concurrent_connections
  <2> QED BY <1>1, <2>1, <2>2, ControlInv DEF Places, Ended, IInv, TypeOK
<1>3. CASE freed # {}
  <2>1. PICK c \in freed : OpenSlot(c)
    BY <1>3 DEF CreateConnection
  <2>2. i' = i + 1 /\ pc' = pc
    BY <1>3 DEF CreateConnection
  <2>3. i' \in 0..MaxCreate /\ pc' = "create"
    BY <1>1, <2>2, RunLoopAssumption
  <2> QED BY <1>1, <2>1, <2>3, OpenSlotInv
<1> QED BY <1>2, <1>3

(* What is filled in fits the array. *)
LEMMA FilledType ==
  ASSUME IInv, NEW batch \in Seq(Events), Len(batch) <= concurrent_connections
  PROVE  Filled(batch) \in Seq(Events) /\ Len(Filled(batch)) <= concurrent_connections
<1>1. Cardinality(Infos) \in Nat
  BY SocketsAssumption, FS_CardinalityType
<1>2. CASE "wait" \notin Faults
  <2>1. Filled(batch) = <<>>
    BY <1>2 DEF Filled
  <2> QED BY <1>1, <2>1 DEF concurrent_connections
<1>3. CASE "wait" \in Faults
  <2> DEFINE back == SubSeq(filled, Len(batch) + 1, Len(filled))
  <2>1. filled \in Seq(Events) /\ Len(filled) \in Nat /\ Len(batch) \in Nat
    BY DEF IInv, TypeOK
  <2>2. Len(filled) <= concurrent_connections
    BY DEF IInv, LoopControl
  <2>3. /\ back \in Seq(Events)
        /\ Len(back) = IF Len(batch) + 1 <= Len(filled) THEN Len(filled) - Len(batch) ELSE 0
    BY <2>1
  <2>4. Filled(batch) = batch \o back
    BY <1>3 DEF Filled
  <2> HIDE DEF back
  <2>5. batch \o back \in Seq(Events) /\ Len(batch \o back) = Len(batch) + Len(back)
    BY <2>3
  <2>6. CASE Len(batch) + 1 <= Len(filled)
    BY <2>1, <2>2, <2>3, <2>4, <2>5, <2>6
  <2>7. CASE ~(Len(batch) + 1 <= Len(filled))
    BY <2>1, <2>3, <2>4, <2>5, <2>7
  <2> QED BY <2>6, <2>7
<1> QED BY <1>2, <1>3

LEMMA WaitInv ==
  ASSUME IInv, Wait
  PROVE  IInv'
<1> DEFINE ready == {c \in Infos : Reported(c) # {}}
<1>1. PICK order \in SetToSeqs(ready) :
        /\ events' = [k \in DOMAIN order |->
                        [info |-> order[k], flags |-> Reported(order[k])]]
        /\ filled' = Filled(events')
        /\ n' = Len(order)
        /\ pc' = IF ready = {} THEN "create" ELSE "batch"
  BY DEF Wait
<1>2. pc = "wait" /\ UNCHANGED <<sockVars, i, runVars, infoVars>>
  BY DEF Wait
<1>3. /\ IsFiniteSet(ready) /\ Cardinality(ready) \in Nat
      /\ Cardinality(ready) <= Cardinality(Infos) /\ (Cardinality(ready) = 0 <=> ready = {})
  <2>1. IsFiniteSet(Infos) /\ ready \in SUBSET Infos
    BY SocketsAssumption
  <2>2. IsFiniteSet(ready) /\ Cardinality(ready) <= Cardinality(Infos)
    BY <2>1, FS_Subset
  <2> QED BY <2>2, FS_CardinalityType, FS_EmptySet
<1>4. /\ order \in [1..Cardinality(ready) -> ready]
      /\ \A j, k \in 1..Cardinality(ready) : j # k => order[j] # order[k]
  BY DEF SetToSeqs
<1>5. DOMAIN order = 1..Cardinality(ready) /\ Len(order) = Cardinality(ready)
  <2> HIDE DEF ready
  <2> QED BY <1>3, <1>4
<1>6. \A c \in Infos : Reported(c) \in SUBSET EventFlags
  BY DEF Reported, Ready
<1> HIDE DEF ready
<1>7. \A k \in 1..Cardinality(ready) : order[k] \in ready
  BY <1>4
<1>8. ready \subseteq Used
  BY <1>2 DEF ready, Reported, IInv, PoolConsistent, Intact, Registered
<1>9. /\ events' \in [1..Cardinality(ready) -> Events]
      /\ \A k \in 1..Cardinality(ready) : events'[k].info = order[k]
  <2>1. \A k \in 1..Cardinality(ready) :
          [info |-> order[k], flags |-> Reported(order[k])] \in Events
    BY <1>6, <1>7, <1>8 DEF Events, Used
  <2> QED BY <1>1, <1>5, <2>1
<1>10. /\ events' \in Seq(Events) /\ Len(events') = Cardinality(ready)
       /\ DOMAIN events' = 1..Cardinality(ready)
  BY <1>3, <1>9
<1>11. n' = Cardinality(ready) /\ n' \in 0..SizeMax
  <2>1. Cardinality(Infos) \in Nat
    BY SocketsAssumption, FS_CardinalityType
  <2> QED BY <1>1, <1>3, <1>5, <2>1, RunLoopAssumption
<1>14. filled' \in Seq(Events) /\ Len(filled') <= concurrent_connections
  BY <1>1, <1>3, <1>10, FilledType DEF concurrent_connections
<1>12. LoopControl'
  <2>1. pc' = "create" => events' = <<>>
    BY <1>1, <1>3, <1>10
  <2>2. pc' = "batch" => n' > 0 /\ n' = Len(events')
    BY <1>1, <1>3, <1>10, <1>11
  <2>3. Intact'
    BY <1>1, <2>2 DEF Intact
  <2>4. n' >= Len(events')
    BY <1>10, <1>11
  <2> QED BY <1>1, <1>14, <2>1, <2>2, <2>3, <2>4 DEF LoopControl, concurrent_connections
<1>13. EventsFresh'
  <2>1. \A k \in DOMAIN events' : events'[k].info \in Used'
    BY <1>2, <1>7, <1>8, <1>9, <1>10 DEF Used, runVars
  <2>2. \A j, k \in DOMAIN events' : events'[j].info = events'[k].info => j = k
    BY <1>4, <1>9, <1>10
  <2> QED BY <2>1, <2>2 DEF EventsFresh
<1>15. Intact
  BY <1>2 DEF Intact
<1> QED BY <1>1, <1>2, <1>10, <1>11, <1>12, <1>13, <1>14, <1>15, ControlInv
        DEF Places, IInv, TypeOK

(* The array from its start again, and more. *)
LEMMA WaitFailsInv ==
  ASSUME IInv, WaitFails
  PROVE  IInv'
<1>1. /\ pc = "wait" /\ pc' = "batch" /\ "wait" \in Faults
      /\ events' = filled /\ UNCHANGED <<i, filled>> /\ UNCHANGED <<sockVars, runVars, infoVars>>
  BY DEF WaitFails
<1>2. n' = SizeMax /\ SizeMax \in Nat
  BY RunLoopAssumption DEF WaitFails
<1>3. /\ filled \in Seq(Events) /\ Len(filled) \in Nat
      /\ Len(filled) <= concurrent_connections /\ concurrent_connections \in Nat
      /\ concurrent_connections < SizeMax
  BY SocketsAssumption, RunLoopAssumption, FS_CardinalityType
     DEF IInv, TypeOK, LoopControl, concurrent_connections
<1>4. n' > Len(events') /\ n' > 0
  BY <1>1, <1>2, <1>3
<1>5. ~Intact'
  BY <1>1, <1>3, <1>4 DEF Intact
<1>6. LoopControl' /\ EventsFresh'
  BY <1>1, <1>2, <1>3, <1>4, <1>5 DEF LoopControl, EventsFresh, concurrent_connections
<1> QED BY <1>1, <1>2, <1>3, <1>5, <1>6, ControlInv DEF Places, IInv, TypeOK

LEMMA NetworkInv ==
  ASSUME IInv, NetworkStep
  PROVE  IInv'
<1>1. /\ pc # "exit" /\ UNCHANGED <<loopVars, runVars, infoVars>> /\ UNCHANGED interest
  BY DEF NetworkStep, Ended, Network, Establish, Refuse, Drain, Respond, RespondUnasked, Finish, Reset
<1>2. PICK c \in Infos : Network(c)
  BY DEF NetworkStep
<1>3. /\ sock[c] \in Socket /\ sock[c].st \in {"connecting", "open"}
      /\ \E new \in Socket : new.st # "closed" /\ sock' = [sock EXCEPT ![c] = new]
  <2>1. sock[c] \in Socket /\ sock \in [Infos -> Socket]
    BY DEF IInv, TypeOK
  <2>2. CASE Establish(c)
    BY <2>1, <2>2 DEF Establish, Socket, States
  <2>3. CASE Refuse(c)
    BY <2>1, <2>3 DEF Refuse, Socket, States
  <2>4. CASE Drain(c)
    BY <2>1, <2>4 DEF Drain, Socket, States
  <2>5. CASE Respond(c)
    BY <2>1, <2>5, SocketsAssumption DEF Respond, Socket, States
  <2>6. CASE RespondUnasked(c)
    BY <2>1, <2>6, SocketsAssumption DEF RespondUnasked, Socket, States
  <2>7. CASE Finish(c)
    BY <2>1, <2>7 DEF Finish, Socket, States
  <2>8. CASE Reset(c)
    BY <2>1, <2>8 DEF Reset, Socket, States
  <2> QED BY <1>2, <2>2, <2>3, <2>4, <2>5, <2>6, <2>7, <2>8 DEF Network
<1>4. /\ sock' \in [Infos -> Socket]
      /\ \A d \in Infos : sock'[d].st # "closed" <=> sock[d].st # "closed"
  BY <1>3 DEF IInv, TypeOK
<1>5. TypeOK'
  BY <1>1, <1>4 DEF IInv, TypeOK, loopVars, batchVars, runVars, infoVars, concurrent_connections
<1>6. PoolConsistent' /\ Used' = Used
  BY <1>1, <1>4, SamePool DEF runVars, loopVars, batchVars, Intact
<1>7. LoopControl' /\ EventsFresh'
  BY <1>1, <1>6 DEF LoopControl, EventsFresh, Intact, IInv, loopVars, batchVars,
                    concurrent_connections
<1> QED BY <1>5, <1>6, <1>7 DEF IInv

------------------------------------------------------------------------------
LEMMA InitInv == ASSUME Init PROVE IInv
<1>1. \A c \in Infos : NewSocket("closed") \in Socket /\ NewSocket("closed").st = "closed"
  BY NewSocketType DEF States
<1>2. Used = {} /\ Registered = {} /\ Cardinality(Registered) = 0
  BY FS_EmptySet DEF Init, SocketsInit, Used, Registered
<1>3. Cardinality(Infos) \in Nat
  BY SocketsAssumption, FS_CardinalityType
<1>4. TypeOK
  BY <1>1, <1>3, SocketsAssumption, RunLoopAssumption
     DEF Init, SocketsInit, TypeOK, Places, concurrent_connections
<1>5. PoolConsistent
  BY <1>1, <1>2 DEF Init, SocketsInit, PoolConsistent
<1>6. LoopControl /\ EventsFresh
  BY <1>3 DEF Init, LoopControl, EventsFresh, Intact, concurrent_connections
<1> QED BY <1>4, <1>5, <1>6 DEF IInv

LEMMA StepInv ==
  ASSUME IInv, [Next]_vars
  PROVE  IInv'
<1>1. CASE CreateConnection
  BY <1>1, CreateConnectionInv
<1>2. CASE ConnectFails
  <2>1. /\ pc = "create" /\ pc' = pc /\ i' \in 0..MaxCreate
        /\ UNCHANGED <<n, events, filled>> /\ UNCHANGED <<sockVars, runVars, infoVars>>
    BY <1>2, RunLoopAssumption DEF ConnectFails, Creating, batchVars, IInv, TypeOK
  <2>2. LoopControl' /\ EventsFresh' /\ (Intact' => Intact)
    BY <2>1 DEF LoopControl, EventsFresh, Intact, IInv, Used, runVars, concurrent_connections
  <2> QED BY <2>1, <2>2, ControlInv DEF Places, Ended, IInv, TypeOK
<1>3. CASE CreateFatal
  <2>1. /\ pc = "create" /\ pc' = "exit" /\ i' = i
        /\ UNCHANGED <<n, events, filled>> /\ UNCHANGED <<sockVars, runVars, infoVars>>
    BY <1>3, RunLoopAssumption DEF CreateFatal, Creating, batchVars, IInv, TypeOK
  <2>2. LoopControl' /\ EventsFresh' /\ (Intact' => Intact)
    BY <2>1 DEF LoopControl, EventsFresh, Intact, IInv, Used, runVars, concurrent_connections
  <2> QED BY <2>1, <2>2, ControlInv DEF Places, Ended, IInv, TypeOK
<1>4. CASE CreateDone
  <2>1. /\ pc = "create" /\ pc' \in {"returned", "wait"} /\ i' \in 0..MaxCreate
        /\ UNCHANGED <<n, events, filled>> /\ UNCHANGED <<sockVars, runVars, infoVars>>
    BY <1>4, RunLoopAssumption DEF CreateDone, batchVars, IInv, TypeOK
  <2>2. LoopControl' /\ EventsFresh' /\ (Intact' => Intact)
    BY <2>1 DEF LoopControl, EventsFresh, Intact, IInv, Used, runVars, concurrent_connections
  <2> QED BY <2>1, <2>2, ControlInv DEF Places, Ended, IInv, TypeOK
<1>5. CASE Wait
  BY <1>5, WaitInv
<1>6. CASE WaitFails
  BY <1>6, WaitFailsInv
<1>7. CASE ReadPastEvents
  <2>1. /\ pc = "batch" /\ pc' = "undefined" /\ i' = i /\ n # Len(events)
        /\ UNCHANGED <<n, events, filled>> /\ UNCHANGED <<sockVars, runVars, infoVars>>
    BY <1>7, RunLoopAssumption DEF ReadPastEvents, LoopControl, batchVars, IInv, TypeOK
  <2>2. LoopControl' /\ EventsFresh' /\ (Intact' => Intact)
    BY <2>1 DEF LoopControl, EventsFresh, Intact, IInv, Used, runVars, concurrent_connections
  <2> QED BY <2>1, <2>2, ControlInv DEF Places, Ended, IInv, TypeOK
<1>8. CASE ServeEvent
  BY <1>8, ServeEventInv
<1>9. CASE NetworkStep
  BY <1>9, NetworkInv
<1>10. CASE UNCHANGED vars
  BY <1>10 DEF vars, sockVars, loopVars, batchVars, runVars, infoVars, IInv, TypeOK, LoopControl,
               PoolConsistent, EventsFresh, Intact, Used, Registered, concurrent_connections
<1> QED BY <1>1, <1>2, <1>3, <1>4, <1>5, <1>6, <1>7, <1>8, <1>9, <1>10
        DEF Next, Worker, Terminated

(* The inductive invariant of run_loop() and the pool. *)
THEOREM Invariance == Spec => []IInv
BY InitInv, StepInv, PTL DEF Spec

(* Every variable keeps its type; in particular run->concurrency never        *)
(* exceeds the configured number and never goes below zero.                   *)
THEOREM TypeCorrect == Spec => []TypeOK
<1>1. IInv => TypeOK
  BY DEF IInv
<1> QED BY <1>1, Invariance, PTL

(* run->concurrency counts the open sockets, which are those registered with  *)
(* epoll, whatever fails; until an epoll_wait() fails they are the sockets of *)
(* the slots off the free list.                                               *)
THEOREM PoolIsConsistent == Spec => []PoolConsistent
<1>1. IInv => PoolConsistent
  BY DEF IInv
<1> QED BY <1>1, Invariance, PTL

(* "ran out of memory" in _info_alloc() is never reached. *)
THEOREM PoolSuffices == Spec => []NeverOutOfMemory
<1>1. IInv => NeverOutOfMemory
  <2> SUFFICES ASSUME IInv, Creating, freed = {} PROVE FALSE
    BY DEF NeverOutOfMemory
  <2>1. Used = Infos /\ pc = "create"
    BY DEF Used, Creating
  <2>2. concurrency = Cardinality(Infos)
    BY <2>1 DEF IInv, PoolConsistent, Intact
  <2> QED BY <2>2, SocketsAssumption, FS_CardinalityType DEF Creating, concurrent_connections
<1> QED BY <1>1, Invariance, PTL

(* Until an epoll_wait() fails, no event of a batch refers to a connection    *)
(* closed earlier in the batch, and none is served twice.                     *)
THEOREM EventsStayFresh == Spec => []EventsFresh
<1>1. IInv => EventsFresh
  BY DEF IInv
<1> QED BY <1>1, Invariance, PTL

------------------------------------------------------------------------------
(* Every attempt is accounted for.  The counters wrap, each on its own, so    *)
(* what they come to together is known up to multiples of their width.        *)
LEMMA DivMod ==
  ASSUME NEW m \in Nat \ {0}, NEW x \in Int
  PROVE  x = m * (x \div m) + (x % m) /\ x \div m \in Int /\ x % m \in 0..(m - 1)
OBVIOUS

LEMMA Multiple ==
  ASSUME NEW m \in Nat \ {0}, NEW k \in Int, -m < m * k, m * k < m
  PROVE  k = 0
<1>1. k >= 1 => m * k >= m
  OBVIOUS
<1>2. k <= -1 => m * k <= -m
  OBVIOUS
<1> QED BY <1>1, <1>2

LEMMA ModShift ==
  ASSUME NEW m \in Nat \ {0}, NEW x \in Int, x % m = 0
  PROVE  (x + m) % m = 0 /\ (x - m) % m = 0
<1>1. x = m * (x \div m) + (x % m) /\ x \div m \in Int
  BY DivMod
<1>2. x = m * (x \div m)
  BY <1>1
<1>3. PICK q \in Int : x = m * q
  BY <1>1, <1>2
<1>4. ASSUME NEW d \in {1, -1}
      PROVE  (x + d * m) % m = 0
  <2> DEFINE y == x + d * m
             r == y % m
             p == y \div m
             k == q + d - p
  <2>1. y \in Int /\ y = m * (q + d) /\ q + d \in Int
    BY <1>3
  <2>2. y = m * p + r /\ p \in Int /\ r \in 0..(m - 1)
    BY <2>1, DivMod
  <2>3. k \in Int /\ r = m * k
    <3> HIDE DEF y, r, p
    <3>1. r = m * (q + d) - m * p
      BY <2>1, <2>2
    <3> QED BY <2>1, <2>2, <3>1
  <2>4. k = 0
    <3> HIDE DEF k, r
    <3> QED BY <2>2, <2>3, Multiple
  <2>5. r = 0
    <3> HIDE DEF k, r
    <3> QED BY <2>3, <2>4
  <2> QED BY <2>5
<1>5. (x + 1 * m) % m = 0 /\ (x + (-1) * m) % m = 0
  BY <1>4
<1>6. x + 1 * m = x + m /\ x + (-1) * m = x - m
  OBVIOUS
<1> QED BY <1>5, <1>6

LEMMA ModStep ==
  ASSUME NEW m \in Nat \ {0}, NEW x \in 0..(m - 1)
  PROVE  (x + 1) % m \in {x + 1, (x + 1) - m}
<1>1. CASE x + 1 < m
  <2>1. x + 1 \in 0..(m - 1)
    BY <1>1
  <2> QED BY <2>1
<1>2. CASE x + 1 = m
  BY <1>2
<1> QED BY <1>1, <1>2

(* The counters Accounting relates to each other. *)
Accounts == {"attempted"} \cup CloseCounters

LEMMA CountOne ==
  ASSUME stats \in [Counters -> 0..CounterMax], NEW names, Count(names), NEW s \in Counters
  PROVE  /\ stats[s] \in Int /\ stats'[s] \in Int
         /\ s \notin names => stats'[s] = stats[s]
         /\ s \in names => stats'[s] \in {stats[s] + 1, stats[s] + 1 - (CounterMax + 1)}
<1>1. CounterMax + 1 \in Nat \ {0} /\ stats[s] \in 0..((CounterMax + 1) - 1)
  BY RunLoopAssumption
<1>2. (stats[s] + 1) % (CounterMax + 1) \in {stats[s] + 1, (stats[s] + 1) - (CounterMax + 1)}
  BY <1>1, ModStep
<1>3. stats'[s] = IF s \in names THEN (stats[s] + 1) % (CounterMax + 1) ELSE stats[s]
  BY DEF Count
<1> QED BY <1>1, <1>2, <1>3

(* One counter of the account and the number of open connections change       *)
(* together, or neither does.                                                 *)
LEMMA AccountingStep ==
  ASSUME Accounts \subseteq Counters, TypeOK, concurrency' \in Int, pc # "exit", Accounting,
         NEW names, Count(names),
         \/ names \cap Accounts = {} /\ concurrency' = concurrency
         \/ names \cap Accounts = {"attempted"} /\ concurrency' = concurrency + 1
         \/ \E s \in CloseCounters : names \cap Accounts = {s} /\ concurrency' = concurrency - 1
  PROVE  Accounting'
<1> DEFINE m == CounterMax + 1
           balance == stats["attempted"] - concurrency - Closed
<1>1. /\ stats \in [Counters -> 0..CounterMax] /\ concurrency \in Int /\ m \in Nat \ {0}
      /\ Accounts = {"attempted", "read", "hangup", "hangup2", "pipeline", "unknown"}
      /\ CloseCounters = {"read", "hangup", "hangup2", "pipeline", "unknown"}
  BY RunLoopAssumption, SocketsAssumption, FS_CardinalityType
     DEF TypeOK, concurrent_connections, Accounts, CloseCounters
<1>2. \A s \in Accounts :
        /\ stats[s] \in Int /\ stats'[s] \in Int
        /\ s \notin names => stats'[s] = stats[s]
        /\ s \in names => stats'[s] \in {stats[s] + 1, stats[s] + 1 - m}
  BY <1>1, CountOne
<1>3. balance \in Int /\ balance % m = 0
  BY <1>1, <1>2 DEF Accounting, Closed
<1>4. balance' \in {balance, balance + m, balance - m}
  <2> HIDE DEF m
  <2>1. CASE names \cap Accounts = {} /\ concurrency' = concurrency
    BY <1>1, <1>2, <2>1 DEF Closed
  <2>2. CASE names \cap Accounts = {"attempted"} /\ concurrency' = concurrency + 1
    <3>1. /\ stats'["attempted"] \in {stats["attempted"] + 1, stats["attempted"] + 1 - m}
          /\ \A s \in CloseCounters : stats'[s] = stats[s] /\ stats[s] \in Int
          /\ stats["attempted"] \in Int
      BY <1>1, <1>2, <2>2
    <3> QED BY <1>1, <2>2, <3>1 DEF Closed
  <2>3. ASSUME NEW s \in CloseCounters, names \cap Accounts = {s}, concurrency' = concurrency - 1
        PROVE  balance' \in {balance, balance + m, balance - m}
    <3>1. /\ stats'[s] \in {stats[s] + 1, stats[s] + 1 - m}
          /\ \A r \in CloseCounters \ {s} : stats'[r] = stats[r]
          /\ \A r \in CloseCounters : stats[r] \in Int
          /\ stats["attempted"] \in Int /\ stats'["attempted"] = stats["attempted"]
      BY <1>1, <1>2, <2>3
    <3>2. Closed' \in {Closed + 1, Closed + 1 - m} /\ Closed \in Int
      BY <1>1, <2>3, <3>1 DEF Closed
    <3> QED BY <1>1, <2>3, <3>1, <3>2
  <2> QED BY <2>1, <2>2, <2>3
<1>5. balance' % m = 0
  <2> HIDE DEF m, balance
  <2> QED BY <1>1, <1>3, <1>4, ModShift
<1> QED BY <1>5 DEF Accounting

LEMMA SameAccounts ==
  ASSUME pc # "exit", Accounting, UNCHANGED <<concurrency, stats>>
  PROVE  Accounting'
BY DEF Accounting, Closed

LEMMA StepAccounting ==
  ASSUME Accounts \subseteq Counters, IInv, Accounting, [Next]_vars
  PROVE  Accounting'
<1>1. TypeOK /\ TypeOK' /\ concurrency' \in Int
  <2>1. IInv'
    BY StepInv
  <2>2. concurrent_connections \in Nat /\ concurrent_connections' = concurrent_connections
    BY SocketsAssumption, FS_CardinalityType DEF concurrent_connections
  <2>3. TypeOK /\ TypeOK'
    BY <2>1 DEF IInv
  <2>4. concurrency' \in 0..concurrent_connections'
    BY <2>3 DEF TypeOK
  <2> QED BY <2>2, <2>3, <2>4
<1>2. CASE pc' = "exit"
  BY <1>2 DEF Accounting
<1>3. CASE UNCHANGED vars
  BY <1>3 DEF Accounting, Closed, vars, loopVars, runVars
<1>4. CASE CreateConnection /\ pc' # "exit"
  <2>1. PICK c \in freed : OpenSlot(c)
    BY <1>4 DEF CreateConnection
  <2>2. {"request_count", "attempted"} \cap Accounts = {"attempted"} /\ pc # "exit"
    BY <1>4 DEF Accounts, CloseCounters, CreateConnection, Creating
  <2>3. Count({"request_count", "attempted"}) /\ concurrency' = concurrency + 1
    BY <2>1 DEF OpenSlot
  <2> QED BY <1>1, <2>2, <2>3, AccountingStep
<1>5. CASE ConnectFails \/ CreateDone \/ Wait \/ WaitFails \/ ReadPastEvents \/ NetworkStep
  <2>1. pc # "exit" /\ UNCHANGED <<concurrency, stats>>
    BY <1>5 DEF ConnectFails, Creating, CreateDone, Wait, WaitFails, ReadPastEvents, NetworkStep,
                Ended, runVars
  <2> QED BY <2>1, SameAccounts
<1>6. CASE CreateFatal \/ Terminated
  BY <1>3, <1>2, <1>6 DEF CreateFatal, Terminated
<1>7. ASSUME NEW c, NEW fd, NEW flags, NEW names, NEW s \in CloseCounters,
             Serving(c, fd, flags), CloseSlot(c, fd, names), names \cap Accounts = {s}
      PROVE  Accounting'
  <2>1. pc # "exit" /\ Count(names) /\ concurrency' = concurrency - 1
    BY <1>7 DEF Serving, CloseSlot
  <2> QED BY <1>1, <1>7, <2>1, AccountingStep
<1>8. CASE ServeEvent /\ pc' # "exit"
  <2>1. PICK c, fd \in Infos, flags \in {Head(events).flags} :
          \/ ServeOut(c, fd, flags) \/ ServeError(c, fd, flags) \/ RecvFails(c, fd, flags)
          \/ RecvEnd(c, fd, flags) \/ RecvPipelined(c, fd, flags) \/ RecvPart(c, fd, flags)
          \/ RecvLast(c, fd, flags) \/ RecvAndResend(c, fd, flags) \/ ServeHangup(c, fd, flags)
          \/ ServeClosed(c, fd, flags)
    BY <1>8 DEF ServeEvent
  <2>2. CASE ServeError(c, fd, flags) \/ RecvFails(c, fd, flags) \/ ServeClosed(c, fd, flags)
    BY <1>8, <2>2 DEF ServeError, RecvFails, ExitOnError, ServeClosed
  <2>3. CASE ServeOut(c, fd, flags)
    <3>1. PICK units : Count(SentCount(units) \cup IF is_connected[c] THEN {} ELSE {"succeeded"})
      BY <2>3 DEF ServeOut
    <3>2. (SentCount(units) \cup IF is_connected[c] THEN {} ELSE {"succeeded"}) \cap Accounts = {}
      BY DEF SentCount, Accounts, CloseCounters
    <3> QED BY <1>1, <2>3, <3>1, <3>2, AccountingStep DEF ServeOut, Serving
  <2>4. CASE RecvAndResend(c, fd, flags)
    <3>1. PICK units : Count({"recved"} \cup SentCount(units))
      BY <2>4 DEF RecvAndResend
    <3>2. ({"recved"} \cup SentCount(units)) \cap Accounts = {}
      BY DEF SentCount, Accounts, CloseCounters
    <3>3. pc # "exit" /\ UNCHANGED concurrency
      BY <2>4 DEF RecvAndResend, ResponseComplete, Receiving, Serving
    <3> QED BY <1>1, <3>1, <3>2, <3>3, AccountingStep
  <2>5. CASE RecvEnd(c, fd, flags)
    <3> DEFINE reason == IF "HUP" \in flags THEN "hangup" ELSE "read"
    <3>1. Serving(c, fd, flags) /\ CloseSlot(c, fd, {reason})
      BY <2>5 DEF RecvEnd, Receiving
    <3>2. reason \in CloseCounters /\ {reason} \cap Accounts = {reason}
      BY DEF Accounts, CloseCounters
    <3> HIDE DEF reason
    <3> QED BY <1>7, <3>1, <3>2
  <2>6. CASE RecvPipelined(c, fd, flags)
    <3>1. Serving(c, fd, flags) /\ CloseSlot(c, fd, {"hangup2"})
      BY <2>6 DEF RecvPipelined, Receiving
    <3>2. "hangup2" \in CloseCounters /\ {"hangup2"} \cap Accounts = {"hangup2"}
      BY DEF Accounts, CloseCounters
    <3> QED BY <1>7, <3>1, <3>2
  <2>7. CASE RecvPart(c, fd, flags) /\ "HUP" \in flags
    <3>1. Serving(c, fd, flags) /\ CloseSlot(c, fd, {"unknown"})
      BY <2>7 DEF RecvPart, Receiving
    <3>2. "unknown" \in CloseCounters /\ {"unknown"} \cap Accounts = {"unknown"}
      BY DEF Accounts, CloseCounters
    <3> QED BY <1>7, <3>1, <3>2
  <2>8. CASE RecvPart(c, fd, flags) /\ "HUP" \notin flags
    <3>1. pc # "exit" /\ UNCHANGED <<concurrency, stats>>
      BY <2>8 DEF RecvPart, Receiving, Serving, runVars
    <3> QED BY <3>1, SameAccounts
  <2>9. CASE RecvLast(c, fd, flags)
    <3>1. Serving(c, fd, flags) /\ CloseSlot(c, fd, {"recved", "hangup"})
      BY <2>9 DEF RecvLast, ResponseComplete, Receiving
    <3>2. "hangup" \in CloseCounters /\ {"recved", "hangup"} \cap Accounts = {"hangup"}
      BY DEF Accounts, CloseCounters
    <3> QED BY <1>7, <3>1, <3>2
  <2>10. CASE ServeHangup(c, fd, flags)
    <3>1. Serving(c, fd, flags) /\ CloseSlot(c, fd, {"hangup"})
      BY <2>10 DEF ServeHangup
    <3>2. "hangup" \in CloseCounters /\ {"hangup"} \cap Accounts = {"hangup"}
      BY DEF Accounts, CloseCounters
    <3> QED BY <1>7, <3>1, <3>2
  <2> QED BY <2>1, <2>2, <2>3, <2>4, <2>5, <2>6, <2>7, <2>8, <2>9, <2>10
<1> QED BY <1>2, <1>3, <1>4, <1>5, <1>6, <1>8 DEF Next, Worker

(* A run that follows the counters of the account, as the program does, loses *)
(* no attempt: each is open, or was closed under exactly one reason.          *)
THEOREM EveryAttemptAccounted == Accounts \subseteq Counters => (Spec => []Accounting)
<1> SUFFICES ASSUME Accounts \subseteq Counters PROVE Spec => []Accounting
  OBVIOUS
<1>1. Init => Accounting
  <2> SUFFICES ASSUME Init PROVE Accounting
    OBVIOUS
  <2>1. stats["attempted"] - concurrency - Closed = 0
    BY DEF Init, Closed, Accounts, CloseCounters
  <2> QED BY <2>1, RunLoopAssumption DEF Accounting
<1>2. IInv /\ Accounting /\ [Next]_vars => Accounting'
  BY StepAccounting
<1> QED BY <1>1, <1>2, Invariance, PTL DEF Spec

------------------------------------------------------------------------------
(* A server that only answers, and an epoll_wait() that never fails: after a  *)
(* failure the events of the batch before are served again, on sockets that   *)
(* may by then have been given to other connections.                          *)

ServerAnswersOnly == "extra" \notin Faults

WaitsSucceed == "wait" \notin Faults

(* As long as no epoll_wait() fails, an event is served on the socket of its  *)
(* own slot.                                                                  *)
LEMMA StaysIntact ==
  ASSUME WaitsSucceed, IInv, pc # "exit"
  PROVE  Intact /\ Used = Registered
BY DEF WaitsSucceed, IInv, LoopControl, PoolConsistent

LEMMA ServesOwn ==
  ASSUME WaitsSucceed, IInv, NEW c, NEW fd, NEW flags, Serving(c, fd, flags)
  PROVE  c \in Used /\ c \in Infos /\ fd = c /\ interest[c] # {}
<1>1. pc = "batch" /\ events # <<>> /\ events \in Seq(Events) /\ c = events[1].info
  BY DEF Serving, IInv, TypeOK
<1>2. Intact /\ Used = Registered
  BY <1>1, StaysIntact
<1>3. c \in Used
  <2>1. 1 \in DOMAIN events
    BY <1>1
  <2> QED BY <1>1, <1>2, <2>1 DEF IInv, EventsFresh
<1>4. fd = c
  BY <1>3 DEF Serving, Descriptors, Used
<1> QED BY <1>2, <1>3, <1>4 DEF Used, Registered

LEMMA ServeEventOwn ==
  ASSUME WaitsSucceed, IInv, ServeEvent
  PROVE  \E c \in Infos, flags \in {Head(events).flags} :
           \/ ServeOut(c, c, flags) \/ ServeError(c, c, flags) \/ RecvFails(c, c, flags)
           \/ RecvEnd(c, c, flags) \/ RecvPipelined(c, c, flags) \/ RecvPart(c, c, flags)
           \/ RecvLast(c, c, flags) \/ RecvAndResend(c, c, flags) \/ ServeHangup(c, c, flags)
<1>1. PICK c, fd \in Infos, flags \in {Head(events).flags} :
        \/ ServeOut(c, fd, flags) \/ ServeError(c, fd, flags) \/ RecvFails(c, fd, flags)
        \/ RecvEnd(c, fd, flags) \/ RecvPipelined(c, fd, flags) \/ RecvPart(c, fd, flags)
        \/ RecvLast(c, fd, flags) \/ RecvAndResend(c, fd, flags) \/ ServeHangup(c, fd, flags)
        \/ ServeClosed(c, fd, flags)
  BY DEF ServeEvent
<1>2. Serving(c, fd, flags)
  BY <1>1 DEF ServeOut, ServeError, RecvFails, RecvEnd, RecvPipelined, RecvPart, RecvLast,
              RecvAndResend, ServeHangup, ServeClosed, ResponseComplete, Receiving
<1>3. fd = c /\ interest[c] # {}
  BY <1>2, ServesOwn
<1>4. ~ServeClosed(c, fd, flags)
  BY <1>3 DEF ServeClosed
<1> QED BY <1>1, <1>3, <1>4

(* What one send() does to a request that is not sent whole yet: the server   *)
(* has as much of it as the program has sent, and owes one response as soon   *)
(* as that is all of it.                                                      *)
LEMMA SendConversation ==
  ASSUME NEW s \in Socket, NEW sent \in 0..(ReqLen - 1),
         NEW k \in SendResults(s, ReqLen - sent),
         s.got = sent, s.owed = 0
  PROVE  LET units == Sent(sent, k)
             after == AfterSend(s, ReqLen - sent, k)
         IN /\ units \in 0..ReqLen
            /\ after.got = IF IsSent(units) THEN 0 ELSE units
            /\ after.owed = IF IsSent(units) THEN RspLen ELSE 0
            /\ after.rx = s.rx
<1> DEFINE rem == ReqLen - sent
           units == Sent(sent, k)
           after == AfterSend(s, rem, k)
<1>1. /\ ReqLen \in Nat \ {0} /\ RspLen \in Nat \ {0} /\ rem \in Nat \ {0}
      /\ k \in Int /\ k <= rem
  BY SocketsAssumption DEF SendResults
<1>2. CASE k > 0
  <2>1. /\ units = sent + k /\ sent + k \in Nat /\ sent + k <= ReqLen
        /\ IsSent(units) <=> sent + k = ReqLen
    BY <1>1, <1>2 DEF Sent, IsSent
  <2>2. /\ after.got = (sent + k) % ReqLen
        /\ after.owed = RspLen * ((sent + k) \div ReqLen)
        /\ after.rx = s.rx
    <3>1. (sent + k) \div ReqLen \in Nat
      BY <1>1, <2>1, DivModType
    <3>2. 0 + RspLen * ((sent + k) \div ReqLen) = RspLen * ((sent + k) \div ReqLen)
      BY <1>1, <3>1
    <3> QED BY <1>2, <3>2 DEF AfterSend, Socket
  <2>3. CASE sent + k = ReqLen
    <3>1. (sent + k) % ReqLen = 0 /\ (sent + k) \div ReqLen = 1
      BY <1>1, <2>3
    <3> QED BY <1>1, <2>1, <2>2, <2>3, <3>1
  <2>4. CASE sent + k < ReqLen
    <3>1. (sent + k) % ReqLen = sent + k /\ (sent + k) \div ReqLen = 0
      BY <1>1, <2>1, <2>4
    <3> QED BY <1>1, <2>1, <2>2, <2>4, <3>1
  <2> QED BY <1>1, <2>1, <2>3, <2>4
<1>3. CASE ~(k > 0)
  <2>1. units = sent /\ ~IsSent(units)
    BY <1>1, <1>3 DEF Sent, IsSent
  <2>2. after.got = s.got /\ after.owed = s.owed /\ after.rx = s.rx
    BY <1>3 DEF AfterSend, Socket
  <2> QED BY <1>1, <2>1, <2>2
<1> QED BY <1>2, <1>3

(* What is left to show of an action that serves an event of c. *)
LEMMA ServingConversation ==
  ASSUME WaitsSucceed, IInv, CycleInv, NEW c \in Infos, NEW flags, Serving(c, c, flags), NextEvent,
         \A d \in Infos \ {c} : /\ sock'[d] = sock[d] /\ interest'[d] = interest[d]
                                /\ request_sent'[d] = request_sent[d] /\ seen'[d] = seen[d],
         Used' \subseteq Used,
         c \in Used' => Conversation(c)'
  PROVE  CycleInv'
<1>1. /\ pc = "batch" /\ events # <<>> /\ events \in Seq(Events) /\ events' = Tail(events)
  BY DEF IInv, TypeOK, Serving, NextEvent
<1>2. \A k \in DOMAIN events' : k + 1 \in DOMAIN events /\ events'[k] = events[k + 1]
  BY <1>1
<1>3. \A k \in DOMAIN events' : events'[k].info \in Infos \ {c}
  <2>1. Intact
    BY <1>1, StaysIntact
  <2> QED BY <2>1, NextEventInv DEF Used
<1>4. \A k \in DOMAIN events' : "OUT" \in events'[k].flags => ~IsSent(request_sent'[events'[k].info])
  BY <1>2, <1>3 DEF CycleInv
<1>5. \A d \in Used' : Conversation(d)'
  <2> SUFFICES ASSUME NEW d \in Used', d # c PROVE Conversation(d)'
    OBVIOUS
  <2>1. d \in Used /\ d \in Infos \ {c}
    BY DEF Used
  <2>2. Conversation(d)
    BY <1>1, <2>1 DEF CycleInv
  <2> QED BY <2>1, <2>2 DEF Conversation
<1> QED BY <1>4, <1>5 DEF CycleInv, IsSent

(* What an event tells of the connection it is about. *)
LEMMA ServingFacts ==
  ASSUME WaitsSucceed, IInv, CycleInv, NEW c \in Infos, NEW flags, Serving(c, c, flags)
  PROVE  /\ c \in Used /\ Conversation(c) /\ sock[c] \in Socket
         /\ request_sent[c] \in 0..ReqLen /\ seen[c] \in 0..RspLen
         /\ "OUT" \in flags => ~IsSent(request_sent[c])
<1>1. /\ pc = "batch" /\ events # <<>> /\ events \in Seq(Events)
      /\ c = events[1].info /\ flags = events[1].flags
  BY DEF IInv, TypeOK, Serving
<1>2. 1 \in DOMAIN events
  BY <1>1
<1>3. c \in Used
  BY ServesOwn
<1> QED BY <1>1, <1>2, <1>3 DEF IInv, TypeOK, CycleInv

LEMMA ServeOutConversation ==
  ASSUME WaitsSucceed, IInv, CycleInv, NEW c \in Infos, NEW flags, ServeOut(c, c, flags)
  PROVE  CycleInv'
<1>1. /\ Serving(c, c, flags) /\ NextEvent /\ "OUT" \in flags
      /\ UNCHANGED <<concurrency, freed, seen>>
  BY DEF ServeOut
<1>2. /\ c \in Used /\ Conversation(c) /\ sock[c] \in Socket
      /\ request_sent[c] \in 0..(ReqLen - 1) /\ ~IsSent(request_sent[c])
      /\ seen[c] \in {0, RspLen}
  BY <1>1, ServingFacts, SocketsAssumption DEF IsSent, Conversation
<1>3. sock[c].got = request_sent[c] /\ sock[c].owed = 0 /\ sock[c].rx = 0
  BY <1>2 DEF Conversation
<1> DEFINE rem == ReqLen - request_sent[c]
<1>4. PICK k \in SendResults(sock[c], rem) :
        LET units == Sent(request_sent[c], k)
            after == AfterSend(sock[c], rem, k)
        IN /\ request_sent' = [request_sent EXCEPT ![c] = units]
           /\ sock' = [sock EXCEPT ![c] =
                         IF IsSent(units) /\ IsShutdown THEN Shutdown(after) ELSE after]
           /\ interest' = [interest EXCEPT ![c] = InterestAfterOut(c, units)]
  BY DEF ServeOut
<1> DEFINE units == Sent(request_sent[c], k)
           after == AfterSend(sock[c], rem, k)
           new   == IF IsSent(units) /\ IsShutdown THEN Shutdown(after) ELSE after
<1>5. /\ units \in 0..ReqLen
      /\ after.got = IF IsSent(units) THEN 0 ELSE units
      /\ after.owed = IF IsSent(units) THEN RspLen ELSE 0
      /\ after.rx = 0
  BY <1>2, <1>3, SendConversation
<1>6. after \in Socket
  <2>1. rem \in Int /\ k \in Int
    BY <1>2, SocketsAssumption DEF SendResults
  <2> HIDE DEF rem
  <2> QED BY <1>2, <2>1, AfterSendType
<1>7. new.got = after.got /\ new.owed = after.owed /\ new.rx = after.rx
  <2> HIDE DEF after, units
  <2> QED BY <1>6 DEF Shutdown, Socket
<1>8. /\ sock' = [sock EXCEPT ![c] = new] /\ request_sent' = [request_sent EXCEPT ![c] = units]
      /\ interest' = [interest EXCEPT ![c] = InterestAfterOut(c, units)]
  BY <1>4
<1> HIDE DEF units, after, new, rem
<1>9. /\ sock'[c] = new /\ request_sent'[c] = units
      /\ interest'[c] = InterestAfterOut(c, units) /\ seen'[c] = seen[c]
      /\ \A d \in Infos \ {c} :
           /\ sock'[d] = sock[d] /\ interest'[d] = interest[d]
           /\ request_sent'[d] = request_sent[d] /\ seen'[d] = seen[d]
  BY <1>1, <1>8 DEF IInv, TypeOK
<1>10. "OUT" \in InterestAfterOut(c, units) <=> ~IsSent(units)
  <2>1. interest[c] # {}
    BY <1>1, ServesOwn
  <2> QED BY <1>2, <2>1 DEF InterestAfterOut, Modified, Conversation
<1>11. Conversation(c)'
  BY <1>2, <1>5, <1>7, <1>9, <1>10, SocketsAssumption DEF Conversation, IsSent
<1>12. Used' = Used
  BY <1>1 DEF Used
<1> QED BY <1>1, <1>9, <1>11, <1>12, ServingConversation

LEMMA RecvAndResendConversation ==
  ASSUME WaitsSucceed, IInv, CycleInv, NEW c \in Infos, NEW flags, RecvAndResend(c, c, flags)
  PROVE  CycleInv'
<1> DEFINE bytes == RecvResult(sock[c])
<1>1. /\ Serving(c, c, flags) /\ NextEvent /\ UNCHANGED <<concurrency, freed, is_connected>>
      /\ bytes > 0 /\ seen[c] + bytes = RspLen
  BY DEF RecvAndResend, ResponseComplete, Receiving
<1>2. /\ c \in Used /\ Conversation(c) /\ sock[c] \in Socket
      /\ request_sent[c] \in 0..ReqLen /\ seen[c] \in 0..RspLen
  BY <1>1, ServingFacts
<1>3. bytes \in Int /\ sock[c].rx \in Nat /\ sock[c].owed \in Nat /\ bytes <= sock[c].rx
  BY <1>1, <1>2, SocketsAssumption DEF RecvResult, Socket
<1>4. /\ IsSent(request_sent[c]) /\ sock[c].got = 0
      /\ sock[c].owed = 0 /\ sock[c].rx = bytes
  <2> HIDE DEF bytes
  <2> QED BY <1>1, <1>2, <1>3, SocketsAssumption DEF Conversation
<1> DEFINE drained == AfterRecv(sock[c])
           left    == ReqLen - SendInit(c)
<1>5. drained \in Socket /\ drained.got = 0 /\ drained.owed = 0 /\ drained.rx = 0
  <2>1. drained \in Socket
    BY <1>2, AfterRecvType
  <2>2. drained = [sock[c] EXCEPT !.rx = sock[c].rx - bytes]
    BY <1>1, <1>3 DEF AfterRecv
  <2> HIDE DEF bytes, drained
  <2>3. drained.got = sock[c].got /\ drained.owed = sock[c].owed /\ drained.rx = sock[c].rx - bytes
    BY <1>2, <2>2 DEF Socket
  <2> QED BY <1>3, <1>4, <2>1, <2>3
<1>6. PICK k \in SendResults(drained, left) :
        LET units == Sent(SendInit(c), k)
        IN /\ request_sent' = [request_sent EXCEPT ![c] = units]
           /\ sock' = [sock EXCEPT ![c] = AfterSend(drained, left, k)]
           /\ seen' = [seen EXCEPT ![c] = SeenAfterResend(units)]
           /\ interest' = [interest EXCEPT ![c] = InterestAfterResend(c, units)]
  BY DEF RecvAndResend
<1> DEFINE units == Sent(SendInit(c), k)
           new   == AfterSend(drained, left, k)
<1>7. /\ units \in 0..ReqLen
      /\ new.got = IF IsSent(units) THEN 0 ELSE units
      /\ new.owed = IF IsSent(units) THEN RspLen ELSE 0
      /\ new.rx = 0
  <2>1. SendInit(c) = 0 /\ 0 \in 0..(ReqLen - 1)
    BY SocketsAssumption DEF SendInit
  <2> HIDE DEF drained
  <2> QED BY <1>5, <2>1, SendConversation
<1>8. /\ sock' = [sock EXCEPT ![c] = new] /\ request_sent' = [request_sent EXCEPT ![c] = units]
      /\ seen' = [seen EXCEPT ![c] = SeenAfterResend(units)]
      /\ interest' = [interest EXCEPT ![c] = InterestAfterResend(c, units)]
  BY <1>6
<1> HIDE DEF units, new, drained, left, bytes
<1>9. /\ sock'[c] = new /\ request_sent'[c] = units
      /\ interest'[c] = InterestAfterResend(c, units) /\ seen'[c] = SeenAfterResend(units)
      /\ \A d \in Infos \ {c} :
           /\ sock'[d] = sock[d] /\ interest'[d] = interest[d]
           /\ request_sent'[d] = request_sent[d] /\ seen'[d] = seen[d]
  BY <1>8 DEF IInv, TypeOK
<1>10. "OUT" \in InterestAfterResend(c, units) <=> ~IsSent(units)
  <2>1. interest[c] # {}
    BY <1>1, ServesOwn
  <2> QED BY <1>2, <1>4, <2>1 DEF InterestAfterResend, Modified, Conversation
<1>11. Conversation(c)'
  BY <1>7, <1>9, <1>10, SocketsAssumption DEF Conversation, IsSent, SeenAfterResend
<1>12. Used' = Used
  BY <1>1 DEF Used
<1> QED BY <1>1, <1>9, <1>11, <1>12, ServingConversation

LEMMA RecvPartConversation ==
  ASSUME WaitsSucceed, IInv, CycleInv, NEW c \in Infos, NEW flags, RecvPart(c, c, flags), "HUP" \notin flags
  PROVE  CycleInv'
<1> DEFINE bytes == RecvResult(sock[c])
           new   == AfterRecv(sock[c])
<1>1. /\ Serving(c, c, flags) /\ NextEvent /\ UNCHANGED <<interest, runVars, request_sent>>
      /\ bytes > 0 /\ seen[c] + bytes < RspLen
      /\ seen' = [seen EXCEPT ![c] = @ + bytes]
      /\ sock' = [sock EXCEPT ![c] = new]
  BY DEF RecvPart, Receiving
<1>2. /\ c \in Used /\ Conversation(c) /\ sock[c] \in Socket
      /\ request_sent[c] \in 0..ReqLen /\ seen[c] \in 0..RspLen
  BY <1>1, ServingFacts
<1>3. bytes \in Int /\ sock[c].rx \in Nat /\ sock[c].owed \in Nat /\ bytes <= sock[c].rx
  BY <1>1, <1>2, SocketsAssumption DEF RecvResult, Socket
<1>4. new.got = sock[c].got /\ new.owed = sock[c].owed /\ new.rx = sock[c].rx - bytes
  <2>1. new = [sock[c] EXCEPT !.rx = sock[c].rx - bytes]
    BY <1>1, <1>3 DEF AfterRecv
  <2> HIDE DEF bytes, new
  <2> QED BY <1>2, <2>1 DEF Socket
<1> HIDE DEF bytes, new
<1>5. /\ sock'[c] = new /\ seen'[c] = seen[c] + bytes
      /\ \A d \in Infos \ {c} :
           /\ sock'[d] = sock[d] /\ interest'[d] = interest[d]
           /\ request_sent'[d] = request_sent[d] /\ seen'[d] = seen[d]
  BY <1>1 DEF IInv, TypeOK
<1>6. IsSent(request_sent[c]) /\ seen[c] + sock[c].rx + sock[c].owed <= RspLen
  BY <1>1, <1>2, <1>3, SocketsAssumption DEF Conversation
<1>7. Conversation(c)'
  BY <1>1, <1>2, <1>3, <1>4, <1>5, <1>6, SocketsAssumption DEF Conversation, IsSent
<1>8. Used' = Used
  BY <1>1 DEF Used, runVars
<1> QED BY <1>1, <1>5, <1>7, <1>8, ServingConversation

(* An action that serves an event and closes its connection. *)
LEMMA ClosingConversation ==
  ASSUME WaitsSucceed, IInv, CycleInv, NEW c \in Infos, NEW flags, NEW names,
         Serving(c, c, flags), CloseSlot(c, c, names), NextEvent,
         \A d \in Infos \ {c} : request_sent'[d] = request_sent[d] /\ seen'[d] = seen[d]
  PROVE  CycleInv'
<1>1. c \in Used
  BY ServesOwn
<1>2. Used' = Used \ {c}
  BY DEF CloseSlot, Used, IInv, TypeOK
<1>3. \A d \in Infos \ {c} : sock'[d] = sock[d] /\ interest'[d] = interest[d]
  BY DEF CloseSlot, IInv, TypeOK
<1> QED BY <1>2, <1>3, ServingConversation

LEMMA ServeEventConversation ==
  ASSUME WaitsSucceed, IInv, CycleInv, ServeEvent
  PROVE  CycleInv'
<1>1. PICK c \in Infos, flags \in {Head(events).flags} :
        \/ ServeOut(c, c, flags) \/ ServeError(c, c, flags) \/ RecvFails(c, c, flags)
        \/ RecvEnd(c, c, flags) \/ RecvPipelined(c, c, flags) \/ RecvPart(c, c, flags)
        \/ RecvLast(c, c, flags) \/ RecvAndResend(c, c, flags) \/ ServeHangup(c, c, flags)
  BY ServeEventOwn
<1>2. CASE ServeError(c, c, flags) \/ RecvFails(c, c, flags)
  BY <1>2 DEF ServeError, RecvFails, ExitOnError, CycleInv, infoVars, batchVars
<1>3. CASE RecvEnd(c, c, flags)
  <2>1. /\ Serving(c, c, flags) /\ NextEvent /\ UNCHANGED infoVars
        /\ CloseSlot(c, c, {IF "HUP" \in flags THEN "hangup" ELSE "read"})
    BY <1>3 DEF RecvEnd, Receiving
  <2> QED BY <2>1, ClosingConversation DEF infoVars
<1>4. CASE ServeHangup(c, c, flags)
  <2>1. /\ Serving(c, c, flags) /\ NextEvent /\ UNCHANGED infoVars /\ CloseSlot(c, c, {"hangup"})
    BY <1>4 DEF ServeHangup
  <2> QED BY <2>1, ClosingConversation DEF infoVars
<1>5. CASE RecvPipelined(c, c, flags)
  <2>1. /\ Serving(c, c, flags) /\ NextEvent /\ CloseSlot(c, c, {"hangup2"})
        /\ seen' = [seen EXCEPT ![c] = RspLen] /\ UNCHANGED request_sent
    BY <1>5 DEF RecvPipelined, Receiving
  <2> QED BY <2>1, ClosingConversation DEF IInv, TypeOK
<1>6. CASE RecvLast(c, c, flags)
  <2>1. /\ Serving(c, c, flags) /\ NextEvent /\ CloseSlot(c, c, {"recved", "hangup"})
        /\ seen' = [seen EXCEPT ![c] = RspLen] /\ UNCHANGED request_sent
    BY <1>6 DEF RecvLast, ResponseComplete, Receiving
  <2> QED BY <2>1, ClosingConversation DEF IInv, TypeOK
<1>7. CASE RecvPart(c, c, flags) /\ "HUP" \in flags
  <2>1. /\ Serving(c, c, flags) /\ NextEvent /\ CloseSlot(c, c, {"unknown"})
        /\ \E bytes : seen' = [seen EXCEPT ![c] = @ + bytes]
        /\ UNCHANGED request_sent
    BY <1>7 DEF RecvPart, Receiving
  <2> QED BY <2>1, ClosingConversation DEF IInv, TypeOK
<1> QED BY <1>1, <1>2, <1>3, <1>4, <1>5, <1>6, <1>7, ServeOutConversation,
           RecvPartConversation, RecvAndResendConversation

(* Steps outside of the loop over the events that change no connection. *)
LEMMA QuietConversation ==
  ASSUME CycleInv, pc # "exit", UNCHANGED <<sockVars, runVars, infoVars, batchVars>>
  PROVE  CycleInv'
BY DEF CycleInv, Conversation, Used, IsSent, sockVars, runVars, infoVars, batchVars

LEMMA CreateConnectionConversation ==
  ASSUME WaitsSucceed, IInv, CycleInv, CreateConnection
  PROVE  CycleInv'
<1>1. pc = "create" /\ events = <<>> /\ UNCHANGED batchVars /\ UNCHANGED events
  BY DEF CreateConnection, Creating, batchVars, IInv, LoopControl
<1>2. CASE freed = {}
  BY <1>1, <1>2, QuietConversation DEF CreateConnection
<1>3. CASE freed # {}
  <2>1. PICK c \in freed : OpenSlot(c)
    BY <1>3 DEF CreateConnection
  <2>2. c \in Infos /\ Used' = Used \cup {c}
    BY <2>1 DEF OpenSlot, Used, IInv, TypeOK
  <2>3. /\ sock'[c] = NewSocket("connecting") /\ interest'[c] = {"IN", "OUT"}
        /\ request_sent'[c] = 0 /\ seen'[c] = 0
        /\ \A d \in Infos \ {c} :
             /\ sock'[d] = sock[d] /\ interest'[d] = interest[d]
             /\ request_sent'[d] = request_sent[d] /\ seen'[d] = seen[d]
    BY <2>1, <2>2 DEF OpenSlot, IInv, TypeOK
  <2>4. Conversation(c)'
    BY <2>3, SocketsAssumption DEF Conversation, IsSent, NewSocket
  <2>5. \A d \in Used' : Conversation(d)'
    <3> SUFFICES ASSUME NEW d \in Used', d # c PROVE Conversation(d)'
      BY <2>4
    <3>1. d \in Used /\ d \in Infos \ {c}
      BY <2>2 DEF Used
    <3>2. Conversation(d)
      BY <1>1, <3>1 DEF CycleInv
    <3> QED BY <2>3, <3>1, <3>2 DEF Conversation
  <2> QED BY <1>1, <2>5 DEF CycleInv
<1> QED BY <1>2, <1>3

LEMMA WaitConversation ==
  ASSUME WaitsSucceed, IInv, CycleInv, Wait
  PROVE  CycleInv'
<1>1. pc = "wait" /\ UNCHANGED <<sockVars, i, runVars, infoVars>>
  BY DEF Wait
<1>2. \A d \in Used' : Conversation(d)'
  BY <1>1 DEF CycleInv, Conversation, Used, IsSent, sockVars, runVars, infoVars
<1> DEFINE ready == {c \in Infos : Reported(c) # {}}
<1>3. PICK order \in SetToSeqs(ready) :
        events' = [k \in DOMAIN order |->
                     [info |-> order[k], flags |-> Reported(order[k])]]
  BY DEF Wait
<1>4. \A k \in DOMAIN order : order[k] \in ready
  <2> HIDE DEF ready
  <2> QED BY DEF SetToSeqs
<1>5. \A k \in DOMAIN events' : /\ events'[k].info \in ready
                                /\ events'[k].flags = Reported(events'[k].info)
  <2> HIDE DEF ready
  <2> QED BY <1>3, <1>4
<1>6. \A c \in ready : "OUT" \in Reported(c) => ~IsSent(request_sent[c])
  <2> SUFFICES ASSUME NEW c \in Infos, "OUT" \in Reported(c)
               PROVE  ~IsSent(request_sent[c])
    OBVIOUS
  <2>1. "OUT" \in interest[c]
    BY DEF Reported
  <2>2. Conversation(c)
    <3>1. c \in Used
      BY <1>1, <2>1, StaysIntact DEF Registered
    <3> QED BY <1>1, <3>1 DEF CycleInv
  <2> QED BY <2>1, <2>2 DEF Conversation
<1>7. \A k \in DOMAIN events' : "OUT" \in events'[k].flags => ~IsSent(request_sent[events'[k].info])
  <2> HIDE DEF ready
  <2> QED BY <1>5, <1>6
<1> QED BY <1>1, <1>2, <1>7 DEF CycleInv, infoVars, IsSent

LEMMA NetworkConversation ==
  ASSUME ServerAnswersOnly, WaitsSucceed, IInv, CycleInv, NetworkStep
  PROVE  CycleInv'
<1>1. /\ pc # "exit" /\ UNCHANGED <<loopVars, runVars, infoVars>> /\ UNCHANGED interest
  BY DEF NetworkStep, Ended, Network, Establish, Refuse, Drain, Respond, RespondUnasked, Finish, Reset
<1>2. PICK c \in Infos : Network(c)
  BY DEF NetworkStep
<1>3. sock[c] \in Socket /\ sock \in [Infos -> Socket] /\ seen[c] \in 0..RspLen
  BY DEF IInv, TypeOK
<1>4. /\ sock[c].rx \in Nat /\ sock[c].owed \in Nat
      /\ sock[c].st \in {"connecting", "open"}
  <2>1. sock[c].st \in {"connecting", "open"}
    BY <1>2 DEF Network, Establish, Refuse, Drain, Respond, RespondUnasked, Finish, Reset
  <2> QED BY <1>3, <2>1, SocketsAssumption DEF Socket
<1>5. Conversation(c)
  <2>1. c \in Used
    BY <1>1, <1>4, StaysIntact DEF IInv, PoolConsistent
  <2> QED BY <1>1, <2>1 DEF CycleInv
<1>6. /\ \A d \in Infos \ {c} : sock'[d] = sock[d]
      /\ sock'[c].got = sock[c].got
      /\ \/ sock'[c].rx = sock[c].rx /\ sock'[c].owed \in {0, sock[c].owed}
         \/ /\ sock[c].owed > 0
            /\ sock'[c].rx = sock[c].rx + 1 /\ sock'[c].owed = sock[c].owed - 1
  <2>1. CASE Establish(c)
    BY <1>3, <2>1 DEF Establish, Socket
  <2>2. CASE Refuse(c)
    BY <1>3, <2>2 DEF Refuse, Socket
  <2>3. CASE Drain(c)
    BY <1>3, <2>3 DEF Drain, Socket
  <2>4. CASE Respond(c)
    BY <1>3, <2>4 DEF Respond, Socket
  <2>5. CASE Finish(c)
    BY <1>3, <2>5 DEF Finish, Socket
  <2>6. CASE Reset(c)
    BY <1>3, <2>6 DEF Reset, Socket
  <2>7. ~RespondUnasked(c)
    BY DEF RespondUnasked, ServerAnswersOnly
  <2> QED BY <1>2, <2>1, <2>2, <2>3, <2>4, <2>5, <2>6, <2>7 DEF Network
<1>7. sock'[c].rx \in Nat /\ sock'[c].owed \in Nat
  BY <1>4, <1>6
<1>8. Conversation(c)'
  BY <1>1, <1>3, <1>4, <1>5, <1>6, <1>7, SocketsAssumption DEF Conversation, IsSent, infoVars
<1>9. \A d \in Used' : Conversation(d)'
  <2> SUFFICES ASSUME NEW d \in Used', d # c PROVE Conversation(d)'
    BY <1>8
  <2>1. d \in Used /\ d \in Infos \ {c}
    BY <1>1 DEF Used, runVars
  <2>2. Conversation(d)
    BY <1>1, <2>1 DEF CycleInv
  <2> QED BY <1>1, <1>6, <2>1, <2>2 DEF Conversation, IsSent, infoVars
<1> QED BY <1>1, <1>9 DEF CycleInv, IsSent, loopVars, batchVars, infoVars

LEMMA StepConversation ==
  ASSUME ServerAnswersOnly, WaitsSucceed, IInv, CycleInv, [Next]_vars
  PROVE  CycleInv'
<1>1. CASE ConnectFails \/ CreateFatal \/ CreateDone \/ ReadPastEvents
  BY <1>1, QuietConversation DEF ConnectFails, CreateFatal, CreateDone, ReadPastEvents, Creating
<1>3. ~WaitFails
  BY DEF WaitFails, WaitsSucceed
<1>2. CASE UNCHANGED vars
  BY <1>2 DEF vars, sockVars, loopVars, batchVars, runVars, infoVars, CycleInv, Conversation, Used, IsSent
<1> QED BY <1>1, <1>2, <1>3, CreateConnectionConversation, WaitConversation, ServeEventConversation,
           NetworkConversation DEF Next, Worker, Terminated

LEMMA InitConversation == ASSUME Init PROVE CycleInv
BY DEF Init, CycleInv, Used

(* Conversations stay in order, as long as no epoll_wait() fails. *)
THEOREM ConversationInvariance == ServerAnswersOnly /\ WaitsSucceed => (Spec => [](IInv /\ CycleInv))
<1> SUFFICES ASSUME ServerAnswersOnly, WaitsSucceed PROVE Spec => [](IInv /\ CycleInv)
  OBVIOUS
<1>1. Init => IInv /\ CycleInv
  BY InitInv, InitConversation
<1>2. IInv /\ CycleInv /\ [Next]_vars => (IInv /\ CycleInv)'
  BY StepInv, StepConversation
<1> QED BY <1>1, <1>2, PTL DEF Spec

(* As long as no epoll_wait() fails, EPOLLOUT is asked for exactly while part *)
(* of a request is unsent.                                                    *)
THEOREM InterestFollowsRequest == ServerAnswersOnly /\ WaitsSucceed => (Spec => []InterestMatches)
<1> SUFFICES ASSUME ServerAnswersOnly, WaitsSucceed PROVE Spec => []InterestMatches
  OBVIOUS
<1>1. IInv /\ CycleInv => InterestMatches
  BY DEF InterestMatches, CycleInv, Conversation
<1> QED BY <1>1, ConversationInvariance, PTL

(* As long as no epoll_wait() fails, the server has of the current request    *)
(* what the program has sent of it.                                           *)
THEOREM StreamStaysAligned == ServerAnswersOnly /\ WaitsSucceed => (Spec => []StreamAligned)
<1> SUFFICES ASSUME ServerAnswersOnly, WaitsSucceed PROVE Spec => []StreamAligned
  OBVIOUS
<1>1. IInv /\ CycleInv => StreamAligned
  <2> SUFFICES ASSUME IInv, CycleInv, pc # "exit", NEW c \in Used
               PROVE  sock[c].got = request_sent[c] % ReqLen
    BY DEF StreamAligned
  <2>1. /\ ReqLen \in Nat \ {0} /\ request_sent[c] \in 0..ReqLen
        /\ sock[c].got = IF request_sent[c] >= ReqLen THEN 0 ELSE request_sent[c]
    BY SocketsAssumption DEF IInv, TypeOK, CycleInv, Conversation, Used, IsSent
  <2>2. CASE request_sent[c] = ReqLen
    <3>1. ReqLen % ReqLen = 0
      BY <2>1
    <3> QED BY <2>1, <2>2, <3>1
  <2>3. CASE request_sent[c] < ReqLen
    BY <2>1, <2>3
  <2> QED BY <2>1, <2>2, <2>3
<1> QED BY <1>1, ConversationInvariance, PTL

------------------------------------------------------------------------------
(* Where send() takes a request whole or not at all, the parser is ready for  *)
(* every response that is owed.                                               *)
WholeSends == "partial" \notin Faults

(* A request is unsent on a connection whose parser was not cleared only when *)
(* nothing can be sent on it any more; and after the end of the stream there  *)
(* is no more to read than the response still lacks.                          *)
Attentive(c) ==
  LET s == sock[c]
  IN /\ ~s.wfull
     /\ s.st = "open" /\ ~s.fin /\ IsSent(request_sent[c]) => seen[c] + s.rx + s.owed = RspLen
     /\ ~IsSent(request_sent[c]) /\ s.st \in {"connecting", "open"} => seen[c] = 0 \/ s.wrshut
     /\ s.st = "connecting" => ~IsSent(request_sent[c])
     /\ s.st = "open" /\ IsSent(request_sent[c]) => seen[c] + s.rx + s.owed <= RspLen
     /\ s.wrshut => IsShutdown

ReadyInv == \A c \in Used : Attentive(c)

(* One send() on a connection nothing was sent on since the last response.    *)
LEMMA WholeSend ==
  ASSUME WholeSends, NEW s \in Socket, NEW sent \in 0..(ReqLen - 1),
         NEW k \in SendResults(s, ReqLen - sent), ~s.wfull
  PROVE  LET units == Sent(sent, k)
             after == AfterSend(s, ReqLen - sent, k)
         IN /\ ~after.wfull /\ after.st = s.st /\ after.fin = s.fin /\ after.wrshut = s.wrshut
            /\ IsSent(units) => s.st = "open" /\ ~s.wrshut
            /\ ~IsSent(units) => s.st # "open" \/ s.wrshut
<1> DEFINE rem == ReqLen - sent
<1>1. ReqLen \in Nat \ {0} /\ rem \in Nat \ {0} /\ rem + sent = ReqLen /\ s.wfull = FALSE
  BY SocketsAssumption DEF Socket
<1>2. CASE s.st # "open" \/ s.wrshut
  <2>1. k = -1
    BY <1>1, <1>2 DEF SendResults
  <2> QED BY <1>1, <1>2, <2>1 DEF Sent, IsSent, AfterSend, Socket
<1>3. CASE s.st = "open" /\ ~s.wrshut
  <2>1. k = rem
    BY <1>1, <1>3 DEF SendResults, WholeSends
  <2>2. k > 0 /\ Sent(sent, k) = ReqLen
    BY <1>1, <2>1 DEF Sent
  <2>3. /\ AfterSend(s, rem, k).wfull = FALSE
        /\ AfterSend(s, rem, k).st = s.st /\ AfterSend(s, rem, k).fin = s.fin
        /\ AfterSend(s, rem, k).wrshut = s.wrshut
    BY <1>1, <2>1, <2>2 DEF AfterSend, Socket
  <2> QED BY <1>1, <1>3, <2>2, <2>3 DEF IsSent
<1> QED BY <1>2, <1>3

(* What is left to show of an action that changes one connection.             *)
LEMMA OneAttentive ==
  ASSUME ReadyInv, NEW c \in Infos,
         \A d \in Infos \ {c} : /\ sock'[d] = sock[d] /\ seen'[d] = seen[d]
                                /\ request_sent'[d] = request_sent[d],
         Used' \subseteq Used \cup {c},
         c \in Used' => Attentive(c)'
  PROVE  ReadyInv'
<1> SUFFICES ASSUME NEW d \in Used', d # c PROVE Attentive(d)'
  BY DEF ReadyInv
<1>1. d \in Used /\ d \in Infos \ {c}
  BY DEF Used
<1>2. Attentive(d)
  BY <1>1 DEF ReadyInv
<1> QED BY <1>1, <1>2 DEF Attentive, IsSent

LEMMA ServeOutReady ==
  ASSUME WaitsSucceed, WholeSends, IInv, CycleInv, ReadyInv, NEW c \in Infos, NEW flags, ServeOut(c, c, flags)
  PROVE  ReadyInv'
<1>1. Serving(c, c, flags) /\ "OUT" \in flags /\ UNCHANGED <<concurrency, freed, seen>>
  BY DEF ServeOut
<1>2. /\ c \in Used /\ Conversation(c) /\ Attentive(c) /\ sock[c] \in Socket
      /\ request_sent[c] \in 0..(ReqLen - 1) /\ ~IsSent(request_sent[c]) /\ seen[c] \in 0..RspLen
  BY <1>1, ServingFacts, SocketsAssumption DEF IsSent, ReadyInv
<1>3. sock[c].got = request_sent[c] /\ sock[c].owed = 0 /\ sock[c].rx = 0 /\ ~sock[c].wfull
  BY <1>2 DEF Conversation, Attentive
<1> DEFINE rem == ReqLen - request_sent[c]
<1>4. PICK k \in SendResults(sock[c], rem) :
        LET units == Sent(request_sent[c], k)
            after == AfterSend(sock[c], rem, k)
        IN /\ request_sent' = [request_sent EXCEPT ![c] = units]
           /\ sock' = [sock EXCEPT ![c] =
                         IF IsSent(units) /\ IsShutdown THEN Shutdown(after) ELSE after]
  BY DEF ServeOut
<1> DEFINE units == Sent(request_sent[c], k)
           after == AfterSend(sock[c], rem, k)
           new   == IF IsSent(units) /\ IsShutdown THEN Shutdown(after) ELSE after
<1>5. /\ after.owed = IF IsSent(units) THEN RspLen ELSE 0
      /\ after.rx = 0
  BY <1>2, <1>3, SendConversation
<1>6. /\ ~after.wfull /\ after.st = sock[c].st /\ after.fin = sock[c].fin
      /\ after.wrshut = sock[c].wrshut
      /\ IsSent(units) => sock[c].st = "open" /\ ~sock[c].wrshut
      /\ ~IsSent(units) => sock[c].st # "open" \/ sock[c].wrshut
  BY <1>2, <1>3, WholeSend
<1>7. after \in Socket
  <2>1. rem \in Int /\ k \in Int
    BY <1>2, SocketsAssumption DEF SendResults
  <2> HIDE DEF rem
  <2> QED BY <1>2, <2>1, AfterSendType
<1>8. /\ new.owed = after.owed /\ new.rx = after.rx /\ new.st = after.st /\ new.fin = after.fin
      /\ new.wfull = after.wfull
      /\ ~IsSent(units) => new.wrshut = after.wrshut
      /\ new.wrshut => after.wrshut \/ IsShutdown
  <2> HIDE DEF after, units
  <2> QED BY <1>7 DEF Shutdown, Socket
<1>9. sock' = [sock EXCEPT ![c] = new] /\ request_sent' = [request_sent EXCEPT ![c] = units]
  BY <1>4
<1> HIDE DEF units, after, new, rem
<1>10. /\ sock'[c] = new /\ request_sent'[c] = units /\ seen'[c] = seen[c]
       /\ \A d \in Infos \ {c} :
            sock'[d] = sock[d] /\ request_sent'[d] = request_sent[d] /\ seen'[d] = seen[d]
  BY <1>1, <1>9 DEF IInv, TypeOK
<1>11. Attentive(c)'
  <2>1. IsSent(request_sent[c])' <=> IsSent(units)
    BY <1>10 DEF IsSent
  <2>2. CASE IsSent(units)
    <3>1. /\ new.owed = RspLen /\ new.rx = 0 /\ new.st = "open" /\ ~new.wfull /\ seen[c] = 0
          /\ new.wrshut => IsShutdown
      BY <1>2, <1>5, <1>6, <1>8, <2>2 DEF Attentive
    <3> QED BY <1>10, <2>1, <2>2, <3>1, SocketsAssumption DEF Attentive
  <2>3. CASE ~IsSent(units)
    <3>1. /\ new.st = sock[c].st /\ new.wrshut = sock[c].wrshut /\ ~new.wfull
          /\ sock[c].wrshut => IsShutdown
          /\ sock[c].st = "connecting" => ~IsSent(units)
          /\ sock[c].st \in {"connecting", "open"} => seen[c] = 0 \/ sock[c].wrshut
      BY <1>2, <1>6, <1>8, <2>3 DEF Attentive
    <3> QED BY <1>10, <2>1, <2>3, <3>1 DEF Attentive
  <2> QED BY <2>2, <2>3
<1>12. Used' = Used
  BY <1>1 DEF Used
<1> QED BY <1>10, <1>11, <1>12, OneAttentive

LEMMA RecvAndResendReady ==
  ASSUME WaitsSucceed, WholeSends, IInv, CycleInv, ReadyInv, NEW c \in Infos, NEW flags, RecvAndResend(c, c, flags)
  PROVE  ReadyInv'
<1> DEFINE bytes == RecvResult(sock[c])
<1>1. /\ Serving(c, c, flags) /\ UNCHANGED <<concurrency, freed, is_connected>>
      /\ bytes > 0 /\ seen[c] + bytes = RspLen
  BY DEF RecvAndResend, ResponseComplete, Receiving
<1>2. /\ c \in Used /\ Conversation(c) /\ Attentive(c) /\ sock[c] \in Socket
      /\ request_sent[c] \in 0..ReqLen /\ seen[c] \in 0..RspLen
  BY <1>1, ServingFacts DEF ReadyInv
<1>3. bytes \in Int /\ sock[c].rx \in Nat /\ sock[c].owed \in Nat /\ bytes <= sock[c].rx
  BY <1>1, <1>2, SocketsAssumption DEF RecvResult, Socket
<1>4. /\ IsSent(request_sent[c]) /\ sock[c].got = 0 /\ sock[c].owed = 0 /\ sock[c].rx = bytes
      /\ sock[c].st # "connecting"
  <2> HIDE DEF bytes
  <2> QED BY <1>1, <1>2, <1>3, SocketsAssumption DEF Conversation, Attentive
<1> DEFINE drained == AfterRecv(sock[c])
           left    == ReqLen - SendInit(c)
<1>5. /\ drained \in Socket /\ drained.got = 0 /\ drained.owed = 0 /\ drained.rx = 0
      /\ drained.st = sock[c].st /\ ~drained.wfull /\ drained.wrshut = sock[c].wrshut
  <2>1. drained \in Socket
    BY <1>2, AfterRecvType
  <2>2. drained = [sock[c] EXCEPT !.rx = sock[c].rx - bytes]
    BY <1>1, <1>3 DEF AfterRecv
  <2> HIDE DEF bytes, drained
  <2>3. /\ drained.got = sock[c].got /\ drained.owed = sock[c].owed
        /\ drained.rx = sock[c].rx - bytes /\ drained.st = sock[c].st
        /\ drained.wfull = sock[c].wfull /\ drained.wrshut = sock[c].wrshut
    BY <1>2, <2>2 DEF Socket
  <2> QED BY <1>2, <1>3, <1>4, <2>1, <2>3 DEF Attentive
<1>6. PICK k \in SendResults(drained, left) :
        LET units == Sent(SendInit(c), k)
        IN /\ request_sent' = [request_sent EXCEPT ![c] = units]
           /\ sock' = [sock EXCEPT ![c] = AfterSend(drained, left, k)]
           /\ seen' = [seen EXCEPT ![c] = SeenAfterResend(units)]
  BY DEF RecvAndResend
<1> DEFINE units == Sent(SendInit(c), k)
           new   == AfterSend(drained, left, k)
<1>7. /\ new.owed = IF IsSent(units) THEN RspLen ELSE 0
      /\ new.rx = 0
      /\ ~new.wfull /\ new.st = drained.st /\ new.wrshut = drained.wrshut
      /\ ~IsSent(units) => drained.st # "open" \/ drained.wrshut
  <2>1. SendInit(c) = 0 /\ 0 \in 0..(ReqLen - 1)
    BY SocketsAssumption DEF SendInit
  <2> HIDE DEF drained
  <2> QED BY <1>5, <2>1, SendConversation, WholeSend
<1>8. /\ sock' = [sock EXCEPT ![c] = new] /\ request_sent' = [request_sent EXCEPT ![c] = units]
      /\ seen' = [seen EXCEPT ![c] = SeenAfterResend(units)]
  BY <1>6
<1> HIDE DEF units, new, drained, left, bytes
<1>9. /\ sock'[c] = new /\ request_sent'[c] = units /\ seen'[c] = SeenAfterResend(units)
      /\ \A d \in Infos \ {c} :
           sock'[d] = sock[d] /\ request_sent'[d] = request_sent[d] /\ seen'[d] = seen[d]
  BY <1>8 DEF IInv, TypeOK
<1>10. Attentive(c)'
  BY <1>2, <1>4, <1>5, <1>7, <1>9, SocketsAssumption DEF Attentive, IsSent, SeenAfterResend
<1>11. Used' = Used
  BY <1>1 DEF Used
<1> QED BY <1>9, <1>10, <1>11, OneAttentive

LEMMA RecvPartReady ==
  ASSUME WaitsSucceed, IInv, CycleInv, ReadyInv, NEW c \in Infos, NEW flags, RecvPart(c, c, flags), "HUP" \notin flags
  PROVE  ReadyInv'
<1> DEFINE bytes == RecvResult(sock[c])
           new   == AfterRecv(sock[c])
<1>1. /\ Serving(c, c, flags) /\ UNCHANGED <<interest, runVars, request_sent>>
      /\ bytes > 0 /\ seen[c] + bytes < RspLen
      /\ seen' = [seen EXCEPT ![c] = @ + bytes]
      /\ sock' = [sock EXCEPT ![c] = new]
  BY DEF RecvPart, Receiving
<1>2. /\ c \in Used /\ Conversation(c) /\ Attentive(c) /\ sock[c] \in Socket
      /\ request_sent[c] \in 0..ReqLen /\ seen[c] \in 0..RspLen
  BY <1>1, ServingFacts DEF ReadyInv
<1>3. bytes \in Int /\ sock[c].rx \in Nat /\ sock[c].owed \in Nat /\ bytes <= sock[c].rx
  BY <1>1, <1>2, SocketsAssumption DEF RecvResult, Socket
<1>4. /\ new.owed = sock[c].owed /\ new.rx = sock[c].rx - bytes /\ new.st = sock[c].st
      /\ new.fin = sock[c].fin /\ new.wfull = sock[c].wfull /\ new.wrshut = sock[c].wrshut
  <2>1. new = [sock[c] EXCEPT !.rx = sock[c].rx - bytes]
    BY <1>1, <1>3 DEF AfterRecv
  <2> HIDE DEF bytes, new
  <2> QED BY <1>2, <2>1 DEF Socket
<1> HIDE DEF bytes, new
<1>5. /\ sock'[c] = new /\ seen'[c] = seen[c] + bytes /\ request_sent'[c] = request_sent[c]
      /\ \A d \in Infos \ {c} :
           sock'[d] = sock[d] /\ request_sent'[d] = request_sent[d] /\ seen'[d] = seen[d]
  BY <1>1 DEF IInv, TypeOK
<1>6. IsSent(request_sent[c])
  BY <1>1, <1>2, <1>3 DEF Conversation
<1>7. Attentive(c)'
  BY <1>2, <1>3, <1>4, <1>5, <1>6, SocketsAssumption DEF Attentive, IsSent
<1>8. Used' = Used
  BY <1>1 DEF Used, runVars
<1> QED BY <1>5, <1>7, <1>8, OneAttentive

LEMMA ClosingReady ==
  ASSUME WaitsSucceed, IInv, ReadyInv, NEW c \in Infos, NEW flags, NEW names,
         Serving(c, c, flags), CloseSlot(c, c, names), NextEvent,
         \A d \in Infos \ {c} : request_sent'[d] = request_sent[d] /\ seen'[d] = seen[d]
  PROVE  ReadyInv'
<1>1. c \in Used
  BY ServesOwn
<1>2. Used' = Used \ {c}
  BY DEF CloseSlot, Used, IInv, TypeOK
<1>3. \A d \in Infos \ {c} : sock'[d] = sock[d]
  BY DEF CloseSlot, IInv, TypeOK
<1> QED BY <1>2, <1>3, OneAttentive

LEMMA ServeEventReady ==
  ASSUME WaitsSucceed, WholeSends, IInv, CycleInv, ReadyInv, ServeEvent
  PROVE  ReadyInv'
<1>1. PICK c \in Infos, flags \in {Head(events).flags} :
        \/ ServeOut(c, c, flags) \/ ServeError(c, c, flags) \/ RecvFails(c, c, flags)
        \/ RecvEnd(c, c, flags) \/ RecvPipelined(c, c, flags) \/ RecvPart(c, c, flags)
        \/ RecvLast(c, c, flags) \/ RecvAndResend(c, c, flags) \/ ServeHangup(c, c, flags)
  BY ServeEventOwn
<1>2. CASE ServeError(c, c, flags)
  BY <1>2 DEF ServeError, ExitOnError, ReadyInv, Attentive, Used, IsSent, infoVars
<1>3. CASE RecvFails(c, c, flags)
  <2>1. /\ Serving(c, c, flags) /\ ExitOnError(c) /\ RecvResult(sock[c]) < 0
        /\ sock' = [sock EXCEPT ![c] = AfterRecv(sock[c])]
    BY <1>3 DEF RecvFails, Receiving
  <2>2. c \in Used /\ sock[c] \in Socket /\ Attentive(c)
    BY <2>1, ServingFacts DEF ReadyInv
  <2>3. AfterRecv(sock[c]) = [sock[c] EXCEPT !.err = FALSE]
    BY <2>1, <2>2, SocketsAssumption DEF AfterRecv, RecvResult, Socket
  <2>4. \A f \in {"st", "rx", "fin", "wrshut", "wfull", "owed"} : AfterRecv(sock[c])[f] = sock[c][f]
    BY <2>2, <2>3 DEF Socket
  <2>5. /\ sock'[c] = AfterRecv(sock[c]) /\ seen'[c] = seen[c] /\ request_sent'[c] = request_sent[c]
        /\ \A d \in Infos \ {c} :
             sock'[d] = sock[d] /\ request_sent'[d] = request_sent[d] /\ seen'[d] = seen[d]
        /\ Used' = Used
    BY <2>1 DEF ExitOnError, infoVars, Used, IInv, TypeOK
  <2>6. Attentive(c)'
    <3> HIDE <2>3
    <3> QED BY <2>2, <2>4, <2>5 DEF Attentive, IsSent
  <2> QED BY <2>5, <2>6, OneAttentive
<1>4. CASE RecvEnd(c, c, flags)
  <2>1. /\ Serving(c, c, flags) /\ NextEvent /\ UNCHANGED infoVars
        /\ CloseSlot(c, c, {IF "HUP" \in flags THEN "hangup" ELSE "read"})
    BY <1>4 DEF RecvEnd, Receiving
  <2> QED BY <2>1, ClosingReady DEF infoVars
<1>5. CASE ServeHangup(c, c, flags)
  <2>1. /\ Serving(c, c, flags) /\ NextEvent /\ UNCHANGED infoVars /\ CloseSlot(c, c, {"hangup"})
    BY <1>5 DEF ServeHangup
  <2> QED BY <2>1, ClosingReady DEF infoVars
<1>6. CASE RecvPipelined(c, c, flags)
  <2>1. /\ Serving(c, c, flags) /\ NextEvent /\ CloseSlot(c, c, {"hangup2"})
        /\ seen' = [seen EXCEPT ![c] = RspLen] /\ UNCHANGED request_sent
    BY <1>6 DEF RecvPipelined, Receiving
  <2> QED BY <2>1, ClosingReady DEF IInv, TypeOK
<1>7. CASE RecvLast(c, c, flags)
  <2>1. /\ Serving(c, c, flags) /\ NextEvent /\ CloseSlot(c, c, {"recved", "hangup"})
        /\ seen' = [seen EXCEPT ![c] = RspLen] /\ UNCHANGED request_sent
    BY <1>7 DEF RecvLast, ResponseComplete, Receiving
  <2> QED BY <2>1, ClosingReady DEF IInv, TypeOK
<1>8. CASE RecvPart(c, c, flags) /\ "HUP" \in flags
  <2>1. /\ Serving(c, c, flags) /\ NextEvent /\ CloseSlot(c, c, {"unknown"})
        /\ \E bytes : seen' = [seen EXCEPT ![c] = @ + bytes]
        /\ UNCHANGED request_sent
    BY <1>8 DEF RecvPart, Receiving
  <2> QED BY <2>1, ClosingReady DEF IInv, TypeOK
<1> QED BY <1>1, <1>2, <1>3, <1>4, <1>5, <1>6, <1>7, <1>8, ServeOutReady,
           RecvPartReady, RecvAndResendReady

LEMMA NetworkReady ==
  ASSUME ServerAnswersOnly, WaitsSucceed, IInv, CycleInv, ReadyInv, NetworkStep
  PROVE  ReadyInv'
<1>1. /\ pc # "exit" /\ UNCHANGED <<loopVars, runVars, infoVars>>
  BY DEF NetworkStep, Ended
<1>2. PICK c \in Infos : Network(c)
  BY DEF NetworkStep
<1>3. sock[c] \in Socket /\ sock \in [Infos -> Socket] /\ sock[c].st \in {"connecting", "open"}
  BY <1>2 DEF Network, Establish, Refuse, Drain, Respond, RespondUnasked, Finish, Reset, IInv, TypeOK
<1>4. c \in Used /\ Conversation(c) /\ Attentive(c)
  <2>1. c \in Used
    BY <1>1, <1>3, StaysIntact DEF IInv, PoolConsistent
  <2> QED BY <1>1, <2>1 DEF CycleInv, ReadyInv
<1>5. /\ seen[c] \in 0..RspLen /\ sock[c].rx \in Nat /\ sock[c].owed \in Nat
  BY <1>3, SocketsAssumption DEF IInv, TypeOK, Socket
<1>6. /\ \A d \in Infos \ {c} : sock'[d] = sock[d]
      /\ ~sock'[c].wfull /\ sock'[c].wrshut = sock[c].wrshut /\ sock'[c].st # "connecting"
      /\ \/ /\ sock[c].st = "connecting" /\ sock'[c].st = "open"
         \/ sock'[c].st \in {"failed", "reset"}
         \/ /\ sock[c].st = "open" /\ sock'[c].st = "open"
            /\ \/ sock'[c].fin /\ sock'[c].rx = sock[c].rx /\ sock'[c].owed = 0
               \/ /\ ~sock[c].fin
                  /\ sock'[c].rx = sock[c].rx + 1 /\ sock'[c].owed = sock[c].owed - 1
  <2>1. CASE Establish(c)
    BY <1>3, <1>4, <2>1 DEF Establish, Socket, Attentive
  <2>2. CASE Refuse(c)
    BY <1>3, <1>4, <2>2 DEF Refuse, Socket, Attentive
  <2>3. ~Drain(c)
    BY <1>4 DEF Drain, Attentive
  <2>4. CASE Respond(c)
    BY <1>3, <1>4, <2>4 DEF Respond, Socket, Attentive
  <2>5. CASE Finish(c)
    BY <1>3, <1>4, <2>5 DEF Finish, Socket, Attentive
  <2>6. CASE Reset(c)
    BY <1>3, <1>4, <2>6 DEF Reset, Socket, Attentive
  <2>7. ~RespondUnasked(c)
    BY DEF RespondUnasked, ServerAnswersOnly
  <2> QED BY <1>2, <2>1, <2>2, <2>3, <2>4, <2>5, <2>6, <2>7 DEF Network
<1>7. /\ seen'[c] = seen[c] /\ request_sent'[c] = request_sent[c]
      /\ \A d \in Infos \ {c} : request_sent'[d] = request_sent[d] /\ seen'[d] = seen[d]
      /\ Used' = Used
  BY <1>1 DEF infoVars, runVars, Used
<1>8. Attentive(c)'
  <2>1. CASE sock[c].st = "connecting" /\ sock'[c].st = "open"
    <3>1. /\ ~IsSent(request_sent[c]) /\ (seen[c] = 0 \/ sock[c].wrshut)
          /\ sock[c].wrshut => IsShutdown
      BY <1>4, <2>1 DEF Attentive
    <3> QED BY <1>6, <1>7, <2>1, <3>1 DEF Attentive, IsSent
  <2>2. CASE sock'[c].st \in {"failed", "reset"}
    BY <1>4, <1>6, <1>7, <2>2 DEF Attentive
  <2>3. CASE sock[c].st = "open" /\ sock'[c].st = "open"
    <3>1. IsSent(request_sent[c])' <=> IsSent(request_sent[c])
      BY <1>7 DEF IsSent
    <3>2. CASE IsSent(request_sent[c])
      BY <1>4, <1>5, <1>6, <1>7, <2>3, <3>1, <3>2, SocketsAssumption DEF Attentive
    <3>3. CASE ~IsSent(request_sent[c])
      BY <1>4, <1>6, <1>7, <2>3, <3>1, <3>3 DEF Attentive
    <3> QED BY <3>2, <3>3
  <2> QED BY <1>6, <2>1, <2>2, <2>3
<1> QED BY <1>6, <1>7, <1>8, OneAttentive

LEMMA StepReady ==
  ASSUME ServerAnswersOnly, WaitsSucceed, WholeSends, IInv, CycleInv, ReadyInv, [Next]_vars
  PROVE  ReadyInv'
<1>1. CASE UNCHANGED <<sock, freed, request_sent, seen>>
  BY <1>1 DEF ReadyInv, Attentive, Used, IsSent
<1>2. CASE ConnectFails \/ CreateFatal \/ CreateDone \/ Wait \/ ReadPastEvents \/ WaitFails
  BY <1>1, <1>2 DEF ConnectFails, CreateFatal, CreateDone, Wait, ReadPastEvents, WaitFails,
                    sockVars, runVars, infoVars
<1>3. CASE UNCHANGED vars
  BY <1>1, <1>3 DEF vars, sockVars, runVars, infoVars
<1>4. CASE CreateConnection
  <2>1. CASE freed = {}
    BY <1>1, <1>4, <2>1 DEF CreateConnection, sockVars, runVars, infoVars
  <2>2. CASE freed # {}
    <3>1. PICK c \in freed : OpenSlot(c)
      BY <1>4, <2>2 DEF CreateConnection
    <3>2. c \in Infos /\ Used' = Used \cup {c}
      BY <3>1 DEF OpenSlot, Used, IInv, TypeOK
    <3>3. /\ sock'[c] = NewSocket("connecting") /\ request_sent'[c] = 0 /\ seen'[c] = 0
          /\ \A d \in Infos \ {c} :
               sock'[d] = sock[d] /\ request_sent'[d] = request_sent[d] /\ seen'[d] = seen[d]
      BY <3>1, <3>2 DEF OpenSlot, IInv, TypeOK
    <3>4. Attentive(c)'
      BY <3>3, SocketsAssumption DEF Attentive, IsSent, NewSocket
    <3> QED BY <3>2, <3>3, <3>4, OneAttentive
  <2> QED BY <2>1, <2>2
<1> QED BY <1>2, <1>3, <1>4, ServeEventReady, NetworkReady DEF Next, Worker, Terminated

(* With whole sends, a server that only answers and no failing epoll_wait(),  *)
(* a connection that awaits the rest of a response has exactly the room for   *)
(* it in its parser.                                                          *)
THEOREM ParserStaysReady == ServerAnswersOnly /\ WaitsSucceed /\ WholeSends => (Spec => []ParserReady)
<1> SUFFICES ASSUME ServerAnswersOnly, WaitsSucceed, WholeSends PROVE Spec => []ParserReady
  OBVIOUS
<1>1. Init => ReadyInv
  BY DEF Init, ReadyInv, Used
<1>2. IInv /\ CycleInv /\ ReadyInv /\ [Next]_vars => ReadyInv'
  BY StepReady
<1>3. ReadyInv => ParserReady
  BY DEF ReadyInv, Attentive, ParserReady
<1> QED BY <1>1, <1>2, <1>3, ConversationInvariance, PTL DEF Spec

------------------------------------------------------------------------------
(* EPOLLHUP comes with data still to be read only from epoll, and only after  *)
(* the program has closed its side.                                           *)
HupIsLast == Backend = "wepoll" \/ ~IsShutdown

HupInv == \A k \in DOMAIN events : "HUP" \in events[k].flags => Dead(sock[events[k].info])

LEMMA EventInfos ==
  ASSUME IInv
  PROVE  \A k \in DOMAIN events : events[k].info \in Infos
<1>1. events \in Seq(Events)
  BY DEF IInv, TypeOK
<1>2. \A k \in DOMAIN events : events[k] \in Events
  BY <1>1
<1> QED BY <1>2 DEF Events

(* What is left to show of an action that serves an event. *)
LEMMA ServingHup ==
  ASSUME WaitsSucceed, IInv, HupInv, NEW c \in Infos, NEW flags, Serving(c, c, flags), NextEvent,
         \A d \in Infos \ {c} : sock'[d] = sock[d]
  PROVE  HupInv'
<1>1. events # <<>> /\ events \in Seq(Events) /\ events' = Tail(events)
  BY DEF IInv, TypeOK, Serving, NextEvent
<1>2. \A k \in DOMAIN events' : k + 1 \in DOMAIN events /\ events'[k] = events[k + 1]
  BY <1>1
<1>3. \A k \in DOMAIN events' : events'[k].info \in Infos \ {c}
  <2>1. Intact
    BY StaysIntact DEF Serving
  <2> QED BY <2>1, NextEventInv DEF Used
<1> QED BY <1>2, <1>3 DEF HupInv, Dead

LEMMA WaitHup ==
  ASSUME HupIsLast, WaitsSucceed, IInv, ReadyInv, Wait
  PROVE  HupInv'
<1>1. pc = "wait" /\ UNCHANGED sockVars
  BY DEF Wait
<1> DEFINE ready == {c \in Infos : Reported(c) # {}}
<1>2. PICK order \in SetToSeqs(ready) :
        events' = [k \in DOMAIN order |->
                     [info |-> order[k], flags |-> Reported(order[k])]]
  BY DEF Wait
<1>3. \A k \in DOMAIN order : order[k] \in ready
  <2> HIDE DEF ready
  <2> QED BY DEF SetToSeqs
<1>4. \A k \in DOMAIN events' : /\ events'[k].info \in ready
                                /\ events'[k].flags = Reported(events'[k].info)
  <2> HIDE DEF ready
  <2> QED BY <1>2, <1>3
<1>5. \A c \in ready : "HUP" \in Reported(c) => Dead(sock[c])
  <2> SUFFICES ASSUME NEW c \in Infos, "HUP" \in Reported(c), ~Dead(sock[c])
               PROVE  FALSE
    OBVIOUS
  <2>1. sock[c].wrshut /\ sock[c].st = "open" /\ Backend = "epoll" /\ interest[c] # {}
    BY DEF Reported, Ready
  <2>2. Attentive(c)
    <3>1. c \in Used
      BY <1>1, <2>1, StaysIntact DEF Registered
    <3> QED BY <3>1 DEF ReadyInv
  <2> QED BY <2>1, <2>2 DEF Attentive, HupIsLast
<1> HIDE DEF ready
<1> QED BY <1>1, <1>4, <1>5 DEF HupInv, Dead, sockVars

LEMMA StepHup ==
  ASSUME HupIsLast, WaitsSucceed, IInv, CycleInv, ReadyInv, HupInv, [Next]_vars
  PROVE  HupInv'
<1>1. CASE UNCHANGED <<sock, events>>
  BY <1>1 DEF HupInv, Dead
<1>2. CASE ConnectFails \/ CreateFatal \/ CreateDone \/ ReadPastEvents \/ UNCHANGED vars
  BY <1>1, <1>2 DEF ConnectFails, CreateFatal, CreateDone, ReadPastEvents,
                    vars, loopVars, batchVars, sockVars
<1>6. ~WaitFails
  BY DEF WaitFails, WaitsSucceed
<1>3. CASE CreateConnection
  <2>1. events' = <<>>
    BY <1>3 DEF CreateConnection, Creating, batchVars, IInv, LoopControl
  <2> QED BY <2>1 DEF HupInv
<1>4. CASE NetworkStep
  <2>1. UNCHANGED events /\ \E c \in Infos : Network(c)
    BY <1>4 DEF NetworkStep, loopVars, batchVars
  <2>2. \A d \in Infos : Dead(sock[d]) => sock'[d] = sock[d]
    BY <2>1 DEF Network, Establish, Refuse, Drain, Respond, RespondUnasked, Finish, Reset, Dead,
                IInv, TypeOK
  <2>3. \A k \in DOMAIN events : events[k].info \in Infos
    BY EventInfos
  <2> QED BY <2>1, <2>2, <2>3 DEF HupInv
<1>5. CASE ServeEvent
  <2>1. PICK c \in Infos, flags \in {Head(events).flags} :
          \/ ServeOut(c, c, flags) \/ ServeError(c, c, flags) \/ RecvFails(c, c, flags)
          \/ RecvEnd(c, c, flags) \/ RecvPipelined(c, c, flags) \/ RecvPart(c, c, flags)
          \/ RecvLast(c, c, flags) \/ RecvAndResend(c, c, flags) \/ ServeHangup(c, c, flags)
    BY <1>5, ServeEventOwn
  <2>2. CASE ServeError(c, c, flags)
    BY <1>1, <2>2 DEF ServeError, ExitOnError, batchVars
  <2>3. CASE RecvFails(c, c, flags)
    <3>1. /\ UNCHANGED events /\ Serving(c, c, flags)
          /\ sock' = [sock EXCEPT ![c] = AfterRecv(sock[c])]
      BY <2>3 DEF RecvFails, ExitOnError, batchVars, Receiving
    <3>2. AfterRecv(sock[c]).st = sock[c].st /\ sock \in [Infos -> Socket]
      BY AfterRecvType DEF IInv, TypeOK
    <3>3. \A d \in Infos : sock'[d].st = sock[d].st
      BY <3>1, <3>2
    <3>4. \A k \in DOMAIN events : events[k].info \in Infos
      BY EventInfos
    <3> QED BY <3>1, <3>3, <3>4 DEF HupInv, Dead
  <2>4. CASE ServeOut(c, c, flags)
    <3>1. \E new : sock' = [sock EXCEPT ![c] = new]
      BY <2>4 DEF ServeOut
    <3> QED BY <2>4, <3>1, ServingHup DEF ServeOut, IInv, TypeOK
  <2>5. CASE RecvAndResend(c, c, flags)
    <3>1. \E new : sock' = [sock EXCEPT ![c] = new]
      BY <2>5 DEF RecvAndResend
    <3> QED BY <2>5, <3>1, ServingHup DEF RecvAndResend, ResponseComplete, Receiving, IInv, TypeOK
  <2>6. CASE RecvEnd(c, c, flags) \/ RecvPipelined(c, c, flags) \/ RecvPart(c, c, flags)
             \/ RecvLast(c, c, flags) \/ ServeHangup(c, c, flags)
    <3>1. Serving(c, c, flags) /\ NextEvent /\ \E new : sock' = [sock EXCEPT ![c] = new]
      BY <2>6 DEF RecvEnd, RecvPipelined, RecvPart, RecvLast, ServeHangup, ResponseComplete,
                  Receiving, CloseSlot
    <3> QED BY <3>1, ServingHup DEF IInv, TypeOK
  <2> QED BY <2>1, <2>2, <2>3, <2>4, <2>5, <2>6
<1> QED BY <1>2, <1>3, <1>4, <1>5, <1>6, WaitHup DEF Next, Worker, Terminated

(* What is closed was read out. *)
LEMMA ClosedIsReadOut ==
  ASSUME WaitsSucceed, IInv, CycleInv, ReadyInv, HupInv, Next, NEW c \in Infos, Closes(c), sock[c].st = "open"
  PROVE  sock[c].rx <= RecvResult(sock[c])
<1>1. PICK d \in Infos, flags \in {Head(events).flags} :
        /\ c \in freed'
        /\ \/ RecvEnd(d, d, flags) \/ RecvPipelined(d, d, flags)
           \/ RecvPart(d, d, flags) /\ "HUP" \in flags
           \/ RecvLast(d, d, flags) \/ ServeHangup(d, d, flags)
  <2>1. ServeEvent
    BY DEF Closes, Next, Worker, CreateConnection, OpenSlot, ConnectFails, CreateFatal, CreateDone,
           Wait, WaitFails, ReadPastEvents, NetworkStep, Terminated, vars, runVars
  <2>2. PICK d \in Infos, flags \in {Head(events).flags} :
          \/ ServeOut(d, d, flags) \/ ServeError(d, d, flags) \/ RecvFails(d, d, flags)
          \/ RecvEnd(d, d, flags) \/ RecvPipelined(d, d, flags) \/ RecvPart(d, d, flags)
          \/ RecvLast(d, d, flags) \/ RecvAndResend(d, d, flags) \/ ServeHangup(d, d, flags)
    BY <2>1, ServeEventOwn
  <2> QED BY <2>2 DEF Closes, ServeOut, ServeError, RecvFails, ExitOnError, RecvAndResend,
                      RecvPart, runVars
<1>2. Serving(d, d, flags) /\ \E names : CloseSlot(d, d, names)
  BY <1>1 DEF RecvEnd, RecvPipelined, RecvPart, RecvLast, ServeHangup, ResponseComplete, Receiving
<1>3. d = c
  BY <1>2 DEF Closes, CloseSlot
<1>4. /\ Conversation(c) /\ Attentive(c) /\ sock[c] \in Socket
      /\ request_sent[c] \in 0..ReqLen /\ seen[c] \in 0..RspLen
  BY <1>2, <1>3, ServingFacts DEF ReadyInv
<1>5. "HUP" \notin flags
  <2>1. 1 \in DOMAIN events /\ c = events[1].info /\ flags = events[1].flags
    BY <1>2, <1>3 DEF Serving, IInv, TypeOK
  <2> QED BY <2>1 DEF HupInv, Dead
<1>6. CASE RecvEnd(c, c, flags)
  BY <1>4, <1>6, SocketsAssumption DEF RecvEnd, RecvResult, Socket
<1>7. CASE RecvPipelined(c, c, flags)
  <2>1. RecvResult(sock[c]) > 0 /\ Parsed(seen[c], RecvResult(sock[c])) < RecvResult(sock[c])
    BY <1>7 DEF RecvPipelined
  <2>2. /\ RecvResult(sock[c]) \in Int /\ RecvResult(sock[c]) <= sock[c].rx
        /\ sock[c].rx \in Nat \ {0} /\ sock[c].owed \in Nat
    BY <1>4, <2>1, SocketsAssumption DEF RecvResult, Socket
  <2>3. seen[c] + sock[c].rx + sock[c].owed <= RspLen
    BY <1>4, <2>2 DEF Conversation, Attentive
  <2>4. Parsed(seen[c], RecvResult(sock[c])) = RecvResult(sock[c])
    BY <1>4, <2>2, <2>3, SocketsAssumption DEF Parsed
  <2> QED BY <2>1, <2>2, <2>4
<1> QED BY <1>1, <1>3, <1>5, <1>6, <1>7 DEF RecvLast, ServeHangup

(* As long as no epoll_wait() fails, a connection the server closed in an     *)
(* orderly way is not closed by the program before all that had arrived was   *)
(* read, however often recv() has to be called for it.                        *)
THEOREM DataIsReadOut ==
  ServerAnswersOnly /\ WaitsSucceed /\ WholeSends /\ HupIsLast => (Spec => ReadOutBeforeClose)
<1> SUFFICES ASSUME ServerAnswersOnly, WaitsSucceed, WholeSends, HupIsLast PROVE Spec => ReadOutBeforeClose
  OBVIOUS
<1> DEFINE ReadOut == \A c \in Infos : Closes(c) /\ sock[c].st = "open" => sock[c].rx <= RecvResult(sock[c])
<1>1. Init => ReadyInv /\ HupInv
  BY DEF Init, ReadyInv, HupInv, Used
<1>2. IInv /\ CycleInv /\ ReadyInv /\ HupInv /\ [Next]_vars => ReadyInv' /\ HupInv'
  BY StepReady, StepHup
<1>3. IInv /\ CycleInv /\ ReadyInv /\ HupInv /\ [Next]_vars => [ReadOut]_vars
  BY ClosedIsReadOut
<1> QED BY <1>1, <1>2, <1>3, ConversationInvariance, PTL DEF Spec, ReadOutBeforeClose

------------------------------------------------------------------------------
(* The worker implements RequestCycle. *)

CountsBoth == {"sent", "recved"} \subseteq Counters

(* A step that moves one connection from one phase to another and counts what *)
(* goes with it is a step of RequestCycle.                                    *)
LEMMA CycleStep ==
  ASSUME CountsBoth, NEW c \in Infos, NEW names, Count(names),
         \A d \in Infos \ {c} : /\ request_sent'[d] = request_sent[d]
                                /\ d \in freed' <=> d \in freed,
         \/ /\ "sent" \notin names /\ "recved" \notin names
            /\ \/ Phase(c) = "idle" /\ Phase(c)' = "sending"
               \/ Phase(c) \in {"sending", "awaiting"} /\ Phase(c)' = "idle"
               \/ Phase(c)' = Phase(c)
         \/ /\ "sent" \in names /\ "recved" \notin names
            /\ Phase(c) = "sending" /\ Phase(c)' = "awaiting"
         \/ /\ "sent" \in names /\ "recved" \in names
            /\ Phase(c) = "awaiting" /\ Phase(c)' = "awaiting"
         \/ /\ "sent" \notin names /\ "recved" \in names
            /\ Phase(c) = "awaiting" /\ Phase(c)' \in {"sending", "idle"}
  PROVE  [Cycle!Next]_(Cycle!vars)
<1> DEFINE phase == [d \in Infos |-> Phase(d)]
<1>1. phase' = [phase EXCEPT ![c] = Phase(c)']
  BY DEF Phase, IsSent
<1>2. /\ stats'["sent"] = IF "sent" \in names THEN (stats["sent"] + 1) % (CounterMax + 1)
                          ELSE stats["sent"]
      /\ stats'["recved"] = IF "recved" \in names THEN (stats["recved"] + 1) % (CounterMax + 1)
                            ELSE stats["recved"]
  BY DEF Count, CountsBoth
<1>3. phase[c] = Phase(c)
  OBVIOUS
<1>4. CASE "sent" \notin names /\ "recved" \notin names
  <2>1. CASE Phase(c) = "idle" /\ Phase(c)' = "sending"
    <3>1. Cycle!Connect(c)
      BY <1>1, <1>2, <1>4, <2>1 DEF Cycle!Connect, Cycle!Become
    <3> QED BY <3>1 DEF Cycle!Next
  <2>2. CASE Phase(c) \in {"sending", "awaiting"} /\ Phase(c)' = "idle"
    <3>1. Cycle!Close(c)
      BY <1>1, <1>2, <1>4, <2>2 DEF Cycle!Close, Cycle!Become
    <3> QED BY <3>1 DEF Cycle!Next
  <2>3. CASE Phase(c)' = Phase(c)
    BY <1>1, <1>2, <1>4, <2>3 DEF Cycle!vars
  <2> QED BY <1>4, <2>1, <2>2, <2>3
<1>5. CASE "sent" \in names /\ "recved" \notin names
  <2>1. Cycle!Send(c)
    BY <1>1, <1>2, <1>5 DEF Cycle!Send, Cycle!Become, Cycle!Tick
  <2> QED BY <2>1 DEF Cycle!Next
<1>6. CASE "sent" \in names /\ "recved" \in names
  <2>1. Cycle!AnswerAndSend(c)
    BY <1>1, <1>2, <1>6 DEF Cycle!AnswerAndSend, Cycle!Become, Cycle!Tick
  <2> QED BY <2>1 DEF Cycle!Next
<1>7. CASE "sent" \notin names /\ "recved" \in names
  <2>1. Cycle!Answer(c) \/ Cycle!AnswerAndClose(c)
    BY <1>1, <1>2, <1>7 DEF Cycle!Answer, Cycle!AnswerAndClose, Cycle!Become, Cycle!Tick
  <2> QED BY <2>1 DEF Cycle!Next
<1> QED BY <1>4, <1>5, <1>6, <1>7

(* A step that touches neither the pool nor any request, and counts neither a *)
(* request nor a response, is a stutter.                                      *)
LEMMA CycleStutter ==
  ASSUME UNCHANGED <<freed, request_sent>>,
         \/ UNCHANGED stats
         \/ CountsBoth /\ \E names : Count(names) /\ names \cap {"sent", "recved"} = {}
  PROVE  UNCHANGED Cycle!vars
<1>1. stats'["sent"] = stats["sent"] /\ stats'["recved"] = stats["recved"]
  BY DEF Count, CountsBoth
<1>2. [d \in Infos |-> Phase(d)]' = [d \in Infos |-> Phase(d)]
  BY DEF Phase, IsSent
<1> QED BY <1>1, <1>2 DEF Cycle!vars

(* A close that counts no response gives up whatever was under way. *)
LEMMA ClosingCycle ==
  ASSUME CountsBoth, NEW c \in Infos, NEW names, c \in Used, CloseSlot(c, c, names),
         "sent" \notin names, \A d \in Infos \ {c} : request_sent'[d] = request_sent[d],
         "recved" \in names => IsSent(request_sent[c])
  PROVE  [Cycle!Next]_(Cycle!vars)
<1>1. Count(names) /\ freed' = freed \cup {c}
  BY DEF CloseSlot
<1>2. /\ \A d \in Infos \ {c} : d \in freed' <=> d \in freed
      /\ Phase(c)' = "idle" /\ Phase(c) \in {"sending", "awaiting"}
      /\ "recved" \in names => Phase(c) = "awaiting"
  BY <1>1 DEF Phase, Used
<1> QED BY <1>1, <1>2, CycleStep

LEMMA ServeOutCycle ==
  ASSUME CountsBoth, WaitsSucceed, IInv, CycleInv, NEW c \in Infos, NEW flags, ServeOut(c, c, flags)
  PROVE  [Cycle!Next]_(Cycle!vars)
<1>1. /\ Serving(c, c, flags) /\ "OUT" \in flags /\ freed' = freed
  BY DEF ServeOut
<1>2. c \in Used /\ ~IsSent(request_sent[c])
  BY <1>1, ServingFacts
<1>3. PICK units :
        /\ request_sent' = [request_sent EXCEPT ![c] = units]
        /\ Count(SentCount(units) \cup IF is_connected[c] THEN {} ELSE {"succeeded"})
  BY DEF ServeOut
<1> DEFINE names == SentCount(units) \cup IF is_connected[c] THEN {} ELSE {"succeeded"}
<1>4. "recved" \notin names /\ ("sent" \in names <=> IsSent(units))
  BY DEF SentCount
<1>5. /\ request_sent'[c] = units
      /\ \A d \in Infos \ {c} : request_sent'[d] = request_sent[d]
  BY <1>3 DEF IInv, TypeOK
<1>6. Phase(c) = "sending" /\ Phase(c)' = IF IsSent(units) THEN "awaiting" ELSE "sending"
  BY <1>1, <1>2, <1>5 DEF Phase, Used, IsSent
<1>7. Count(names)
  BY <1>3
<1> HIDE DEF names
<1> QED BY <1>1, <1>4, <1>5, <1>6, <1>7, CycleStep

(* A response that is read whole was asked for by a whole request. *)
LEMMA CompleteIsAnswer ==
  ASSUME WaitsSucceed, IInv, CycleInv, NEW c \in Infos, NEW flags, ResponseComplete(c, c, flags)
  PROVE  c \in Used /\ IsSent(request_sent[c])
<1>1. Serving(c, c, flags) /\ RecvResult(sock[c]) > 0
  BY DEF ResponseComplete, Receiving
<1>2. c \in Used /\ Conversation(c)
  BY <1>1, ServingFacts
<1>3. sock[c].rx > 0
  BY <1>1 DEF RecvResult
<1> QED BY <1>2, <1>3 DEF Conversation

LEMMA RecvAndResendCycle ==
  ASSUME CountsBoth, WaitsSucceed, IInv, CycleInv, NEW c \in Infos, NEW flags, RecvAndResend(c, c, flags)
  PROVE  [Cycle!Next]_(Cycle!vars)
<1>1. ResponseComplete(c, c, flags) /\ freed' = freed
  BY DEF RecvAndResend
<1>2. c \in Used /\ IsSent(request_sent[c])
  BY <1>1, CompleteIsAnswer
<1>3. PICK units :
        /\ request_sent' = [request_sent EXCEPT ![c] = units]
        /\ Count({"recved"} \cup SentCount(units))
  BY DEF RecvAndResend
<1>4. "recved" \in {"recved"} \cup SentCount(units)
  OBVIOUS
<1>5. "sent" \in {"recved"} \cup SentCount(units) <=> IsSent(units)
  BY DEF SentCount
<1>6. /\ request_sent'[c] = units
      /\ \A d \in Infos \ {c} : request_sent'[d] = request_sent[d]
  BY <1>3 DEF IInv, TypeOK
<1>7. Phase(c) = "awaiting" /\ Phase(c)' = IF IsSent(units) THEN "awaiting" ELSE "sending"
  BY <1>1, <1>2, <1>6 DEF Phase, Used, IsSent
<1> QED BY <1>1, <1>3, <1>4, <1>5, <1>6, <1>7, CycleStep

LEMMA ServeEventCycle ==
  ASSUME CountsBoth, WaitsSucceed, IInv, CycleInv, ServeEvent
  PROVE  [Cycle!Next]_(Cycle!vars)
<1>1. PICK c \in Infos, flags \in {Head(events).flags} :
        \/ ServeOut(c, c, flags) \/ ServeError(c, c, flags) \/ RecvFails(c, c, flags)
        \/ RecvEnd(c, c, flags) \/ RecvPipelined(c, c, flags) \/ RecvPart(c, c, flags)
        \/ RecvLast(c, c, flags) \/ RecvAndResend(c, c, flags) \/ ServeHangup(c, c, flags)
  BY ServeEventOwn
<1>2. Serving(c, c, flags) => c \in Used
  BY ServingFacts
<1>3. CASE ServeError(c, c, flags) \/ RecvFails(c, c, flags)
  <2>1. UNCHANGED <<freed, request_sent>> /\ Count({"error"})
    BY <1>3 DEF ServeError, RecvFails, ExitOnError, infoVars
  <2> QED BY <2>1, CycleStutter
<1>4. CASE RecvEnd(c, c, flags)
  <2>1. /\ Serving(c, c, flags) /\ UNCHANGED request_sent
        /\ CloseSlot(c, c, {IF "HUP" \in flags THEN "hangup" ELSE "read"})
    BY <1>4 DEF RecvEnd, Receiving, infoVars
  <2> QED BY <1>2, <2>1, ClosingCycle
<1>5. CASE ServeHangup(c, c, flags)
  <2>1. Serving(c, c, flags) /\ UNCHANGED request_sent /\ CloseSlot(c, c, {"hangup"})
    BY <1>5 DEF ServeHangup, infoVars
  <2> QED BY <1>2, <2>1, ClosingCycle
<1>6. CASE RecvPipelined(c, c, flags)
  <2>1. Serving(c, c, flags) /\ UNCHANGED request_sent /\ CloseSlot(c, c, {"hangup2"})
    BY <1>6 DEF RecvPipelined, Receiving
  <2> QED BY <1>2, <2>1, ClosingCycle
<1>7. CASE RecvPart(c, c, flags) /\ "HUP" \in flags
  <2>1. Serving(c, c, flags) /\ UNCHANGED request_sent /\ CloseSlot(c, c, {"unknown"})
    BY <1>7 DEF RecvPart, Receiving
  <2> QED BY <1>2, <2>1, ClosingCycle
<1>8. CASE RecvPart(c, c, flags) /\ "HUP" \notin flags
  <2>1. UNCHANGED <<freed, request_sent, stats>>
    BY <1>8 DEF RecvPart, runVars
  <2> QED BY <2>1, CycleStutter
<1>9. CASE RecvLast(c, c, flags)
  <2>1. /\ ResponseComplete(c, c, flags) /\ UNCHANGED request_sent
        /\ CloseSlot(c, c, {"recved", "hangup"})
    BY <1>9 DEF RecvLast
  <2>2. c \in Used /\ IsSent(request_sent[c])
    BY <2>1, CompleteIsAnswer
  <2> QED BY <2>1, <2>2, ClosingCycle
<1> QED BY <1>1, <1>3, <1>4, <1>5, <1>6, <1>7, <1>8, <1>9, ServeOutCycle, RecvAndResendCycle

LEMMA CreateConnectionCycle ==
  ASSUME CountsBoth, WaitsSucceed, IInv, CreateConnection
  PROVE  [Cycle!Next]_(Cycle!vars)
<1>1. CASE freed = {}
  BY <1>1, CycleStutter DEF CreateConnection, runVars, infoVars
<1>2. CASE freed # {}
  <2>1. PICK c \in freed : OpenSlot(c)
    BY <1>2 DEF CreateConnection
  <2>2. /\ c \in Infos /\ freed' = freed \ {c} /\ request_sent'[c] = 0
        /\ \A d \in Infos \ {c} : request_sent'[d] = request_sent[d]
        /\ Count({"request_count", "attempted"})
    BY <2>1 DEF OpenSlot, IInv, TypeOK
  <2>3. Phase(c) = "idle" /\ Phase(c)' = "sending"
    BY <2>1, <2>2, SocketsAssumption DEF Phase, IsSent
  <2> QED BY <2>2, <2>3, CycleStep
<1> QED BY <1>1, <1>2

LEMMA StepCycle ==
  ASSUME CountsBoth, WaitsSucceed, IInv, CycleInv, [Next]_vars
  PROVE  [Cycle!Next]_(Cycle!vars)
<1>1. CASE \/ ConnectFails \/ CreateFatal \/ CreateDone \/ Wait \/ WaitFails
           \/ ReadPastEvents \/ NetworkStep \/ UNCHANGED vars
  <2>1. UNCHANGED <<freed, request_sent, stats>>
    BY <1>1 DEF ConnectFails, CreateFatal, CreateDone, Wait, WaitFails, ReadPastEvents,
                NetworkStep, vars, runVars, infoVars
  <2> QED BY <2>1, CycleStutter
<1> QED BY <1>1, CreateConnectionCycle, ServeEventCycle DEF Next, Worker, Terminated

LEMMA InitCycle ==
  ASSUME CountsBoth, Init
  PROVE  Cycle!Init
BY DEF CountsBoth, Init, Phase, Cycle!Init

(* As long as no epoll_wait() fails, every step of the worker is a step of    *)
(* RequestCycle or a stutter: a request is counted when it is sent whole, and *)
(* a response only as the answer to such a request.                           *)
THEOREM WorkerRefinesCycle ==
  ServerAnswersOnly /\ WaitsSucceed /\ CountsBoth => (Spec => RefinesRequestCycle)
<1> SUFFICES ASSUME ServerAnswersOnly, WaitsSucceed, CountsBoth PROVE Spec => Cycle!Spec
  BY DEF RefinesRequestCycle
<1>1. Init => Cycle!Init
  BY InitCycle
<1>2. IInv /\ CycleInv /\ [Next]_vars => [Cycle!Next]_(Cycle!vars)
  BY StepCycle
<1>3. Spec => [](IInv /\ CycleInv)
  BY ConversationInvariance
<1> QED BY <1>1, <1>2, <1>3, PTL DEF Spec, Cycle!Spec
==============================================================================
