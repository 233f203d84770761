------------------------------- MODULE RunLoop -------------------------------
(***************************************************************************)
(* The worker of main.c: worker_start() builds the pool, main() calls      *)
(* run_loop() until it returns 0, and run_loop() tops up the connections,  *)
(* waits for events and serves every one of them.  The free list is a set  *)
(* here (ConnPool.tla has the lists) and http_rsp_parse() is its count of  *)
(* the response units seen (HttpResponse.tla has the parser).              *)
(***************************************************************************)
EXTENDS Sockets

CONSTANTS
  MaxCreate,    \* connections run_loop() may create per call, 10 in the code
  IsShutdown,   \* conf->is_shutdown, the --shutdown option
  RequestCount, \* conf->request_count
  Counters,     \* the statistics a run follows
  CounterMax,   \* the largest value of a statistic, 2^64 - 1 in the code
  SizeMax       \* the largest value of a size_t

CounterNames ==
  { "request_count", "attempted", "failed", "succeeded", "error", "read",
    "hangup", "hangup2", "pipeline", "unknown", "sent", "recved" }

ASSUME RunLoopAssumption ==
  /\ MaxCreate \in Nat \ {0}
  /\ IsShutdown \in BOOLEAN
  /\ RequestCount \in Nat
  /\ Counters \subseteq CounterNames
  /\ CounterMax \in Nat \ {0}
  /\ SizeMax \in Nat
  /\ Cardinality(Infos) < SizeMax

VARIABLES
  pc,           \* where in run_loop() the worker is, or how it ended
  i,            \* turns of the loop that creates connections
  n,            \* events run_loop() believes it has still to serve
  events,       \* the entries of run->events it has still to go through
  filled,       \* run->events, as far as epoll_wait() has ever filled it in
  concurrency,  \* run->concurrency
  freed,        \* the slots on run->freed
  stats,        \* run->stats and run->request_count
  request_sent, \* of each slot: units of the request sent
  is_connected, \* of each slot: its first EPOLLOUT was seen
  seen          \* of each slot: response units http_rsp_parse() has consumed

batchVars == <<n, events, filled>>
loopVars == <<pc, i, batchVars>>
runVars  == <<concurrency, freed, stats>>
infoVars == <<request_sent, is_connected, seen>>
vars     == <<sockVars, loopVars, runVars, infoVars>>

concurrent_connections == Cardinality(Infos)

Events == [info : Infos, flags : SUBSET EventFlags]

(* "exit" is exit(1), "returned" the end of main(), "undefined" the use of an *)
(* entry that no epoll_wait() ever filled in.                                  *)
Ended  == {"exit", "returned", "undefined"}
Places == {"create", "wait", "batch"} \cup Ended

(* worker_start(): every slot is in the pool, every counter is zero. *)
Init ==
  /\ SocketsInit
  /\ pc = "create" /\ i = 0 /\ n = 0 /\ events = <<>> /\ filled = <<>>
  /\ concurrency = 0
  /\ freed = Infos
  /\ stats = [s \in Counters |-> 0]
  /\ request_sent = [c \in Infos |-> 0]
  /\ is_connected = [c \in Infos |-> FALSE]
  /\ seen = [c \in Infos |-> 0]

Used == Infos \ freed

------------------------------------------------------------------------------
(* Helpers, one per static function of main.c. *)

(* counter_t.total++ for each of the names. *)
Count(names) ==
  stats' = [s \in Counters |->
              IF s \in names THEN (stats[s] + 1) % (CounterMax + 1) ELSE stats[s]]

(* The part of _connection_create() that follows a connect() under way, with  *)
(* _info_alloc(): an empty pool ends the program.                             *)
OpenSlot(c) ==
  /\ freed' = freed \ {c}
  /\ request_sent' = [request_sent EXCEPT ![c] = 0]
  /\ is_connected' = [is_connected EXCEPT ![c] = FALSE]
  /\ seen' = [seen EXCEPT ![c] = 0]
  /\ sock' = [sock EXCEPT ![c] = NewSocket("connecting")]
  /\ interest' = [interest EXCEPT ![c] = {"IN", "OUT"}]
  /\ concurrency' = concurrency + 1
  /\ Count({"request_count", "attempted"})

(* Mutant for PoolConsistent: the info is not put back into the pool. *)
CloseSlotMutant(c, fd, counters) ==
  /\ interest' = [interest EXCEPT ![fd] = {}]
  /\ sock' = [sock EXCEPT ![fd] = NewSocket("closed")]
  /\ concurrency' = concurrency - 1
  /\ UNCHANGED freed
  /\ Count(counters)

(* What every close does: epoll_ctl(DEL) and close() on the descriptor,       *)
(* _info_free() on the slot.                                                  *)
CloseSlot(c, fd, counters) ==
  /\ interest' = [interest EXCEPT ![fd] = {}]
  /\ sock' = [sock EXCEPT ![fd] = NewSocket("closed")]
  /\ freed' = freed \cup {c}
  /\ concurrency' = concurrency - 1
  /\ Count(counters)

(* _connection_is_sent() after the units sent, the result of send(), changed. *)
IsSent(units) == units >= ReqLen

(* Mutant for TypeOK: the -1 of a failed send() is added as well. *)
SentMutant(units, k) == units + k

(* Mutant for StreamAligned: part of the request sent is taken for all of it. *)
SentWholeMutant(units, k) == IF k > 0 THEN ReqLen ELSE units

Sent(units, k) == IF k > 0 THEN units + k ELSE units

(* Mutant for KeepsReceiving: the request is not started over. *)
SendInitMutant(c) == request_sent[c]

(* _connection_send_init(): the units of the request already sent, after a    *)
(* response.                                                                  *)
SendInit(c) == 0

(* Mutant for RefinesRequestCycle: every send() counts as a request. *)
SentCountMutant(units) == {"sent"}

(* stats.http.sent counts a request once all of it is sent. *)
SentCount(units) == IF IsSent(units) THEN {"sent"} ELSE {}

(* Mutant for DataIsRead: EPOLLOUT is still asked for when all is sent. *)
InterestAfterOutMutant(fd, units) == interest[fd]

(* The epoll_ctl(MOD) in the EPOLLOUT branch: nothing left to send. *)
InterestAfterOut(fd, units) == IF IsSent(units) THEN Modified(fd, {"IN"}) ELSE interest[fd]

(* Mutant for InterestMatches: EPOLLOUT is not asked for with a part unsent. *)
InterestAfterResendMutant(fd, units) == interest[fd]

(* The epoll_ctl(MOD) after a response: some of the request left to send. *)
InterestAfterResend(fd, units) ==
  IF IsSent(units) THEN interest[fd] ELSE Modified(fd, {"IN", "OUT"})

(* Mutant for ParserReady: the parser is not cleared. *)
SeenAfterResendMutant(units) == RspLen

(* _connection_recv_init() after a response, only when all was sent again. *)
SeenAfterResend(units) == IF IsSent(units) THEN 0 ELSE RspLen

(* http_rsp_parse(): units past the end of the response are not consumed. *)
Parsed(units, bytes) == IF bytes < RspLen - units THEN bytes ELSE RspLen - units

(* Mutant for EventsFresh: the loop looks at events[0] in every turn. *)
NextEventMutant ==
  /\ events' = SubSeq(events, 1, Len(events) - 1)
  /\ n' = n - 1
  /\ pc' = IF n = 1 THEN "create" ELSE "batch"
  /\ i' = 0
  /\ UNCHANGED filled

(* The end of one turn of the loop over the events; after the last one        *)
(* run_loop() returns 1 and main() calls it again.                             *)
NextEvent ==
  /\ events' = Tail(events)
  /\ n' = n - 1
  /\ pc' = IF n = 1 THEN "create" ELSE "batch"
  /\ i' = 0
  /\ UNCHANGED filled

------------------------------------------------------------------------------
(* The loop that creates connections. *)

(* Mutant for NeverOutOfMemory: one connection more than the pool holds. *)
CreatingMutant == pc = "create" /\ i < MaxCreate /\ concurrency <= concurrent_connections

Creating == pc = "create" /\ i < MaxCreate /\ concurrency < concurrent_connections

(* _info_alloc() ends the program when the pool is empty. *)
CreateConnection ==
  /\ Creating
  /\ IF freed = {}
     THEN pc' = "exit" /\ UNCHANGED <<sockVars, i, runVars, infoVars>>
     ELSE /\ \E c \in freed : OpenSlot(c)
          /\ i' = i + 1
          /\ UNCHANGED pc
  /\ UNCHANGED batchVars

(* connect() fails at once: the new socket is closed, nothing is counted. *)
ConnectFails ==
  /\ Creating
  /\ "connect" \in Faults
  /\ i' = i + 1
  /\ UNCHANGED <<sockVars, pc, batchVars, runVars, infoVars>>

(* socket(), bind() or epoll_ctl(ADD) fails: exit(1). *)
CreateFatal ==
  /\ Creating
  /\ "fatal" \in Faults
  /\ pc' = "exit"
  /\ UNCHANGED <<sockVars, i, batchVars, runVars, infoVars>>

(* Enough were created in this call; with none at all the program is over. *)
CreateDone ==
  /\ pc = "create"
  /\ i >= MaxCreate \/ concurrency >= concurrent_connections
  /\ pc' = IF concurrency = 0 THEN "returned" ELSE "wait"
  /\ i' = 0
  /\ UNCHANGED <<sockVars, batchVars, runVars, infoVars>>

------------------------------------------------------------------------------
(* epoll_wait() writes over the front of the array and leaves the rest (the   *)
(* array is followed only where an epoll_wait() may fail).                    *)
Filled(batch) ==
  IF "wait" \in Faults
  THEN batch \o SubSeq(filled, Len(batch) + 1, Len(filled))
  ELSE <<>>

(* epoll_wait(): one event per ready socket, in an order the kernel chooses;  *)
(* none when the 10 milliseconds are over.  There are never more of them than *)
(* the array holds, one entry per slot.                                       *)
Wait ==
  /\ pc = "wait"
  /\ LET ready == {c \in Infos : Reported(c) # {}}
     IN \E order \in SetToSeqs(ready) :
          /\ events' = [k \in DOMAIN order |->
                          [info |-> order[k], flags |-> Reported(order[k])]]
          /\ filled' = Filled(events')
          /\ n' = Len(order)
          /\ pc' = IF ready = {} THEN "create" ELSE "batch"
  /\ UNCHANGED <<sockVars, i, runVars, infoVars>>

(* epoll_wait() returns -1 into a size_t and leaves the array alone: what     *)
(* earlier calls filled in is served again, whatever has become of the slots. *)
WaitFails ==
  /\ pc = "wait"
  /\ "wait" \in Faults
  /\ n' = (-1) % (SizeMax + 1)
  /\ events' = filled
  /\ pc' = "batch"
  /\ UNCHANGED <<sockVars, i, filled, runVars, infoVars>>

(* After those comes an entry of zeros, without an info, or the end of the    *)
(* array.                                                                     *)
ReadPastEvents ==
  /\ pc = "batch" /\ events = <<>>
  /\ pc' = "undefined"
  /\ UNCHANGED <<sockVars, i, batchVars, runVars, infoVars>>

------------------------------------------------------------------------------
(* The body of the loop over the events, one action per branch: of the slot c *)
(* and the descriptor info->fd, named by the slot whose socket it is.         *)

(* The descriptor in a free slot is closed, unless the kernel has given its   *)
(* number to a connection that is open now.                                   *)
Descriptors(c) == IF c \in freed THEN {c} \cup Used ELSE {c}

Serving(c, fd, flags) ==
  /\ pc = "batch" /\ events # <<>>
  /\ c = Head(events).info
  /\ fd \in Descriptors(c)
  /\ flags = Head(events).flags

(* EPOLLOUT: the connection is there, send what is left of the request.  The  *)
(* result of _connection_send() is not looked at, only what was sent.         *)
ServeOut(c, fd, flags) ==
  /\ Serving(c, fd, flags)
  /\ "OUT" \in flags
  /\ \E k \in SendResults(sock[fd], ReqLen - request_sent[c]) :
       LET units == Sent(request_sent[c], k)
           after == AfterSend(sock[fd], ReqLen - request_sent[c], k)
       IN /\ request_sent' = [request_sent EXCEPT ![c] = units]
          /\ sock' = [sock EXCEPT ![fd] =
                        IF IsSent(units) /\ IsShutdown THEN Shutdown(after) ELSE after]
          /\ interest' = [interest EXCEPT ![fd] = InterestAfterOut(fd, units)]
          /\ Count(SentCount(units) \cup IF is_connected[c] THEN {} ELSE {"succeeded"})
  /\ is_connected' = [is_connected EXCEPT ![c] = TRUE]
  /\ NextEvent
  /\ UNCHANGED <<concurrency, freed, seen>>

(* REASON_ERROR: the connection is taken off epoll, counted, and the program  *)
(* exits before it is closed.                                                 *)
ExitOnError(fd) ==
  /\ interest' = [interest EXCEPT ![fd] = {}]
  /\ Count({"error"})
  /\ pc' = "exit"
  /\ UNCHANGED <<i, batchVars, concurrency, freed, infoVars>>

ServeError(c, fd, flags) ==
  /\ Serving(c, fd, flags) /\ interest[fd] # {}
  /\ "OUT" \notin flags /\ "ERR" \in flags
  /\ ExitOnError(fd)
  /\ UNCHANGED sock

Receiving(c, fd, flags) ==
  /\ Serving(c, fd, flags) /\ interest[fd] # {}
  /\ flags \cap {"OUT", "ERR"} = {} /\ "IN" \in flags

(* recv() fails. *)
RecvFails(c, fd, flags) ==
  /\ Receiving(c, fd, flags)
  /\ RecvResult(sock[fd]) < 0
  /\ ExitOnError(fd)
  /\ sock' = [sock EXCEPT ![fd] = AfterRecv(@)]

(* Mutant for FinIsClosed: the end of the stream closes nothing. *)
RecvEndMutant(c, fd, flags) ==
  /\ Receiving(c, fd, flags)
  /\ RecvResult(sock[fd]) = 0
  /\ NextEvent
  /\ UNCHANGED <<sockVars, runVars, infoVars>>

(* recv() meets the end of the stream. *)
RecvEnd(c, fd, flags) ==
  /\ Receiving(c, fd, flags)
  /\ RecvResult(sock[fd]) = 0
  /\ CloseSlot(c, fd, {IF "HUP" \in flags THEN "hangup" ELSE "read"})
  /\ NextEvent
  /\ UNCHANGED infoVars

(* Bytes that belong to no response: counted under REASON_PIPELINE's case. *)
RecvPipelined(c, fd, flags) ==
  LET bytes == RecvResult(sock[fd])
  IN /\ Receiving(c, fd, flags)
     /\ bytes > 0 /\ Parsed(seen[c], bytes) < bytes
     /\ seen' = [seen EXCEPT ![c] = RspLen]
     /\ CloseSlot(c, fd, {"hangup2"})
     /\ NextEvent
     /\ UNCHANGED <<request_sent, is_connected>>

(* Mutant for ReadOutBeforeClose: an incomplete response closes the connection. *)
RecvPartMutant(c, fd, flags) ==
  LET bytes == RecvResult(sock[fd])
  IN /\ Receiving(c, fd, flags)
     /\ bytes > 0 /\ seen[c] + bytes < RspLen
     /\ seen' = [seen EXCEPT ![c] = @ + bytes]
     /\ CloseSlot(c, fd, {"unknown"})
     /\ NextEvent
     /\ UNCHANGED <<request_sent, is_connected>>

(* The response is not complete: wait for more, unless the peer has hung up. *)
RecvPart(c, fd, flags) ==
  LET bytes == RecvResult(sock[fd])
  IN /\ Receiving(c, fd, flags)
     /\ bytes > 0 /\ seen[c] + bytes < RspLen
     /\ seen' = [seen EXCEPT ![c] = @ + bytes]
     /\ IF "HUP" \in flags
        THEN CloseSlot(c, fd, {"unknown"})
        ELSE sock' = [sock EXCEPT ![fd] = AfterRecv(@)] /\ UNCHANGED <<interest, runVars>>
     /\ NextEvent
     /\ UNCHANGED <<request_sent, is_connected>>

ResponseComplete(c, fd, flags) ==
  LET bytes == RecvResult(sock[fd])
  IN Receiving(c, fd, flags) /\ bytes > 0 /\ seen[c] + bytes = RspLen

(* Mutant for Accounting: the last response is counted, the hangup is not. *)
RecvLastMutant(c, fd, flags) ==
  /\ ResponseComplete(c, fd, flags)
  /\ "HUP" \in flags
  /\ seen' = [seen EXCEPT ![c] = RspLen]
  /\ CloseSlot(c, fd, {"recved"})
  /\ NextEvent
  /\ UNCHANGED <<request_sent, is_connected>>

(* The response is complete and the peer has hung up. *)
RecvLast(c, fd, flags) ==
  /\ ResponseComplete(c, fd, flags)
  /\ "HUP" \in flags
  /\ seen' = [seen EXCEPT ![c] = RspLen]
  /\ CloseSlot(c, fd, {"recved", "hangup"})
  /\ NextEvent
  /\ UNCHANGED <<request_sent, is_connected>>

(* The response is complete: send the request again at once.  The parser is   *)
(* made ready for the next response only when all of the request was sent.    *)
RecvAndResend(c, fd, flags) ==
  /\ ResponseComplete(c, fd, flags)
  /\ "HUP" \notin flags
  /\ LET drained == AfterRecv(sock[fd])
         left == ReqLen - SendInit(c)
     IN \E k \in SendResults(drained, left) :
          LET units == Sent(SendInit(c), k)
          IN /\ request_sent' = [request_sent EXCEPT ![c] = units]
             /\ sock' = [sock EXCEPT ![fd] = AfterSend(drained, left, k)]
             /\ seen' = [seen EXCEPT ![c] = SeenAfterResend(units)]
             /\ interest' = [interest EXCEPT ![fd] = InterestAfterResend(fd, units)]
             /\ Count({"recved"} \cup SentCount(units))
  /\ NextEvent
  /\ UNCHANGED <<concurrency, freed, is_connected>>

(* The peer has hung up and there is nothing to read. *)
ServeHangup(c, fd, flags) ==
  /\ Serving(c, fd, flags) /\ interest[fd] # {}
  /\ flags \cap {"OUT", "ERR", "IN"} = {} /\ "HUP" \in flags
  /\ CloseSlot(c, fd, {"hangup"})
  /\ NextEvent
  /\ UNCHANGED infoVars

(* All but EPOLLOUT close a descriptor that is closed already, an EPOLLIN     *)
(* once recv() has failed: epoll_ctl(DEL) fails, and the program exits.       *)
ServeClosed(c, fd, flags) ==
  /\ Serving(c, fd, flags) /\ interest[fd] = {}
  /\ "OUT" \notin flags
  /\ pc' = "exit"
  /\ UNCHANGED <<sockVars, i, batchVars, runVars, infoVars>>

ServeEvent ==
  LET flags == Head(events).flags
  IN \E c, fd \in Infos :
       \/ ServeOut(c, fd, flags)
       \/ ServeError(c, fd, flags)
       \/ RecvFails(c, fd, flags)
       \/ RecvEnd(c, fd, flags)
       \/ RecvPipelined(c, fd, flags)
       \/ RecvPart(c, fd, flags)
       \/ RecvLast(c, fd, flags)
       \/ RecvAndResend(c, fd, flags)
       \/ ServeHangup(c, fd, flags)
       \/ ServeClosed(c, fd, flags)

------------------------------------------------------------------------------
Worker ==
  \/ CreateConnection \/ ConnectFails \/ CreateFatal \/ CreateDone
  \/ Wait \/ WaitFails \/ ReadPastEvents
  \/ ServeEvent

NetworkStep == pc \notin Ended /\ (\E c \in Infos : Network(c)) /\ UNCHANGED <<loopVars, runVars, infoVars>>

Terminated == pc \in Ended /\ UNCHANGED vars

Next == Worker \/ NetworkStep \/ Terminated

Spec == Init /\ [][Next]_vars

(* The worker is a single thread that only ever blocks in epoll_wait(), for   *)
(* 10 milliseconds at most.  Of the server, a connection is established, what *)
(* was sent is taken and what is owed arrives.                                *)
Fairness ==
  /\ WF_vars(Worker)
  /\ \A c \in Infos : WF_vars((Establish(c) \/ Drain(c) \/ Respond(c)) /\ UNCHANGED <<loopVars, runVars, infoVars>>)

FairSpec == Spec /\ Fairness

------------------------------------------------------------------------------
(* Types of all the variables; concurrency neither exceeds the configured     *)
(* number nor goes below zero, which a size_t would not survive.              *)
TypeOK ==
  /\ sock \in [Infos -> Socket]
  /\ interest \in [Infos -> SUBSET {"IN", "OUT"}]
  /\ pc \in Places
  /\ i \in 0..MaxCreate
  /\ n \in 0..SizeMax
  /\ events \in Seq(Events) /\ filled \in Seq(Events)
  /\ concurrency \in 0..concurrent_connections
  /\ freed \subseteq Infos
  /\ stats \in [Counters -> 0..CounterMax]
  /\ request_sent \in [Infos -> 0..ReqLen]
  /\ is_connected \in [Infos -> BOOLEAN]
  /\ seen \in [Infos -> 0..RspLen]

Registered == {c \in Infos : interest[c] # {}}

(* The loop goes through the events that were returned: no epoll_wait() has   *)
(* failed, and the program was not ended by exit(1).                          *)
Intact ==
  \/ pc \in {"create", "wait", "returned"}
  \/ pc = "batch" /\ n = Len(events)

(* The records of what is open agree.  run->concurrency counts the sockets    *)
(* registered with epoll, which are those that are open, as long as the       *)
(* program runs; they are those of the slots off the free list as long as no  *)
(* epoll_wait() has failed.                                                   *)
PoolConsistent ==
  /\ pc # "exit" =>
       /\ concurrency = Cardinality(Registered)
       /\ \A c \in Infos : c \in Registered <=> sock[c].st # "closed"
  /\ Intact => Used = Registered

(* _info_alloc() never finds the pool empty (main.c:95-98): the bound on      *)
(* concurrency and the size of the pool fit together.                         *)
NeverOutOfMemory == Creating => freed # {}

(* Until an epoll_wait() fails, no event still to be served names a           *)
(* connection that was closed since epoll_wait() returned it, and none is     *)
(* served twice: what event->data.ptr points at is alive.                     *)
EventsFresh ==
  Intact =>
    /\ \A k \in DOMAIN events : events[k].info \in Used
    /\ \A j, k \in DOMAIN events : events[j].info = events[k].info => j = k

(* How the batch and the place in the loop go together: outside of the loop   *)
(* over the events none is left; inside it n is what is left, or, once an     *)
(* epoll_wait() has failed, more than that.                                   *)
LoopControl ==
  /\ pc \in {"create", "wait"} => events = <<>>
  /\ pc = "batch" => n > 0 /\ n >= Len(events)
  /\ pc # "exit" /\ ~Intact => "wait" \in Faults
  /\ Len(filled) <= concurrent_connections

(* The inductive invariant of the worker. *)
IInv == TypeOK /\ LoopControl /\ PoolConsistent /\ EventsFresh

CloseCounters == {"read", "hangup", "hangup2", "pipeline", "unknown"}

Closed == stats["read"] + stats["hangup"] + stats["hangup2"] + stats["pipeline"] + stats["unknown"]

(* Every attempt is either still open or was counted under exactly one reason *)
(* for its close, in the width of the counters.                               *)
Accounting ==
  pc # "exit" =>
    (stats["attempted"] - concurrency - Closed) % (CounterMax + 1) = 0

(* What the server has of the current request is what the program has sent of *)
(* it: requests follow one another on the wire with nothing cut short.        *)
StreamAligned ==
  pc # "exit" => \A c \in Used : sock[c].got = request_sent[c] % ReqLen

(* EPOLLOUT is asked for exactly while part of the request is unsent          *)
(* (main.c:389-390, 443): otherwise the loop spins or the request stalls.     *)
InterestMatches ==
  pc # "exit" => \A c \in Used : "OUT" \in interest[c] <=> ~IsSent(request_sent[c])

(* While a response is owed the parser has room for it: http was cleared      *)
(* after the previous response.                                               *)
ParserReady ==
  \A c \in Used :
    sock[c].st = "open" /\ ~sock[c].fin /\ IsSent(request_sent[c])
      => seen[c] + sock[c].rx + sock[c].owed = RspLen

Closes(c) == c \notin freed /\ c \in freed'

(* A connection the server closed in an orderly way is closed only when all   *)
(* that had arrived was read.                                                 *)
ReadOutBeforeClose ==
  [][\A c \in Infos : Closes(c) /\ sock[c].st = "open" => sock[c].rx <= RecvResult(sock[c])]_vars

(* The loop serves the events that were returned and no others (main.c:370). *)
OnlyReturnedEvents == pc = "batch" => n = Len(events)

(* The job ends with the configured number of requests (main.c:709-710). *)
EndsAtRequestCount == stats["sent"] = RequestCount ~> pc \in Ended

(* Whatever arrives on a connection is read, or the connection closed. *)
DataIsRead == \A c \in Infos : sock[c].rx > 0 ~> (sock[c].rx = 0 \/ pc \in Ended)

(* The benchmark goes on: unless servers hang up or abort connections, or     *)
(* every connect() failed at once, one response after another is counted.     *)
KeepsReceiving ==
  [](pc # "returned" /\ \A c \in Infos : ~sock[c].fin /\ ~Dead(sock[c]))
    => \A v \in 0..CounterMax : []<>(stats["recved"] = v)

(* A connection that the server closes is closed by the program as well,      *)
(* unless it is aborted first: EPOLLOUT is served before EPOLLERR, and the    *)
(* failing send() is not looked at, so a dead connection with part of a       *)
(* request unsent is served for ever.                                         *)
FinIsClosed ==
  \A c \in Infos : sock[c].fin ~> (~sock[c].fin \/ Dead(sock[c]) \/ pc \in Ended)
==============================================================================
