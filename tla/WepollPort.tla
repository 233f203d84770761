----------------------------- MODULE WepollPort ------------------------------
(***************************************************************************)
(* An epoll port of wepoll (win-epoll.c) and the threads that use it.      *)
(*                                                                         *)
(* A socket of the port is watched by an asynchronous poll of the AFD      *)
(* driver, whose completion arrives as a packet at the port's completion   *)
(* port.  The sock_state of the socket holds the poll's buffers, so it     *)
(* outlives the socket's registration until the packet was taken.  All of  *)
(* the port is changed under port_state.lock, which epoll_wait() gives up  *)
(* only while it waits for packets: `port' is what the lock guards, and    *)
(* each action below that changes it is one critical section.              *)
(***************************************************************************)
EXTENDS Reflock, SequencesExt

CONSTANTS
  Roles,       \* the calls each thread makes: "ctl", "wait", "close"
  Sockets, Cells,   \* sockets, and the addresses malloc() has for sock_states
  NULL,
  Interests,   \* the sets of events the callers ask for, of each socket
  Conditions,  \* the sets of AFD events that can be true of a socket
  MaxGroup,    \* POLL_GROUP__MAX_GROUP_SIZE
  MaxEvents,   \* the size of the callers' arrays
  Faults

ASSUME PortAssumption ==
  /\ Roles \in [Threads -> SUBSET {"ctl", "wait", "close"}]
  /\ IsFiniteSet(Cells) /\ NULL \notin Cells
  /\ MaxGroup \in Nat \ {0} /\ MaxEvents \in Nat \ {0}
  /\ Faults \subseteq {"device", "poll", "status"}

VARIABLES
  port,     \* port_state_t and all it points at
  iocp,     \* its completion port is open
  packets,  \* the cells whose completions are queued there
  held,     \* the packets each thread has taken and not yet processed
  ready,    \* what is true of each socket; {"LOCAL_CLOSE"} once it is closed
  aborted   \* the assertion in port_get_iocp_handle() has failed

portVars == <<port, iocp, packets, held, ready, aborted>>
vars == <<refVars, portVars>>

------------------------------------------------------------------------------
(* Events.  Bands and priorities go with EPOLLIN and EPOLLOUT. *)
Known == {"IN", "OUT", "RDHUP", "ERR", "HUP"}
Closed == {"LOCAL_CLOSE"}

ASSUME InterestAssumption ==
  Interests \in [Sockets -> SUBSET SUBSET (Known \cup {"ONESHOT"})]

AfdOf(events) ==
  Closed
  \cup (IF "IN" \in events THEN {"RECEIVE"} ELSE {})
  \cup (IF "OUT" \in events THEN {"SEND"} ELSE {})
  \cup (IF events \cap {"IN", "RDHUP"} # {} THEN {"DISCONNECT"} ELSE {})
  \cup (IF "HUP" \in events THEN {"ABORT"} ELSE {})
  \cup (IF "ERR" \in events THEN {"CONNECT_FAIL"} ELSE {})

EpollOf(afd) ==
  (IF "RECEIVE" \in afd THEN {"IN"} ELSE {})
  \cup (IF "SEND" \in afd THEN {"OUT"} ELSE {})
  \cup (IF "DISCONNECT" \in afd THEN {"IN", "RDHUP"} ELSE {})
  \cup (IF "ABORT" \in afd THEN {"HUP"} ELSE {})
  \cup (IF "CONNECT_FAIL" \in afd THEN {"IN", "OUT", "ERR", "RDHUP"} ELSE {})

(* sock_state_t; iosb is the status of its poll, found what the poll found. *)
Blank ==
  [ sock |-> NULL, group |-> 0, user |-> {}, pending |-> {}, status |-> "IDLE",
    deleted |-> FALSE, iosb |-> "none", found |-> {} ]

NewPort ==
  [ heap |-> {}, cell |-> [c \in Cells |-> Blank], tree |-> [s \in Sockets |-> NULL],
    update |-> <<>>, deleted |-> <<>>, groups |-> <<>>,
    size |-> [g \in 0..Cardinality(Cells) |-> 0], active |-> 0 ]

PortInit ==
  /\ port    = NewPort
  /\ iocp    = FALSE
  /\ packets = <<>>
  /\ held    = [t \in Threads |-> <<>>]
  /\ ready   \in [Sockets -> Conditions]
  /\ aborted = FALSE

Init == RefInit /\ PortInit

------------------------------------------------------------------------------
(* queue_remove(), which leaves a node alone that is in no queue. *)
Unlink(queue, x) ==
  IF x \in ToSet(queue)
  THEN RemoveAt(queue, CHOOSE k \in DOMAIN queue : queue[k] = x)
  ELSE queue

(* Poll groups: the queue keeps those with room at its end. *)

NeedsGroup(p) == ~(p.groups # <<>> /\ p.size[Last(p.groups)] < MaxGroup)

WithGroup(p) == IF NeedsGroup(p) THEN [p EXCEPT !.groups = Append(@, Len(@))] ELSE p

(* Mutant for GroupsPacked: a group that is full stays at the end. *)
AcquireMutant(p) ==
  LET q == WithGroup(p) IN [q EXCEPT !.size[Last(q.groups)] = @ + 1]

Acquire(p) ==
  LET q == WithGroup(p)
      g == Last(q.groups)
  IN [q EXCEPT !.size[g] = @ + 1,
               !.groups = IF q.size[g] + 1 = MaxGroup THEN <<g>> \o Front(@) ELSE @]

Release(p, g) ==
  [p EXCEPT !.size[g] = @ - 1, !.groups = Append(Unlink(@, g), g)]

------------------------------------------------------------------------------
(* sock_states.  A cell has one queue node, for either of the two queues. *)

Enqueued(p, c) == c \in ToSet(p.update) \cup ToSet(p.deleted)

Request(p, c) ==
  IF Enqueued(p, c) THEN p
  ELSE [p EXCEPT !.update = Append(@, c)]

Wanted(d) == d.user \cap Known

(* Mutant for Watched: an outstanding poll is taken to be wide enough. *)
SetEventMutant(p, c, events) ==
  LET q == [p EXCEPT !.cell[c].user = events \cup {"ERR", "HUP"}]
  IN IF q.cell[c].status # "IDLE" THEN q ELSE Request(q, c)

(* sock_set_event() *)
SetEvent(p, c, events) ==
  LET q == [p EXCEPT !.cell[c].user = events \cup {"ERR", "HUP"}]
  IN IF Wanted(q.cell[c]) \subseteq q.cell[c].pending THEN q ELSE Request(q, c)

(* sock__cancel_poll(); `no' are the cells whose requests the kernel refuses, *)
(* which it cannot when the poll is over.                                     *)
Refused(p, c, no) == c \in no /\ p.cell[c].iosb = "pending"

Cancel(p, c) == [p EXCEPT !.cell[c].status = "CANCELLED", !.cell[c].pending = {}]

(* Mutant for Registered: the cell stays in the update queue. *)
UnregisterMutant(p, c, no) ==
  LET q == IF p.cell[c].status = "PENDING" /\ ~Refused(p, c, no) THEN Cancel(p, c) ELSE p
  IN [q EXCEPT !.tree[p.cell[c].sock] = NULL, !.cell[c].deleted = TRUE]

Unregister(p, c, no) ==
  LET d == p.cell[c]
      q == IF d.status = "PENDING" /\ ~Refused(p, c, no) THEN Cancel(p, c) ELSE p
  IN [q EXCEPT !.update = Unlink(@, c), !.tree[d.sock] = NULL, !.cell[c].deleted = TRUE]

FreeCell(p, c) ==
  [Release(p, p.cell[c].group) EXCEPT
     !.deleted = Unlink(@, c), !.heap = @ \ {c}, !.cell[c] = Blank]

(* Mutant for OnePacket: a deleted socket's state is freed at once. *)
DeleteMutant(p, c, force, no) ==
  FreeCell(IF p.cell[c].deleted THEN p ELSE Unregister(p, c, no), c)

(* sock__delete() *)
Delete(p, c, force, no) ==
  LET q == IF p.cell[c].deleted THEN p ELSE Unregister(p, c, no)
  IN IF force \/ q.cell[c].status = "IDLE" THEN FreeCell(q, c)
     ELSE IF Enqueued(q, c) THEN q
     ELSE [q EXCEPT !.deleted = Append(@, c)]

Submit(p, c) ==
  [p EXCEPT !.cell[c].status = "PENDING", !.cell[c].pending = p.cell[c].user,
            !.cell[c].iosb = "pending"]

(* Mutant for Delivered: a poll that is too narrow is left alone. *)
SockUpdateMutant(p, c, no) ==
  LET d    == p.cell[c]
      done == [p EXCEPT !.update = Unlink(@, c)]
  IN IF d.status # "IDLE" THEN done
     ELSE IF ready[d.sock] = Closed THEN Delete(p, c, FALSE, no)
     ELSE IF c \in no THEN p ELSE Submit(done, c)

(* sock_update(): on an error the cell stays where it is, at the head of the  *)
(* queue.                                                                     *)
SockUpdate(p, c, no) ==
  LET d    == p.cell[c]
      done == [p EXCEPT !.update = Unlink(@, c)]
  IN CASE d.status = "PENDING" /\ Wanted(d) \subseteq d.pending -> done
       [] d.status = "PENDING" /\ ~(Wanted(d) \subseteq d.pending) ->
            IF Refused(p, c, no) THEN p ELSE Cancel(done, c)
       [] d.status = "CANCELLED" -> done
       [] d.status = "IDLE" ->
            IF ready[d.sock] = Closed THEN Delete(p, c, FALSE, no)
            ELSE IF c \in no THEN p ELSE Submit(done, c)

(* port__update_events(): ends early at a cell that cannot be updated. *)
UpdateAll(p, no) ==
  LET after[k \in 0..Len(p.update)] ==
        IF k = 0 THEN p
        ELSE LET q == after[k - 1]
                 c == p.update[k]
             IN IF Head(q.update) = c THEN SockUpdate(q, c, no) ELSE q
  IN after[Len(p.update)]

(* Mutant for QueueServed: updates wait for the next epoll_wait(). *)
UpdateIfPollingMutant(p, no) == p

UpdateIfPolling(p, no) == IF p.active > 0 THEN UpdateAll(p, no) ELSE p

(* Mutant for ReportsOnlyRegistered: delete_pending is not looked at. *)
ReportsMutant(d) == d.user \cap (IF d.iosb = "failed" THEN {"ERR"} ELSE EpollOf(d.found))

Reports(d) ==
  IF d.deleted \/ d.found = Closed THEN {}
  ELSE d.user \cap (IF d.iosb = "failed" THEN {"ERR"} ELSE EpollOf(d.found))

(* sock_feed_event() *)
Feed(p, c, no) ==
  LET d    == p.cell[c]
      idle == [p EXCEPT !.cell[c].status = "IDLE", !.cell[c].pending = {},
                        !.cell[c].iosb = "none", !.cell[c].found = {}]
      next == Request(idle, c)
  IN IF d.deleted \/ d.found = Closed THEN Delete(idle, c, FALSE, no)
     ELSE IF Reports(d) # {} /\ "ONESHOT" \in d.user THEN [next EXCEPT !.cell[c].user = {}]
     ELSE next

(* port__feed_events() *)
FeedAll(p, cells, no) ==
  LET after[k \in 0..Len(cells)] ==
        IF k = 0 THEN p ELSE Feed(after[k - 1], cells[k], no)
  IN after[Len(cells)]

------------------------------------------------------------------------------
(* The calls. *)

Running == ~aborted

(* What the kernel may refuse in a critical section. *)
Refusals == IF "poll" \in Faults THEN {{}, Cells} ELSE {{}}

EpollCreate(t) ==
  /\ "close" \in Roles[t] /\ Create(t)
  /\ iocp' = TRUE
  /\ UNCHANGED <<port, packets, held, ready, aborted>>

EpollEnter(t) ==
  /\ \E call \in {"ctl", "wait"} \cap Roles[t] : Enter(t, call)
  /\ UNCHANGED portVars

EpollLeave(t) == Unref(t) /\ UNCHANGED portVars

(* sock_new() and sock_set_event().  Of the steps that can fail, the lookup   *)
(* of the base socket comes first, then the group, the memory, and the tree.  *)
Added(p, s, events) ==
  LET q == Acquire(p)
      g == Last(WithGroup(p).groups)
      c == CHOOSE cell \in Cells \ p.heap : TRUE
  IN IF p.heap = Cells \/ p.tree[s] # NULL THEN Release(q, g)
     ELSE SetEvent([q EXCEPT !.heap = @ \cup {c}, !.tree[s] = c,
                             !.cell[c] = [Blank EXCEPT !.sock = s, !.group = g]], c, events)

CtlAdd(t) ==
  /\ Move(t, "ctl", "unref")
  /\ \E s \in Sockets, no \in Refusals : \E events \in Interests[s] :
       IF ready[s] = Closed THEN UNCHANGED port
       ELSE /\ iocp \/ ~NeedsGroup(port)
            /\ port' = UpdateIfPolling(Added(port, s, events), no)
  /\ UNCHANGED <<iocp, packets, held, ready, aborted>>

(* afd_create_device_handle() fails. *)
CtlAddFails(t) ==
  /\ Move(t, "ctl", "unref")
  /\ "device" \in Faults /\ NeedsGroup(port) /\ iocp
  /\ \E s \in Sockets : ready[s] # Closed
  /\ UNCHANGED portVars

(* The completion port was closed since this thread took its reference, and a *)
(* new group asks for it: assert(port_state->iocp_handle != NULL).             *)
CtlAddAborts(t) ==
  /\ at[t] = "ctl" /\ NeedsGroup(port) /\ ~iocp
  /\ \E s \in Sockets : ready[s] # Closed
  /\ aborted' = TRUE
  /\ UNCHANGED <<refVars, port, iocp, packets, held, ready>>

CtlMod(t) ==
  /\ Move(t, "ctl", "unref")
  /\ \E s \in Sockets, no \in Refusals : \E events \in Interests[s] :
       /\ port.tree[s] # NULL
       /\ port' = UpdateIfPolling(SetEvent(port, port.tree[s], events), no)
  /\ UNCHANGED <<iocp, packets, held, ready, aborted>>

CtlDel(t) ==
  /\ Move(t, "ctl", "unref")
  /\ \E s \in Sockets, no \in Refusals :
       /\ port.tree[s] # NULL
       /\ port' = Delete(port, port.tree[s], FALSE, no)
  /\ UNCHANGED <<iocp, packets, held, ready, aborted>>

(* The socket is not registered. *)
CtlFails(t) ==
  /\ Move(t, "ctl", "unref")
  /\ \E s \in Sockets : port.tree[s] = NULL
  /\ UNCHANGED portVars

Epoll_ctl(t) ==
  CtlAdd(t) \/ CtlAddFails(t) \/ CtlAddAborts(t) \/ CtlMod(t) \/ CtlDel(t) \/ CtlFails(t)

(* The rest of port__poll() before the lock is given up: when a cell could    *)
(* not be updated epoll_wait() fails, else the thread waits for packets.      *)
PollFrom(t, from, p, no) ==
  LET q == UpdateAll(p, no)
  IN IF q.update = <<>>
     THEN port' = [q EXCEPT !.active = @ + 1] /\ Move(t, from, "polling")
     ELSE port' = UpdateIfPolling(q, no) /\ Move(t, from, "unref")

WaitStart(t) ==
  /\ at[t] = "wait"
  /\ \E no \in Refusals : PollFrom(t, "wait", port, no)
  /\ UNCHANGED <<iocp, packets, held, ready, aborted>>

(* GetQueuedCompletionStatusEx() returns packets, ... *)
Dequeue(t) ==
  /\ at[t] = "polling" /\ iocp /\ packets # <<>>
  /\ LET n == IF Len(packets) < MaxEvents THEN Len(packets) ELSE MaxEvents
     IN /\ held' = [held EXCEPT ![t] = SubSeq(packets, 1, n)]
        /\ packets' = SubSeq(packets, n + 1, Len(packets))
  /\ Move(t, "polling", "polled")
  /\ UNCHANGED <<port, iocp, ready, aborted>>

(* ... or fails, because the time is over or the completion port was closed. *)
DequeueFails(t) ==
  /\ at[t] = "polling" /\ (~iocp \/ packets = <<>>)
  /\ Move(t, "polling", "polled")
  /\ UNCHANGED portVars

Counted(t) == {c \in ToSet(held[t]) : Reports(port.cell[c]) # {}}

(* The lock is taken again, and what was found is reported; when nothing is   *)
(* to be reported and time is left, the thread waits once more.               *)
WaitEnd(t) ==
  /\ at[t] = "polled"
  /\ \E no \in Refusals :
       LET fed == FeedAll([port EXCEPT !.active = @ - 1], held[t], no)
       IN \/ port' = UpdateIfPolling(fed, no) /\ Move(t, "polled", "unref")
          \/ /\ held[t] # <<>> /\ Counted(t) = {}
             /\ PollFrom(t, "polled", fed, no)
  /\ held' = [held EXCEPT ![t] = <<>>]
  /\ UNCHANGED <<iocp, packets, ready, aborted>>

(* epoll_close(): port_close(), under the lock. *)
PortClose(t) ==
  /\ Move(t, "close", "drop")
  /\ iocp' = FALSE /\ packets' = <<>>
  /\ UNCHANGED <<port, held, ready, aborted>>

(* port_delete() takes what is in the tree and then what waits for a packet. *)
DeleteAll(p, cells) ==
  LET after[k \in 0..Len(cells)] ==
        IF k = 0 THEN p ELSE Delete(after[k - 1], cells[k], TRUE, {})
  IN after[Len(cells)]

InTree(p) == {p.tree[s] : s \in Sockets} \ {NULL}

(* Mutant for DeletesAll: the sockets deleted earlier are forgotten. *)
EmptiedMutant(p) == DeleteAll(p, SetToSeq(InTree(p)))

Emptied(p) ==
  LET rest == DeleteAll(p, SetToSeq(InTree(p))) IN DeleteAll(rest, rest.deleted)

PortDelete(t) ==
  /\ Free(t)
  /\ port' = NewPort
  /\ UNCHANGED <<iocp, packets, held, ready, aborted>>

EpollClose(t) ==
  \/ "close" \in Roles[t] /\ StartClose(t) /\ UNCHANGED portVars
  \/ PortClose(t)
  \/ (Drop(t) \/ Poison(t)) /\ UNCHANGED portVars
  \/ PortDelete(t)

------------------------------------------------------------------------------
(* The kernel and the owners of the sockets. *)

Post(cells) == packets' = IF iocp THEN packets \o cells ELSE packets

Finish(c, status, found) ==
  /\ port' = [port EXCEPT !.cell[c].iosb = status, !.cell[c].found = found]
  /\ Post(<<c>>)
  /\ UNCHANGED <<refVars, iocp, held, ready, aborted>>

(* A poll ends: cancelled, or with what it found, ... *)
Complete(c) ==
  LET d    == port.cell[c]
      seen == ready[d.sock] \cap AfdOf(d.pending)
  IN /\ d.iosb = "pending"
     /\ \/ d.status = "CANCELLED" /\ Finish(c, "cancelled", {})
        \/ d.status = "PENDING" /\ seen # {} /\ Finish(c, "success", seen)

(* ... or in an unexpected way. *)
CompleteFails(c) ==
  /\ "status" \in Faults
  /\ port.cell[c].iosb = "pending" /\ port.cell[c].status = "PENDING"
  /\ Finish(c, "failed", {})

(* closesocket() ends every poll on the socket. *)
CloseSocket(s) ==
  /\ ready[s] # Closed
  /\ ready' = [ready EXCEPT ![s] = Closed]
  /\ LET ended == {c \in port.heap : port.cell[c].sock = s /\ port.cell[c].iosb = "pending"}
     IN /\ port' = [port EXCEPT !.cell = [c \in Cells |->
                      IF c \in ended
                      THEN [port.cell[c] EXCEPT !.iosb = "success", !.found = Closed]
                      ELSE port.cell[c]]]
        /\ Post(SetToSeq(ended))
  /\ UNCHANGED <<refVars, iocp, held, aborted>>

(* What is true of an open socket changes, or its number is used again. *)
Change(s) ==
  /\ \E condition \in Conditions \ {ready[s]} : ready' = [ready EXCEPT ![s] = condition]
  /\ UNCHANGED <<refVars, port, iocp, packets, held, aborted>>

Caller(t) ==
  \/ EpollCreate(t) \/ EpollEnter(t) \/ EpollLeave(t) \/ Epoll_ctl(t)
  \/ WaitStart(t) \/ Dequeue(t) \/ DequeueFails(t) \/ WaitEnd(t)
  \/ EpollClose(t)
  \/ \E u \in Threads : Meet(t, u) /\ UNCHANGED portVars

Environment == \/ \E c \in Cells : Complete(c) \/ CompleteFails(c)
               \/ \E s \in Sockets : CloseSocket(s) \/ Change(s)

(* A failed assertion ends the program. *)
Next == Running /\ ((\E t \in Threads : Caller(t)) \/ Environment)

Spec == Init /\ [][Next]_vars

(* Every thread ends the calls it has begun, a waiting thread calls           *)
(* epoll_wait() again and again, and the kernel ends a poll that is cancelled *)
(* or has something to report.                                                *)
Fairness ==
  /\ \A t \in Threads :
       /\ WF_vars(Running /\ at[t] # "out" /\ Caller(t))
       /\ WF_vars(Running /\ Roles[t] = {"wait"} /\ EpollEnter(t))
  /\ \A c \in Cells : WF_vars(Running /\ Complete(c))

FairSpec == Spec /\ Fairness

------------------------------------------------------------------------------
Cell ==
  [ sock : Sockets \cup {NULL}, group : Nat, user : SUBSET (Known \cup {"ONESHOT"}),
    pending : SUBSET (Known \cup {"ONESHOT"}), status : {"IDLE", "PENDING", "CANCELLED"},
    deleted : BOOLEAN, iosb : {"none", "pending", "success", "cancelled", "failed"},
    found : SUBSET (AfdOf(Known)) ]

(* The types, with the count of the threads that wait. *)
PortTypeOK ==
  /\ RefTypeOK
  /\ port.heap \subseteq Cells
  /\ port.cell \in [Cells -> Cell]
  /\ port.tree \in [Sockets -> Cells \cup {NULL}]
  /\ port.active = Cardinality({t \in Threads : at[t] \in {"polling", "polled"}})
  /\ packets \in Seq(Cells) /\ held \in [Threads -> Seq(Cells)]

(* What is allocated is either registered or waits in the queue of deleted    *)
(* sockets for its packet, never both, and nothing deleted is to be updated   *)
(* (win-epoll.c:1775): the two queues share one node.                         *)
Registered ==
  /\ PortTypeOK
  /\ IsInjective(port.update) /\ IsInjective(port.deleted)
  /\ ToSet(port.update) \subseteq port.heap /\ ToSet(port.deleted) \subseteq port.heap
  /\ \A c \in port.heap :
       LET d == port.cell[c]
       IN IF d.deleted
          THEN /\ c \in ToSet(port.deleted) \ ToSet(port.update)
               /\ d.status # "IDLE" /\ port.tree[d.sock] # c
          ELSE c \notin ToSet(port.deleted) /\ port.tree[d.sock] = c
  /\ \A s \in Sockets : port.tree[s] # NULL => port.tree[s] \in port.heap

PacketsOf(c) ==
  LET Among(cells) == {k \in DOMAIN cells : cells[k] = c}
  IN Cardinality(Among(packets))
       + Cardinality(UNION {{<<t, k>> : k \in Among(held[t])} : t \in Threads})

(* Each poll that was submitted ends in exactly one packet, and its buffers   *)
(* are there until the packet was processed; other cells get none.            *)
OnePacket ==
  /\ \A t \in Threads : ToSet(held[t]) \subseteq port.heap
  /\ iocp => \A c \in Cells :
       PacketsOf(c) + (IF port.cell[c].iosb = "pending" THEN 1 ELSE 0)
         = IF port.cell[c].status = "IDLE" THEN 0 ELSE 1

(* What the caller wants to know of a socket is being watched for, or will be *)
(* when the packet of a cancelled poll arrives, or at the next update.        *)
Watched ==
  \A c \in port.heap :
    LET d == port.cell[c]
    IN \/ d.deleted \/ c \in ToSet(port.update) \/ d.status = "CANCELLED"
       \/ d.status = "PENDING" /\ Wanted(d) \subseteq d.pending

(* While a thread waits for packets nothing is left for a next update, unless *)
(* the kernel refused a request: that error is dropped (win-epoll.c:1190).    *)
QueueServed == port.active > 0 => port.update = <<>>

Members(p, g) == {c \in p.heap : p.cell[c].group = g}

(* The count of each poll group is the number of its sockets, never more than *)
(* the driver takes, and groups with room stand behind those without, so that *)
(* a new group is only made when all are full.                                *)
GroupsPacked ==
  /\ \A g \in ToSet(port.groups) :
       /\ port.size[g] = Cardinality(Members(port, g))
       /\ port.size[g] \in 0..MaxGroup
  /\ \A j, k \in DOMAIN port.groups :
       j < k /\ port.size[port.groups[k]] = MaxGroup => port.size[port.groups[j]] = MaxGroup

(* port_delete() frees every cell, and its assertions hold: no group has a    *)
(* socket left (win-epoll.c:982), and none is to be updated (1161).           *)
DeletesAll ==
  \A t \in Threads : at[t] = "delete" =>
    LET last == Emptied(port)
    IN /\ last.heap = {} /\ last.update = <<>> /\ ~iocp
       /\ \A g \in DOMAIN last.size : last.size[g] = 0

(* epoll_wait() reports a socket only while it is registered, and by the      *)
(* registration it has now.                                                   *)
ReportsOnlyRegistered ==
  \A t \in Threads : at[t] = "polled" =>
    \A c \in Counted(t) : port.tree[port.cell[c].sock] = c

(* The assertion in port_get_iocp_handle() (win-epoll.c:1447). *)
NeverAborts == ~aborted

Watching(s, events) ==
  /\ port.tree[s] # NULL
  /\ port.cell[port.tree[s]].user = events \cup {"ERR", "HUP"}
  /\ EpollOf(ready[s]) \cap events # {}

(* What stays true of a socket, and is wanted, is reported again and again.   *)
Delivered ==
  \A s \in Sockets : \A events \in Interests[s] :
    <>[]Watching(s, events)
      => []<><<\E t \in Threads : WaitEnd(t) /\ port.tree[s] \in Counted(t)>>_vars

(* epoll_close() returns: the threads in the port leave it. *)
CloseReturns == \A t \in Threads : at[t] = "await" ~> (at[t] = "out" \/ aborted)
==============================================================================
