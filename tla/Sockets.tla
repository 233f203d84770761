------------------------------- MODULE Sockets -------------------------------
(***************************************************************************)
(* The operating system and the web server as main.c sees them: one TCP    *)
(* socket per slot of the connection pool, what epoll reports of it, and   *)
(* what connect(), send(), recv() and shutdown() do to it.  None of this is *)
(* code of the repository; every definition is what the calls in main.c    *)
(* rely on.  Payloads are counted in units, a request being ReqLen units   *)
(* and a complete response RspLen of them.                                 *)
(***************************************************************************)
EXTENDS Integers, FiniteSets, SequencesExt

CONSTANTS
  Infos,      \* the myinfo_t's of the pool, each with the socket it owns
  ReqLen,     \* units in conf->request
  RspLen,     \* units in one complete response
  BufLen,     \* units one recv() can return (BUFFER_SIZE - 1)
  RcvBuf,     \* units the kernel holds for the program to read
  MaxExtra,   \* unsolicited units a server may send on one connection
  Backend,    \* "epoll" (Linux) or "wepoll" (the Windows build)
  Faults      \* what may go wrong outside of the program, see FaultKinds

FaultKinds ==
  { "refuse",   \* the server refuses a connection attempt
    "connect",  \* connect() fails at once, EADDRNOTAVAIL for one
    "fatal",    \* socket(), bind() or epoll_ctl(ADD) fails
    "wait",     \* epoll_wait() fails, EINTR for one
    "fin",      \* the server closes a connection in an orderly way
    "reset",    \* the server, or the network, aborts a connection
    "partial",  \* send() accepts only part of a request
    "extra" }   \* the server sends what was not asked for

ASSUME SocketsAssumption ==
  /\ IsFiniteSet(Infos)
  /\ ReqLen \in Nat \ {0}
  /\ RspLen \in Nat \ {0}
  /\ BufLen \in Nat \ {0}
  /\ RcvBuf \in Nat \ {0}
  /\ MaxExtra \in Nat
  /\ Backend \in {"epoll", "wepoll"}
  /\ Faults \subseteq FaultKinds

VARIABLES
  sock,       \* the kernel's state of each slot's socket
  interest    \* the events each socket is registered for, {} when it is not

sockVars == <<sock, interest>>

EventFlags == {"IN", "OUT", "ERR", "HUP"}
States     == {"closed", "connecting", "open", "failed", "reset"}

Socket ==
  [ st     : States,
    err    : BOOLEAN,          \* SO_ERROR is pending
    rx     : 0..RcvBuf,        \* received and not yet read
    fin    : BOOLEAN,          \* the server has closed its side
    wrshut : BOOLEAN,          \* shutdown(SHUT_WR) was called
    wfull  : BOOLEAN,          \* the send buffer is full
    got    : 0..(ReqLen - 1),  \* units of the current request at the server
    owed   : Nat,              \* response units the server has still to send
    extra  : 0..MaxExtra ]     \* unsolicited units sent so far

NewSocket(state) ==
  [ st |-> state, err |-> FALSE, rx |-> 0, fin |-> FALSE, wrshut |-> FALSE,
    wfull |-> FALSE, got |-> 0, owed |-> 0, extra |-> 0 ]

SocketsInit ==
  /\ sock     = [c \in Infos |-> NewSocket("closed")]
  /\ interest = [c \in Infos |-> {}]

------------------------------------------------------------------------------
(* What epoll_wait() would report of a socket. *)

Dead(s) == s.st \in {"failed", "reset"}

Readable(s) == s.rx > 0 \/ s.fin
Writable(s) == s.wrshut \/ ~s.wfull

(* Linux keeps reporting a dead socket as readable and writable; wepoll       *)
(* reports an abort as EPOLLHUP alone (win-epoll.c:1764).                      *)
Ready(s) ==
  {f \in EventFlags :
     \/ /\ s.st = "open"
        /\ \/ f = "IN"  /\ Readable(s)
           \/ f = "OUT" /\ Writable(s)
           \/ f = "HUP" /\ s.fin /\ s.wrshut /\ Backend = "epoll"
     \/ /\ Dead(s)
        /\ \/ f \in {"IN", "OUT"} /\ (Backend = "epoll" \/ s.st = "failed")
           \/ f = "ERR" /\ s.err  /\ (Backend = "epoll" \/ s.st = "failed")
           \/ f = "HUP" /\ (Backend = "epoll" \/ s.st = "reset")}

(* EPOLLERR and EPOLLHUP are reported whether they were asked for or not. *)
Reported(c) ==
  IF interest[c] = {} THEN {} ELSE Ready(sock[c]) \cap (interest[c] \cup {"ERR", "HUP"})

------------------------------------------------------------------------------
(* The system calls. *)

(* What send() may return when rem units are left to send. *)
SendResults(s, rem) ==
  IF rem = 0 THEN {0}
  ELSE IF s.st # "open" \/ s.wrshut \/ s.wfull THEN {-1}
  ELSE IF "partial" \in Faults THEN 1..rem
  ELSE {rem}

(* The socket once send() has returned k.  A server that holds a whole        *)
(* request owes one response for it; a failure consumes SO_ERROR.              *)
AfterSend(s, rem, k) ==
  IF k > 0
  THEN [s EXCEPT !.wfull = k < rem,
                 !.got   = (s.got + k) % ReqLen,
                 !.owed  = s.owed + RspLen * ((s.got + k) \div ReqLen)]
  ELSE [s EXCEPT !.err = FALSE]

(* recv(): what has arrived, then the pending error (-1), then the end (0);   *)
(* -1 also when there is nothing to read yet, or no such socket.              *)
RecvResult(s) ==
  IF s.rx > 0 THEN IF s.rx < BufLen THEN s.rx ELSE BufLen
  ELSE IF s.err \/ (s.st = "reset" /\ Backend = "wepoll") \/ ~(s.fin \/ Dead(s)) THEN -1
  ELSE 0

AfterRecv(s) ==
  IF s.rx > 0 THEN [s EXCEPT !.rx = s.rx - RecvResult(s)] ELSE [s EXCEPT !.err = FALSE]

Shutdown(s) == IF s.st = "open" THEN [s EXCEPT !.wrshut = TRUE] ELSE s

(* The mask once epoll_ctl(MOD) has asked for it: a descriptor that is not    *)
(* registered stays so.                                                       *)
Modified(c, mask) == IF interest[c] = {} THEN {} ELSE mask

------------------------------------------------------------------------------
(* What happens to a socket on its own account. *)

Establish(c) ==
  /\ sock[c].st = "connecting"
  /\ sock' = [sock EXCEPT ![c].st = "open"]
  /\ UNCHANGED interest

Refuse(c) ==
  /\ "refuse" \in Faults
  /\ sock[c].st = "connecting"
  /\ sock' = [sock EXCEPT ![c].st = "failed", ![c].err = TRUE]
  /\ UNCHANGED interest

(* The server takes what was sent, which makes room in the send buffer. *)
Drain(c) ==
  /\ sock[c].st = "open" /\ sock[c].wfull
  /\ sock' = [sock EXCEPT ![c].wfull = FALSE]
  /\ UNCHANGED interest

(* One more unit of a response arrives. *)
Respond(c) ==
  /\ sock[c].st = "open" /\ ~sock[c].fin
  /\ sock[c].owed > 0 /\ sock[c].rx < RcvBuf
  /\ sock' = [sock EXCEPT ![c].rx = @ + 1, ![c].owed = @ - 1]
  /\ UNCHANGED interest

(* The server sends early, or more than the length it announced. *)
RespondUnasked(c) ==
  /\ "extra" \in Faults
  /\ sock[c].st = "open" /\ ~sock[c].fin
  /\ sock[c].extra < MaxExtra /\ sock[c].rx < RcvBuf
  /\ sock' = [sock EXCEPT ![c].rx = @ + 1, ![c].extra = @ + 1]
  /\ UNCHANGED interest

(* The server closes its side; with --shutdown it has also seen the client    *)
(* close, and a server does that once it has answered.                        *)
Finish(c) ==
  /\ "fin" \in Faults
  /\ sock[c].st = "open" /\ ~sock[c].fin
  /\ sock' = [sock EXCEPT ![c].fin = TRUE, ![c].owed = 0]
  /\ UNCHANGED interest

Reset(c) ==
  /\ "reset" \in Faults
  /\ sock[c].st = "open"
  /\ sock' = [sock EXCEPT ![c].st = "reset", ![c].err = (Backend = "epoll"),
                          ![c].wfull = FALSE, ![c].owed = 0]
  /\ UNCHANGED interest

Network(c) ==
  \/ Establish(c) \/ Refuse(c) \/ Drain(c) \/ Respond(c)
  \/ RespondUnasked(c) \/ Finish(c) \/ Reset(c)
==============================================================================
