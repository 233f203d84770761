# Verification of nxbench

nxbench is a benchmark client for web servers: one thread opens a fixed number
of TCP connections, sends the same HTTP request over and over on each of them,
and counts what happens. This directory models the program in TLA+, checks the
models with TLC and proves the properties that matter most with TLAPS.

Paths below are relative to the repository; `main.c` is `src/src/main.c` and so
on for the other sources.

## The system

| Part | Source | State | Operations |
|---|---|---|---|
| worker | `main.c` 89-499, 527-573 | `run->concurrency`, the counters, the batch of events, per connection the bytes of the request sent, `is_connected` and the parser | one pass of `run_loop()`: top up connections, `epoll_wait()`, serve each event (send, receive, send again, close) |
| connection pool | `main.c` 89-117, 562-570 | two linked lists threaded through `info->next` | `_info_alloc()`, `_info_free()` |
| HTTP response parser | `http-response.c` | `http_response_t`: one packed integer and a few numbers | `http_rsp_parse()` with whatever `recv()` returned |
| pattern matcher | `smack1.c`, `smackqueue.c` | automaton tables, built once | add patterns, compile, search with a resumable state |
| startup test | `main-pretest.c` | none that lasts | one connection per pair of source and target, before the worker starts |
| configuration | `main-conf.c` | `main_conf_t` | command line, configuration file, URL |
| request editor | `http-request.c` | the request's bytes | replace, insert or remove a header field |
| statistics | `main.c` 575-654 | per counter the last total and a smoothed rate | once a second |
| random numbers | `util-rand.c` | key stream and position | bytes, numbers below a bound |
| Windows epoll | `win-epoll.c` (wepoll) | a tree of ports, each guarded by a reference lock; per port a tree of sockets, their pending polls, queues of updates and of deleted sockets, poll groups | `epoll_create()`, `epoll_ctl()`, `epoll_wait()`, `epoll_close()` over a completion port |
| terminal | `util-tui.c` | none | escape codes |

How they interact. `main()` initialises the parser, which builds its two
matchers; reads the configuration, which edits the request; runs the startup
test; builds the worker; and calls `run_loop()` until it returns 0. The worker
calls the pool when a connection opens and closes, the parser for every
`recv()`, and the random numbers to choose addresses. There is one thread; what
runs concurrently with it is the kernel and the servers, seen through the
results of the system calls and through `epoll_wait()`. On Windows `epoll_wait()`
is the wepoll library, which is written for any number of threads, with the AFD
driver working beside them.

What is hard here:

- *Stale events.* A batch of events names connections that earlier events of
  the batch may close. Nothing in the loop checks for that; it is correct only
  because epoll reports each socket once and a slot is reused only outside of
  the loop.
- *Order of the tests.* `EPOLLOUT`, `EPOLLERR`, `EPOLLIN` and `EPOLLHUP` are
  tested in this order and each branch ends the turn. A socket usually has
  several of them at once, a failed one all four.
- *Partial sends*, in two places, with different ways of going on.
- *Data cut anywhere*: the parser keeps its place in one integer.
- *Unsigned arithmetic* on results that can be -1, and on lengths that the
  server chooses.
- *Servers that close, reset, refuse, answer early or send too much.*
- *State packed into integers between calls*: the position of a search with the
  matches still to be told, the position of the parser, count and flags of the
  reference lock.
- *Outstanding polls*: the kernel writes into a socket's record after the caller
  has deleted the socket, or closed the port, and while other threads change it.
- *Blocks and their boundaries*: the key stream, the counter's words, the last
  block of a hash.
- *Trees under long sequences* of additions and deletions.
- *Options that take effect at once*, so that their order matters.

`PROJECT.json` lists the hazards line by line.

What makes each part correct:

- worker: every open connection is in the pool's books, registered and counted;
  the request goes out whole and aligned; responses are counted once each; the
  events asked for fit what is left to do; connections that ended are closed;
  the job ends;
- pool: the free list is exactly the unused slots;
- parser: it consumes one response and no more, says so with its last byte, and
  does not depend on how the stream is cut;
- matcher: it finds what a direct definition of matching finds, each match once,
  however the text is cut;
- startup test: it succeeds exactly when every pair connects;
- configuration and request editor: the configuration is what the URL and the
  options say, an edit changes the named field alone;
- random numbers: the bytes of the key stream come in order and once; the hash
  compresses the padded message;
- Windows epoll: no thread uses a freed port; each poll ends in one packet and its
  record lives until then; what a caller wants to know is watched for and
  reported, and nothing of a socket that is not registered; closing ends.

## Modules

- `Sockets` is *external*: the kernel and the server. Per slot one socket, with
  what has arrived (`rx`), what the server still owes (`owed`), how much of the
  current request it has (`got`), whether it closed its side (`fin`), and so on.
  Payload is counted in units: a request is `ReqLen` units, a response `RspLen`.
  `Ready` and `Reported` are epoll's level-triggered readiness, for Linux and
  for the Windows emulation; `Faults` switches on what may go wrong.
- `RunLoop` EXTENDS it with the worker. `pc` is the place in `run_loop()`; each
  turn of the loop that creates connections, each `epoll_wait()` and each event
  served is a step, with the network free to move in between. One action stands
  for each branch of the code, including the helpers it calls (`CloseSlot` is
  `_connection_close()` with `_info_free()`, `OpenSlot` the end of
  `_connection_create()` with `_info_alloc()`). `n` and `events` are kept
  apart, because in the code nothing but the result of `epoll_wait()` ties the
  one to the other. `filled` is the array `run->events` as far as any call has
  filled it in: a failed `epoll_wait()` leaves it, and the loop serves it again from
  its start (`WaitFails`), slots closed or given to other connections since included.
  The actions therefore name a slot `c` and a descriptor `fd` apart. In a slot in use
  they are of one connection; in a free one the descriptor is closed, or the kernel has
  given its number to a connection that is open now (`Descriptors`). On a closed one
  `send()` and `recv()` fail and `_connection_close()` ends the program
  (`ServeClosed`). Behind the filled entries the model stops (`ReadPastEvents`).
- `RequestCycle` is the abstract specification: a connection is idle, sending or
  awaiting an answer, and a response is counted only when one is awaited.
  `WorkerCycle` has the refinement mapping and the invariant it rests on;
  `MCRunLoop` instantiates it for TLC.
- `ConnPool` has the linked lists, `SlotPool` what they promise: a set of free
  slots. RunLoop uses that set. The lists in their full detail would multiply
  its states without changing any step.
- `HttpResponse` is `http_rsp_parse()` as operators, one per state of the
  parser. `ResponseStream` calls it as the worker does, with a stream cut into
  any pieces, and `ResponseCounter` is what the worker relies on: RunLoop's
  `seen` is this counter. It promises nothing of a header without a length.
  `MCHttpResponse` has the texts.
- `Pretest` is `pretest_connections()` with `test_connection()`: `pc` is the call
  that is next, `s` and `t` the indices of the two loops, `fd` the local variable,
  `descriptors` what the process really has open, `net` the attempt as the kernel
  sees it, moving while `select()` waits. Its last action is the choice of
  addresses at the start of `_connection_create()`, which ends only because of
  what the test established. It stands alone: `RunLoop` begins where it ended.
- `Reflock` is the life of an epoll port: found in the tree of handles and
  referenced in one step under the tree's lock (`Enter`), given back (`Unref`),
  taken out of the tree, dropped and freed by `epoll_close()` (`StartClose`, `Drop`,
  `Meet`, `Poison`, `Free`). `refs` and `mark` are the count and the flags of the
  lock's word, `at` the place of each thread. A call moves between its places
  freely here.
- `WepollPort` EXTENDS it with what the calls do between entering and leaving.
  `port` is what `port_state_t` guards with its lock, and each action that changes
  it is one critical section; `epoll_wait()` is cut where it gives the lock up
  (`WaitStart` or `WaitEnd` to `Dequeue`). `port.cell` are the `sock_state_t`, by
  address: `port.heap` are the allocated ones. The operators on `port` are the
  functions of the code (`SockUpdate`, `Feed`, `Delete`, `Acquire`, ...). `ready`,
  `packets`, `iocp` and the actions of `Environment` are external: sockets, polls of the
  driver and the completion port. `MCWepoll` has the threads and the events.
- `RbTree` is the red-black tree of the library: nodes linked in place, as the code
  relinks them. `WepollPort` uses a function from sockets instead.
- `Smack` builds the automaton with the stages of `smack_compile()`, one operator
  each, and searches it block by block.
- `HttpRequest` is `http_edit_request()` on tokens. `is_eol()` (`http-request.c:101`) is
  given the address of the pointer to the header (`hdr` is an `unsigned char **`) and
  reads it as an array of `int`: it looks at the memory around the pointer variable and
  never at the header. What it takes for a line end there is a choice (`Misreads`).
- `Conf` EXTENDS it with the command line: each argument is one step of
  `main_conf_read()`, with what the code makes of an argument (a number, addresses,
  a URL) given by the constant `What`. The request is edited as the code edits it.
- `Rand` hands out an abstract key stream, a byte being where it comes from; the
  exclusive or by which a stir mixes a word is the constant `Mix`, which the run sets;
  `Sha512` is the buffering and padding of the hash, up to the blocks that are
  compressed.
- `MCLibrary` puts the parts that a caller uses on its own next to each other
  (`ConnPool`, `RbTree`, `Smack`, `Conf`, `Rand`, `Sha512`): in a behaviour one of
  them is at work and the others idle.
- `Worker_proofs`, `Pretest_proofs`, `HttpResponse_proofs`, `WepollPort_proofs`,
  `Conf_proofs` (the command line and the request) and `Library_proofs` (the pool, the
  hash and the random numbers) have the theorems; `PortOps_proofs` has what the
  operations of `WepollPort` do to a port, on which its theorems rest, and `Induction`
  induction over the numbers.

The definitions `...Mutant` before an operator are plausible mistakes in it;
each is named by the property that rules it out, and no specification uses them.

What the models abstract from:

- `EPOLLRDHUP` is redefined as 0 (`main.c:23-24`); branches on it are dead code
  and are left out.
- In `RunLoop` the addresses of a connection, and with them the random choice; in
  `Pretest` everything about an address but its family.
- Logging. `getsockopt()` and its error text on the way to `exit(1)`.
- `epoll_ctl()` failing for a registered socket (`DEL`, `MOD`): it cannot, the
  descriptor is open and registered (`PoolConsistent`). It fails for one that is
  closed, which only a failed `epoll_wait()` leads to (`ServeClosed`, `Modified`).
- Which connection has the number of a descriptor that was closed: the model allows
  any that is open, as it does not keep the order in which numbers are given out.
- Of the Windows epoll: `epoll_data_t`, timeouts (a wait may always end), error
  codes, and which of several failures a call met.
- Of a pattern and a text all but which characters are equal, and equal but for
  case; of the number of states and matches the widths they are stored in.
- Of a response, the version numbers and the search for `<title`, which no
  result depends on. A byte is a character or a digit; upper and lower case are
  one. Of the field names only Content-Length matters, and the matcher is
  represented by how much of it the current line has matched.

## Runs

All of `MCRunLoop` unless said otherwise. `pass`:

| Run | Checks | Instance |
|---|---|---|
| `RunLoopFaults` | `TypeOK`, `PoolConsistent`, `NeverOutOfMemory`, `EventsFresh`, `Accounting` | 2 slots, `--shutdown`, every fault but partial sends: refusals, failing `connect()` and `socket()`, a failing `epoll_wait()` with the events served after it, fin, reset, data nobody asked for; `EventsFresh`, and that the pool agrees with the registrations, until an `epoll_wait()` fails (`Intact`) |
| `RunLoopWepoll` | `ParserReady`, `ReadOutBeforeClose` | 2 slots, Windows events, whole sends, `recv()` of one unit, fin, reset, refusals |
| `RunLoopCycle` | `RefinesRequestCycle`, `StreamAligned`, `InterestMatches`, `KeepsReceiving`, `DataIsRead`, `FinIsClosed` | 2 slots, partial sends, refusals, resets, servers that hang up at any point but only send what was asked for, fairness |
| `Pretest` (`Pretest`) | `TypeOK`, `EveryPairOnce`, `NoDescriptorLeft`, `FamiliesAgree`, `PassedIsReached`, `Ends` | all configurations of up to 2 sources and 2 targets, every call may fail, Windows, fairness |
| `HttpResponse` (`MCHttpResponse`) | `FragmentationIndependent`, `ImplementsResponseCounter` | all cuts of well-formed responses, with every kind of header line before and after the length, and bytes after the end; all headers of up to 4 bytes of an alphabet that reaches every state; no CR but at the ends of lines |
| `WepollPort` (`MCWepoll`) | `Registered`, `OnePacket`, `Watched`, `GroupsPacked`, `DeletesAll`, `ReportsOnlyRegistered` | a thread that waits and one that adds, changes, deletes and closes; 2 sockets, closed and reused, 2 records, groups of 2; polls the kernel refuses |
| `WepollLive` (`MCWepoll`) | `NoUseAfterFree`, `LockAsserts`, `QueueServed`, `Delivered`, `CloseReturns` | the same threads, a socket whose condition changes, one-shot interests, devices that cannot be opened, polls that fail, fairness |
| `Library` (`MCLibrary`) | `FreeListExact`, `ImplementsSlotPool` of the pool, `RedBlack`, `FindsAll`, `AsAsked`, `RequestEdited`, `BytesInOrder`, `Padded` | 4 slots; 8 keys; pairs of patterns and a set of header names; up to 3 arguments of 18; blocks of 3 bytes and words of one bit; messages of up to 26 bytes |

The sizes. Two connections are needed for one event of a batch to affect
another, and suffice for it, since an event touches one slot. Two units make a
request or response that can be partial. `RcvBuf` is larger than a response where
excess data is to fit, and `BufLen` is smaller than `RspLen` or `RcvBuf` so that
`recv()` must take several calls.
`MaxCreate` (10 in the code) is 1: it is only a bound on one pass of the loop.
`CounterMax` (2^64 - 1) is 1, so that every counter wraps in every run; a run
follows only the counters its properties read (`Counters`), as no step depends
on one. `SizeMax` is 7, larger than any number of events. `Wide` (2^64) exceeds
all lengths in the texts. `MaxExtra` bounds what a server sends unasked. Two
sources and two targets are enough for every turn of the two loops of the test:
the first, one that is followed by another, and the last.

In the port, one record is reused while the other waits for its packet, and two
records are all the memory there is: the first fills a group of two (32 in the
code) in part, the second fills it, and a third addition makes a second group
before it fails for want of memory, so that full, partly filled and empty groups
change places. With a third record, and sockets in both groups, the states are
more than TLC can go through. Two threads are one in the middle of `epoll_wait()`
and one that does everything else; a third that closes meanwhile is in
`WepollAborts`. `MaxEvents` 1 leaves packets for the next
call. Safety is checked with any condition arising at any time, liveness with
conditions that come and go (`Conditions`) and one socket: sockets share only the
queue of updates, which `QueueServed` says is emptied before each wait.

In the library, eight keys reach every case of both rebalancings (trees of black
height 3, deletions with a successor that is and is not a child). The patterns
have up to three letters of two, in either case, so that they are prefixes,
suffixes and parts of each other, with and without anchors; texts have up to three
characters of five, some in no pattern, in blocks of up to two, with the search for
further matches and for the end at any place. Three arguments are an option, its
value and what follows, or two options and a URL, in every order. A counter word
of one bit and a hand-out of up to 24 bytes carry through all three words. Messages
of up to 26 bytes in pieces of up to 20 are more than three blocks of 8 bytes, in
which the length of 2 bytes fits or does not.

`violation` runs show where the code disagrees with what it says of itself; each
is a finding in `PROJECT.json`:

| Run | Shows |
|---|---|
| `RunLoopRequestCount` | the job never ends by having sent `request_count` requests |
| `RunLoopInterrupted` | a failed `epoll_wait()` makes the loop serve events that were not returned: those of earlier calls again, and then the entries behind them |
| `PretestRefused` (`Pretest`) | on Linux the startup test succeeds although a target refuses |
| `WepollAborts` (`MCWepoll`) | a thread that adds a socket while another closes the port fails an assertion: the completion port is closed before the reference is waited for |

`HttpResponse` ends when a text is read, and so do the parts of `Library` when a
bound is reached; they do not check for deadlock. The others do. `Terminated` is
the program that has ended; `WepollPort` ends with a failed assertion.

## Where the properties stop

Each property above is stated as far as it holds. What lies beyond is in the
models as the code has it, and TLC shows it with the setting named here:

- A failed `epoll_wait()`, a signal for instance, leaves the loop with 2^64 - 1 events.
  It goes through those of earlier calls again: a slot that was closed is closed a second
  time, one that was given to another connection is served for an event of the
  old, and through a descriptor number that was given away the event reaches a
  third. `EventsFresh` and the second half of `PoolConsistent` are stated up to
  that point (`Intact`) and fail after it; the types, the first half of `PoolConsistent`
  and `Accounting` hold on. The other runs of the worker have no failing
  `epoll_wait()`, and the theorems about conversations assume `WaitsSucceed`. The loop never
  gets back to creating connections: before its count is used up it has left the
  array.
- With partial sends `ParserReady` fails. `RecvAndResend` clears the parser only
  when the next request went out whole (`SeenAfterResend`, `main.c:442-453`);
  otherwise the next response is added to a finished one.
- With `--shutdown` (`IsShutdown`) and a response that is read in one piece, the
  next request can never be sent, since the connection was half closed.
  `KeepsReceiving` is checked without it.
- A response that comes before the request is sent whole (`"extra"`) leaves
  `EPOLLOUT` registered for a request that is then complete. `InterestMatches`
  and the theorems about it assume a server that only answers.
- A refused connection is reported with `EPOLLOUT` first: it is counted as
  succeeded and, as `send()` fails without a consequence, keeps its slot; so does one
  that is aborted with part of a request unsent. `FinIsClosed` leaves both out.
- `_info_free()` makes the closed slot's successor the head of the active list,
  so with several connections entries are lost from it. Nothing reads that
  list; `FreeListExact` is about the other one.
- A content length close to 2^64 (`Wide`) wraps the parser's arithmetic and the
  response ends early. `ImplementsResponseCounter` is checked far below it, and proved for
  lengths whose sum with the header's size fits (`LengthsFit`).
- In `Watched`, `QueueServed` and `Delivered`: `epoll_ctl()` drops the error of an
  update that the kernel refuses (`win-epoll.c:1190`), and the update stays at the
  head of the queue and holds up the others. `Watched` says it is not lost;
  the other two are checked where no poll is refused on submission.
- A socket that is closed and whose number is used again can be added only when
  the packet of its closing was processed: until then the call fails with `EEXIST`.
- Of two patterns with the same text and an anchor at the end only the second is
  found (`smack_add_prefixes()` makes a new state for each). `FindsAll` is checked
  for distinct ones.
- `--count` and `--concurrency` do not skip their value, which is then read as a
  URL; `-n 1` becomes 1000; `--targetip` takes the port that is known so far; a URL
  with a port and a query without a path (`http://host:port?path`) loses its last byte
  (`main-conf.c:253-265`). `AsAsked` says where it does not apply.
- `RequestEdited` is about edits in which `is_eol()` found no line end in the memory
  around the pointer it is given (`misread`).
- `DeletesAll` says that `port_delete()` frees everything. Polls may be outstanding then,
  whose buffers the driver writes to; that closing the handles ends them first is the
  driver's, and not in the model.
- `util_rand_stir()` leaves the block that is being handed out: the rest of it
  comes from before the stir. `BytesInOrder` says so exactly.
- A CR inside of a field name is skipped if a buffer begins with it and is part
  of the name if not. `FragmentationIndependent` is checked without, and proved for
  responses in which each CR is followed by LF (`CRsEndLines`).

## Fairness

`Fairness` of `RunLoop` is weak fairness of the worker, a single thread that
blocks only in `epoll_wait()`, for at most 10 milliseconds, and of the network for
each connection: it is established, what was sent is taken, what is owed arrives.
Nothing is assumed of faults. A server that keeps closing connections owes no
responses, so `KeepsReceiving` is about behaviours in which none does.

`FairSpec` of `Pretest` is weak fairness of the program alone: one thread, whose
only blocking call is `select()`, for at most 5 seconds. Of the network nothing is
assumed, and no call has to fail (`Regular`).

`FairSpec` of `WepollPort`: each thread goes on with a call it is in, as the code
never blocks but for the locks, which are held for one step, for the references of
the others and for packets; a thread that waits calls `epoll_wait()` again, as a
program's loop does; and the driver completes a poll that was cancelled or that
has something to report. Nothing is assumed of sockets, of faults, or of
`epoll_ctl()` and `epoll_close()` being called.

## Proofs

Of the constants only what the modules' assumptions say is assumed: positive
lengths, finite sets of connections and of records, a number of connections that
fits a `size_t`, callers that ask for events there are, names that `tolower()` keeps apart
(`SocketsAssumption`, `RunLoopAssumption`, `PortAssumption`, `InterestAssumption`,
`LowerAssumption`, ...). TLC evaluates them
in every run. Where a theorem needs more, it says so in its statement.

The worker, in `Worker_proofs`, for all settings and both backends. The inductive
invariant is `IInv`: types, `LoopControl`, `PoolConsistent` and `EventsFresh`. None is
inductive alone. That concurrency does not go below zero when a connection is closed needs
`PoolConsistent` (it is the number of registered sockets, and what is closed is one); that
this is the socket of the event's own slot needs `EventsFresh` (the slot is a used one).
`LoopControl` says besides that the loop has as many events to go through as were
returned, or more, and the latter only after an `epoll_wait()` has failed. That the rest
of the batch stays fresh when a slot is closed needs that no two events name the same
slot, and that `CreateConnection` reuses no slot a pending event names needs that there is
no pending event (`LoopControl`). Theorems: `TypeCorrect`, `PoolIsConsistent`,
`PoolSuffices` (`_info_alloc()` never finds the pool empty), `EventsStayFresh`, and
`EveryAttemptAccounted`: modulo the width of the counters every connection attempted was
closed under one reason or is still open, if the counters concerned are followed. They
hold with every fault, a failing `epoll_wait()` included; but what `EventsFresh` and the
second half of `PoolConsistent` say, they say of the time before it (`Intact`), as what
they say is false after it.

Its second part assumes `ServerAnswersOnly`, the server sends nothing it was not asked
for, and `WaitsSucceed`, no `epoll_wait()` fails, so that every event is served on the
socket of its own slot (`ServesOwn`); the refinement also needs that the counters of
requests and of responses are followed (`CountsBoth`), as it speaks of them. `CycleInv`
says of each open connection where its conversation stands (what is asked for, what the
server has, what is owed), and that an event with `EPOLLOUT` is still about an unsent
request when it is served: serving another event of the batch does not touch it. From
`IInv` and `CycleInv` follow `InterestFollowsRequest`, `StreamStaysAligned` and
`WorkerRefinesCycle`, the refinement of `RequestCycle`: the initial state maps to the
initial state, and each action to one of its steps or to a stutter. With requests that go
out whole (`WholeSends`) the parser is at its start whenever a new response can arrive
(`ParserStaysReady`), and a connection that the server closed in an orderly way is closed
only when its data was read (`DataIsReadOut`; on Windows, or without `--shutdown`, where
`EPOLLHUP` comes last: `HupIsLast`). "Where the properties stop" says what happens without
the assumptions.

`Pretest_proofs`, for any number of addresses. The inductive invariant is `PInv`:
types, `NoDescriptorLeft`, `CurrentPair` (what is known of the pair under test at
each place) and `OtherPairs`: the pairs before it in the order of the loops
(`Earlier`) were tried once and their families agree, those after it were not
tried. `EveryPairOnce` and `FamiliesAgree` are what is left of `OtherPairs` when
all pairs are earlier. Theorems: `PretestTypes`, `PairsAreTriedOnce`,
`SocketsAreClosed`, `ChoiceIsImmediate`. `PassedMeansReached` adds `ReachedInv` (the
earlier pairs were connected) and assumes `RefusalsSeen`, that `select()` tells a
refusal from a connection or that nothing refuses; `PretestRefused` shows that it
is needed.

`HttpResponse_proofs`, for any magic, field name, width and texts. `ResponseTypeOK` needs
nothing else. For the other two theorems a parser that was fed the text in pieces is compared with
one that got all of it at once. In the header the two are `Alike` after each byte: they
agree in everything but how much of a name the matcher has behind it, which matters only in the
magic and in a name whose line has not ended, and but for whether a search began in this very buffer,
which matters only for a CR (`ByteAlike`, one lemma for each state). The loop over the bytes is a
recursive function; that it has a value for every buffer (`HeaderRun`) and what holds
between two runs of it (`RunsAgree`, `RunsAlike`, `RunStays`, `HeaderGrows`) is proved by
induction. In the content what the pieces have counted is what lies between the end of
the header and the last byte received, and less than the length promised (`Counting`); the
unsigned arithmetic of one piece then gives the same result as that of the whole
(`ContentAlike`). Together these are `Following`, which is the part of the inductive
invariant `StreamInv` that says what the worker cannot see; a call keeps it
(`PieceParsed`). From it `CutsDoNotMatter`, and with `Placed` (where in the response the
parser is when it says what) `ParserCounts`, the refinement of `ResponseCounter`.
They assume `CRsEndLines` and `LengthsFit` (see "Where the properties stop"), and the
refinement that a text's `length` is what its header says (`Measured`); TLC evaluates the
three on the texts of the run. That the digits of a header are read as the number they
write is left to TLC.

The lock, in `WepollPort_proofs`, for any finite set of threads. The inductive invariant is
`RefInv`: the count in the word is the number of threads that hold a reference
(`Holders`), and while the port is listed nobody closes it; at most one thread
closes; whoever waits or signals does so in a pair. That no thread uses a freed port
needs the count to be exact: the closer frees when it holds the last reference, or
when the last holder signals. The lemmas on the cardinality of the set of holders
(`GoSets`, `HoldersCount`) carry the arithmetic. Theorems: `RefCorrect`,
`NoUseAfterFreeHolds`, `LockAssertsHold`.

`PortOps_proofs` and `WepollPort_proofs`, for any threads, sockets, records, interests
and faults and any size of the groups. `PortUsesLock` shows that `WepollPort`
implements `Reflock` (with the same variables, so without a mapping): `epoll_ctl()` and
`epoll_wait()` move within the port, `epoll_close()` takes its steps in its order, and
the kernel touches none of it; `PortNoUseAfterFree` and `PortLockAsserts` follow.

What a port is between two operations is `PortInv`, in parts: a socket in the tree has
a record of its own that is allocated and not deleted (`Registry`); the update queue and
the queue of the deleted have each record at most once, an allocated record is in
the tree or among the deleted, and one that is deleted waits for its packet
(`Linked`, `Place`, `Idles`); a group's count is the number of records in it and never
above its size, and the full groups come first (`Grouped`, `Counts`); a record in the
tree is watched for what is wanted, or is cancelled, or in the update queue
(`PollOK`). An operation passes
through states in which this holds of all records but one: `Nearly(p, c)`. There is
a lemma for each function of the code that changes a port; the loops of
`port__update_events()`, `port__feed_events()` and `port_delete()` are recursive functions in the
model, and what they preserve is proved by induction (`UpdateLoop`, `FeedLoop`,
`DeleteLoop`). That a record is freed only when no packet can name it
any more needs `Keeps`: no operation but the one that takes a packet ends a poll.

The inductive invariant of the whole is `PortsInv`: `RefInv`, `PortInv`, the count of the
waiting threads, and how port and driver fit together: each pending poll is
with the driver or has one packet (`InFlight`), what threads have taken from the
completion port was for a pending poll (`Answered`), and nothing is left when the
port was closed (`Shut`). It was checked with TLC on the instance of the run
`WepollPort` before it was proved (`PortsCorrect`). From it: `SocketsRegistered`,
`WantedIsWatched`, `GroupsStayPacked`, `DeleteIsComplete`, `OnlyRegisteredReported`,
`EachPollOnePacket`, and `UpdatesAreServed`, which assumes that the kernel refuses no poll
on submission (`"poll" \notin Faults`, see above).

`Library_proofs`. The pool, for any number of slots: the free list is a chain of
distinct entries that ends (`Chain`), and these are the slots not in use; this is
inductive, as allocation takes the head off and release puts a slot that is not in
the list before it. `FreeListExact` follows the links, and by induction along
the chain finds its entries (`FreeListStaysExact`); `ListsImplementPool` is
the refinement of `SlotPool`. The hash, for blocks and lengths of any size: the bytes
hashed so far are those that were compressed followed by those the buffer holds
(`Remembers`), and the former are whole blocks. `util_sha512_update()` fills the
buffer, passes on whole blocks and keeps the rest, in which each of the three steps
preserves this; the arithmetic of the padding is that of a number that is divided
by the block size in one way only (`DivisionUnique`). Theorem: `HashIsPadded`.

The random numbers, for blocks and words of any size, any seeds, and calls and stirs in
any number and order. `Tape` says that the bytes handed out are the stream up to
there and that the generator holds the block that goes on, from the byte where the
last call ended; that its counter has the number of that block (`CountedFacts`:
the words carry as the digits of a number do); and that each stir shows in every
block begun after it, though not in the one that was being read. A turn of the loop in
`util_rand_bytes()` preserves this (`Advance`), by induction all its turns do
(`DrawnKeeps`), and so does a stir (`StirKeeps`). That no byte comes twice
(`TapeIsInjective`) then follows from arithmetic: the number of its block, its place in
it and, when nothing was stirred, the third word determine where a byte stands, as long as
the counter has not gone round. Of `Mix` it is assumed that it makes a word of two
words, and nothing else. Theorem: `StreamInOrder`; TLC checked the invariant
(`RandInv`) on the instance of the run `Library` first.

`Conf_proofs`. `http_edit_request()`, for any header fields and values: the request is
`Written` from its parts, a first line of three words and lines of a name, a colon and a
value, and the offsets at which the code stops are those where the parts meet. There is a
lemma for each of `_skip()`'s four kinds (`SkipsWord`, `SkipsName`, `SkipsLine`,
`SkipsSpaces`), for a word that is there and one that is not (`OldPart`, `NewPart`), for the
end of the line (`OldEnd`, `NewEnd`), and for the loop over the fields: it stops at the
first field of that name or at the empty line (`OffsetRun`, `OffsetIs`, by induction over
its turns). Cutting out the one line and inserting the other there is replacing the field,
or adding it at the end (`FieldReplaced`, `FieldAdded`). Theorem: `EditWritten`, for an
edit that keeps words words and lines lines (`GoodEdit`), of a request whose three words
are not empty.

The command line, for any arguments and any files they name. `UrlsHold` says what the
URLs read so far have set: server, port, and the path unless `--http-url` was given; a turn
of the loop keeps it, whatever it reads (`TurnHolds`), and what follows the loop
only fills in what is missing (`FinishAsks`). Theorem: `StartsAsAsked`, which needs no more
than the types of the arguments. `RequestAsEdited` adds `RequestInv`: the request is the
edits asked for so far, written, and its words are not empty as long as there is more to
read. It assumes `CleanCommand`: no argument puts a space or a line end into a word, a line
end into a field, a colon into a field's name, or nothing in the place of a word before
more is read. A request with such a part is not the text of any request, and the next edit takes it
for another one. All command lines of the run `Library` are clean, and TLC checked
`RequestInv` on them before it was proved.

Only model-checked: liveness (`KeepsReceiving`, `DataIsRead`, `FinIsClosed`, `Ends`,
`Delivered`, `CloseReturns`), as the provers have no reasoning about fairness; the tree and
the matcher (`RedBlack`, `FindsAll`), whose definitions are
recursive operators. The library's theorems on induction over sequences have an operator
as parameter and cannot be used; for numbers `Induction` has a form with sets.

## Not modelled

- The formatting of the report, `util-tui.c` and the messages: no state depends on
  them. The rates (`stats_calculate_rates()`, `main.c:575-597`): floating-point
  quotients by a time, which are printed and nothing else.
- The rounds of the cipher and of the hash: pure arithmetic on words, over spaces
  that no enumeration covers; `util-rand.c`'s own self test has the vectors. The
  uniform reduction (`util-rand.c:578`): its threshold is zero, so that it draws one
  number and rejects none; no caller in the program.
- In `smack1.c` wildcards and the SNMP hack, which no caller asks for, the variants
  with a callback, and the self tests and benchmarks. The parser and the matcher
  are not composed: `HttpResponse` takes for granted what `FindsAll` says of the set
  of header names, or its states would multiply by those of the automaton.
- In `win-epoll.c` the loading of the NT functions, the mapping of error codes, the
  one-time initialisation, the search for the base socket behind layered providers,
  and several ports at once, which share only the tree of handles. `Sockets` models
  the events that reach the worker, on its own: the whole port in the worker's runs
  would be out of TLC's reach.
- The socket shims in `unix-sockets.*` and `win-sockets.h`: they keep no state.

## Plan

Done, in this order: the worker, the pool, the parser, the startup test; the
reference lock and the port of the Windows epoll with its tree; the matcher; the
configuration and the request editor; the random numbers and the hash; proofs of
the worker, the startup test, the lock and the port's use of it, then of the port's
records, groups and polls, the pool, the hash and the random numbers, the parser, and the
command line with the request editor.

What could come next: that the tree stays ordered and balanced for any number of keys
(`RedBlack`); that what `WepollPort` reports is what `Sockets` says of the Windows events.
