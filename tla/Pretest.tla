------------------------------- MODULE Pretest -------------------------------
(***************************************************************************)
(* main-pretest.c: before the worker starts, a connection is made from     *)
(* every source address to every target, one after the other; the first    *)
(* that fails ends the program.  Then the worker chooses its addresses     *)
(* (main.c:159-167).  Of an address only the family matters; without       *)
(* sources the system picks one, which fits any target.                    *)
(*                                                                         *)
(* main_conf_read() does not return a configuration without targets.       *)
(***************************************************************************)
EXTENDS Integers, Sequences

CONSTANTS
  Platform,     \* "linux" or "windows"
  Faults,       \* what may go wrong outside of the program, see FaultKinds
  MaxAddresses  \* the most sources, and targets, that are configured

FaultKinds ==
  { "name", "socket", "bind", "connect", "select",   \* the call fails
    "refuse" }                                       \* the target does not accept
Families == {"inet", "inet6"}

ASSUME PretestAssumption ==
  /\ Platform \in {"linux", "windows"}
  /\ Faults \subseteq FaultKinds
  /\ MaxAddresses \in Nat \ {0}

VARIABLES
  sources, targets, \* the families of the configured addresses
  pc,               \* the call that is next, or how it ended
  s, t,             \* the pair that is tested
  fd,               \* fd # -1
  descriptors,      \* the sockets the process has open
  net,              \* the connection attempt as the kernel sees it
  attempts,         \* connect() calls per pair
  reached           \* the pairs that were connected

conf == <<sources, targets>>
loop == <<s, t>>
vars == <<conf, pc, loop, fd, descriptors, net, attempts, reached>>

(* Without sources there is one turn, with source == NULL. *)
HasSource   == sources # <<>>
SourceCount == IF HasSource THEN Len(sources) ELSE 1
Pairs       == (1..SourceCount) \X (1..Len(targets))

FamiliesMatch(a, b) == HasSource => sources[a] = targets[b]

Init ==
  /\ sources \in UNION {[1..k -> Families] : k \in 0..MaxAddresses}
  /\ targets \in UNION {[1..k -> Families] : k \in 1..MaxAddresses}
  /\ pc = "name" /\ s = 1 /\ t = 1
  /\ fd = FALSE /\ descriptors = 0 /\ net = "none"
  /\ attempts = [p \in Pairs |-> 0]
  /\ reached = {}

------------------------------------------------------------------------------
(* Mutant for NoDescriptorLeft: the socket of a failed test stays open. *)
CloseSocketMutant == fd' = FALSE /\ net' = "none" /\ UNCHANGED descriptors

(* The labels success and fail: the socket is closed if there is one. *)
CloseSocket ==
  /\ fd' = FALSE /\ net' = "none"
  /\ descriptors' = IF fd THEN descriptors - 1 ELSE descriptors

Fail == pc' = "failed" /\ CloseSocket /\ UNCHANGED <<conf, loop>>

(* Mutant for EveryPairOnce: the first source stands for all of them. *)
NextPairMutant ==
  IF t < Len(targets) THEN pc' = "name" /\ t' = t + 1 /\ s' = s
  ELSE pc' = "passed" /\ t' = 1 /\ s' = s + 1

(* Mutant for TypeOK: the loop over the targets is not started anew. *)
NextTargetMutant ==
  IF t < Len(targets) THEN pc' = "name" /\ t' = t + 1 /\ s' = s
  ELSE /\ pc' = IF s < SourceCount THEN "name" ELSE "passed"
       /\ t' = t + 1 /\ s' = s + 1

(* The loops over the targets and over the sources go on. *)
NextPair ==
  IF t < Len(targets) THEN pc' = "name" /\ t' = t + 1 /\ s' = s
  ELSE /\ pc' = IF s < SourceCount THEN "name" ELSE "passed"
       /\ t' = 1 /\ s' = s + 1

Succeed == NextPair /\ CloseSocket /\ UNCHANGED conf

(* getnameinfo() of the target, and of the source, for the messages; when it  *)
(* fails there is no socket yet.                                              *)
Name ==
  /\ pc = "name"
  /\ pc' \in {"socket"} \cup IF "name" \in Faults THEN {"failed"} ELSE {}
  /\ UNCHANGED <<conf, loop, fd, descriptors, net, attempts, reached>>

CreateSocket ==
  /\ pc = "socket"
  /\ fd' = TRUE /\ descriptors' = descriptors + 1
  /\ pc' = IF HasSource THEN "bind" ELSE "connect"
  /\ UNCHANGED <<conf, loop, net, attempts, reached>>

SocketFails ==
  pc = "socket" /\ "socket" \in Faults /\ Fail /\ UNCHANGED <<attempts, reached>>

(* Mutant for FamiliesAgree: the result of bind() is not looked at. *)
BindMutant ==
  /\ pc = "bind"
  /\ pc' = "connect"
  /\ UNCHANGED <<conf, loop, fd, descriptors, net, attempts, reached>>

(* A source of another family than the socket's cannot be bound. *)
Bind ==
  /\ pc = "bind" /\ FamiliesMatch(s, t)
  /\ pc' = "connect"
  /\ UNCHANGED <<conf, loop, fd, descriptors, net, attempts, reached>>

BindFails ==
  /\ pc = "bind" /\ (FamiliesMatch(s, t) => "bind" \in Faults)
  /\ Fail
  /\ UNCHANGED <<attempts, reached>>

Attempt == attempts' = [attempts EXCEPT ![<<s, t>>] = @ + 1]

(* connect() of a socket that does not block: under way, ... *)
Connect ==
  /\ pc = "connect"
  /\ Attempt
  /\ pc' = "select" /\ net' = "connecting"
  /\ UNCHANGED <<conf, loop, fd, descriptors, reached>>

(* ... connected at once, ... *)
ConnectAtOnce ==
  pc = "connect" /\ Attempt /\ reached' = reached \cup {<<s, t>>} /\ Succeed

(* ... or impossible. *)
ConnectFails ==
  pc = "connect" /\ "connect" \in Faults /\ Attempt /\ Fail /\ UNCHANGED reached

(* The kernel: the target accepts or refuses while select() waits. *)
Established ==
  /\ net = "connecting"
  /\ net' = "established" /\ reached' = reached \cup {<<s, t>>}
  /\ UNCHANGED <<conf, pc, loop, fd, descriptors, attempts>>

Refused ==
  /\ net = "connecting" /\ "refuse" \in Faults
  /\ net' = "refused"
  /\ UNCHANGED <<conf, pc, loop, fd, descriptors, attempts, reached>>

(* What select() finds in wait_set and err_set.  A refused connection is an   *)
(* exception on Windows; on Linux it makes the socket writable, and only      *)
(* urgent data is an exception.                                               *)
Selected ==
  CASE net = "connecting"  -> {}
    [] net = "established" -> {"wait_set"}
    [] net = "refused"     -> IF Platform = "windows" THEN {"err_set"} ELSE {"wait_set"}

(* Mutant for PassedIsReached: err_set is not looked at. *)
SelectWritableMutant ==
  pc = "select" /\ Selected # {} /\ Succeed /\ UNCHANGED <<attempts, reached>>

SelectWritable ==
  /\ pc = "select"
  /\ Selected # {} /\ "err_set" \notin Selected
  /\ Succeed
  /\ UNCHANGED <<attempts, reached>>

(* The error is asked for with getsockopt(); the test has failed either way. *)
SelectError ==
  pc = "select" /\ "err_set" \in Selected /\ Fail /\ UNCHANGED <<attempts, reached>>

(* Mutant for Ends: select() waits for as long as it takes. *)
SelectTimeoutMutant == FALSE /\ UNCHANGED vars

(* After 5 seconds. *)
SelectTimeout ==
  /\ pc = "select" /\ Selected = {}
  /\ Fail
  /\ UNCHANGED <<attempts, reached>>

SelectFails ==
  pc = "select" /\ "select" \in Faults /\ Fail /\ UNCHANGED <<attempts, reached>>

(* _connection_create() chooses a target and a source; when they do not go    *)
(* together it does so again.                                                 *)
ChooseAddresses ==
  /\ pc = "passed"
  /\ \E a \in 1..SourceCount, b \in 1..Len(targets) :
       pc' = IF FamiliesMatch(a, b) THEN "chosen" ELSE "passed"
  /\ UNCHANGED <<conf, loop, fd, descriptors, net, attempts, reached>>

------------------------------------------------------------------------------
(* What the program does when its calls do what they are for, ... *)
Regular ==
  \/ Name \/ CreateSocket \/ Bind \/ BindFails
  \/ Connect \/ ConnectAtOnce
  \/ SelectWritable \/ SelectError \/ SelectTimeout
  \/ ChooseAddresses

(* ... and when they fail. *)
Program == Regular \/ SocketFails \/ ConnectFails \/ SelectFails

Kernel == Established \/ Refused

Terminated == pc \in {"failed", "chosen"} /\ UNCHANGED vars

Next == Program \/ Kernel \/ Terminated

Spec == Init /\ [][Next]_vars

(* The program is a single thread, select() returns after 5 seconds at most.  *)
(* That a call fails is never relied on.                                      *)
FairSpec == Spec /\ WF_vars(Regular)

------------------------------------------------------------------------------
Places == {"name", "socket", "bind", "connect", "select", "passed", "failed", "chosen"}

TypeOK ==
  /\ sources \in Seq(Families) /\ targets \in Seq(Families) \ {<<>>}
  /\ pc \in Places
  /\ s \in 1..(SourceCount + 1) /\ t \in 1..Len(targets)
  /\ fd \in BOOLEAN /\ descriptors \in Nat
  /\ net \in {"none", "connecting", "established", "refused"}
  /\ attempts \in [Pairs -> Nat]
  /\ reached \subseteq Pairs

Done == pc \in {"passed", "chosen"}

(* After a success each source was connected to each target once; at any      *)
(* point no pair was tried twice (main-pretest.c:197-199).                    *)
EveryPairOnce ==
  \A p \in Pairs : attempts[p] <= 1 /\ (Done => attempts[p] = 1)

(* A socket is open only while its pair is tested (main-pretest.c:201).       *)
NoDescriptorLeft ==
  descriptors = IF pc \in {"bind", "connect", "select"} THEN 1 ELSE 0

(* Once the test has passed, any source goes with any target: the worker's    *)
(* search for a pair of one family (main.c:166-167) ends with its first turn. *)
FamiliesAgree == Done => \A p \in Pairs : FamiliesMatch(p[1], p[2])

(* All sources reach all targets (main-pretest.c:195-197). *)
PassedIsReached == Done => reached = Pairs

(* The test ends, whatever the network does. *)
Ends == <>(pc \in {"failed", "chosen"})
==============================================================================
