---------------------------- MODULE Pretest_proofs ---------------------------
(***************************************************************************)
(* The startup test keeps its promises for any number of addresses: no     *)
(* pair is left out or tried twice, no socket stays open, and what passes  *)
(* is fit for the worker.                                                  *)
(***************************************************************************)
EXTENDS Pretest, SequenceTheorems, TLAPS

Testing == pc \in {"name", "socket", "bind", "connect", "select"}

(* The pairs whose test is over. *)
Earlier(p) == p[1] < s \/ (p[1] = s /\ p[2] < t)

(* What is known while and after the pair <<s, t>> is tested. *)
CurrentPair ==
  /\ Testing => s <= SourceCount
  /\ Done => s = SourceCount + 1 /\ t = 1
  /\ fd <=> pc \in {"bind", "connect", "select"}
  /\ net # "none" <=> pc = "select"
  /\ pc \in {"name", "socket", "bind", "connect"} /\ <<s, t>> \in Pairs => attempts[<<s, t>>] = 0
  /\ pc = "select" /\ <<s, t>> \in Pairs => attempts[<<s, t>>] = 1
  /\ <<s, t>> \in Pairs => attempts[<<s, t>>] <= 1
  /\ pc \in {"connect", "select"} => FamiliesMatch(s, t)

(* The pairs before it were tried once and go together, those after it were   *)
(* not tried.                                                                 *)
OtherPairs ==
  \A p \in Pairs :
    /\ Earlier(p) => attempts[p] = 1 /\ FamiliesMatch(p[1], p[2])
    /\ ~Earlier(p) /\ p # <<s, t>> => attempts[p] = 0

PInv == TypeOK /\ NoDescriptorLeft /\ CurrentPair /\ OtherPairs

LEMMA PairFacts ==
  ASSUME sources \in Seq(Families), targets \in Seq(Families) \ {<<>>}
  PROVE  /\ SourceCount \in Nat \ {0} /\ Len(targets) \in Nat \ {0}
         /\ \A p \in Pairs : /\ p = <<p[1], p[2]>>
                            /\ p[1] \in 1..SourceCount /\ p[2] \in 1..Len(targets)
         /\ \A a \in 1..SourceCount, b \in 1..Len(targets) : <<a, b>> \in Pairs
<1>1. Len(targets) \in Nat \ {0}
  BY EmptySeq
<1>2. SourceCount \in Nat \ {0}
  BY EmptySeq DEF SourceCount, HasSource
<1> QED BY <1>1, <1>2 DEF Pairs

LEMMA Increment ==
  ASSUME NEW S, NEW f \in [S -> Nat], NEW k
  PROVE  /\ [f EXCEPT ![k] = @ + 1] \in [S -> Nat]
         /\ k \in S => [f EXCEPT ![k] = @ + 1][k] = f[k] + 1
         /\ \A p \in S : p # k => [f EXCEPT ![k] = @ + 1][p] = f[p]
<1>1. CASE k \in S
  BY <1>1
<1>2. CASE k \notin S
  BY <1>2
<1> QED BY <1>1, <1>2

LEMMA PInvImplies == ASSUME PInv PROVE EveryPairOnce /\ FamiliesAgree
<1>1. ASSUME NEW p \in Pairs, Done PROVE Earlier(p)
  <2>1. p[1] \in 1..SourceCount /\ SourceCount \in Nat /\ s = SourceCount + 1
    BY <1>1, PairFacts DEF PInv, TypeOK, CurrentPair
  <2> QED BY <2>1 DEF Earlier
<1>2. ASSUME NEW p \in Pairs PROVE attempts[p] <= 1
  BY DEF PInv, CurrentPair, OtherPairs
<1> QED BY <1>1, <1>2 DEF PInv, OtherPairs, EveryPairOnce, FamiliesAgree

LEMMA InitPInv == ASSUME Init PROVE PInv
<1>1. sources \in Seq(Families) /\ targets \in Seq(Families)
  BY SeqDef, PretestAssumption DEF Init
<1>2. targets # <<>>
  BY EmptySeq, PretestAssumption DEF Init
<1>3. /\ SourceCount \in Nat \ {0} /\ Len(targets) \in Nat \ {0}
      /\ \A p \in Pairs : p = <<p[1], p[2]>> /\ p[1] \in 1..SourceCount /\ p[2] \in 1..Len(targets)
  BY <1>1, <1>2, PairFacts
<1>4. /\ pc = "name" /\ s = 1 /\ t = 1 /\ fd = FALSE /\ descriptors = 0 /\ net = "none"
      /\ attempts = [p \in Pairs |-> 0] /\ reached = {}
  BY DEF Init
<1>5. TypeOK
  <2>1. sources \in Seq(Families) /\ targets \in Seq(Families) \ {<<>>}
    BY <1>1, <1>2
  <2>2. s \in 1..(SourceCount + 1) /\ t \in 1..Len(targets)
    BY <1>3, <1>4
  <2>3. attempts \in [Pairs -> Nat]
    BY <1>4
  <2> QED BY <1>4, <2>1, <2>2, <2>3 DEF TypeOK, Places
<1>6. CurrentPair
  BY <1>3, <1>4 DEF CurrentPair, Testing, Done
<1>7. OtherPairs
  BY <1>3, <1>4 DEF OtherPairs, Earlier
<1> QED BY <1>4, <1>5, <1>6, <1>7 DEF PInv, NoDescriptorLeft

(* The socket is closed whatever becomes of the test. *)
LEMMA Closing ==
  ASSUME PInv, Testing, CloseSocket
  PROVE  fd' = FALSE /\ descriptors' = 0 /\ net' = "none"
BY DEF PInv, CurrentPair, Testing, CloseSocket, NoDescriptorLeft, TypeOK

(* A test that fails is the last. *)
LEMMA FailPInv ==
  ASSUME PInv, Testing, Fail, reached' = reached,
         \/ attempts' = attempts
         \/ pc = "connect" /\ Attempt
  PROVE  PInv'
<1>1. /\ pc' = "failed" /\ fd' = FALSE /\ descriptors' = 0 /\ net' = "none"
      /\ sources' = sources /\ targets' = targets /\ s' = s /\ t' = t
  BY Closing DEF Fail, conf, loop
<1>2. Pairs' = Pairs /\ SourceCount' = SourceCount
  BY <1>1 DEF Pairs, SourceCount, HasSource
<1>3. attempts' \in [Pairs -> Nat] /\ (<<s, t>> \in Pairs => attempts'[<<s, t>>] <= 1)
      /\ \A p \in Pairs : p # <<s, t>> => attempts'[p] = attempts[p]
  <2>1. CASE attempts' = attempts
    BY <2>1 DEF PInv, TypeOK, CurrentPair
  <2>2. CASE pc = "connect" /\ Attempt
    <3>1. /\ attempts' \in [Pairs -> Nat]
          /\ <<s, t>> \in Pairs => attempts'[<<s, t>>] = attempts[<<s, t>>] + 1
          /\ \A p \in Pairs : p # <<s, t>> => attempts'[p] = attempts[p]
      BY <2>2, Increment DEF PInv, TypeOK, Attempt
    <3> QED BY <2>2, <3>1 DEF PInv, CurrentPair
  <2> QED BY <2>1, <2>2
<1>4. TypeOK'
  BY <1>1, <1>2, <1>3 DEF PInv, TypeOK, Places
<1>5. CurrentPair'
  BY <1>1, <1>2, <1>3 DEF CurrentPair, Testing, Done
<1>6. OtherPairs'
  <2>1. ASSUME NEW p \in Pairs, Earlier(p) PROVE p # <<s, t>>
    BY <2>1, PairFacts DEF PInv, TypeOK, Earlier
  <2> QED BY <1>1, <1>2, <1>3, <2>1 DEF PInv, OtherPairs, Earlier, FamiliesMatch, HasSource
<1> QED BY <1>1, <1>4, <1>5, <1>6 DEF PInv, NoDescriptorLeft

(* A test that succeeds makes its pair one of the earlier ones. *)
LEMMA SucceedPInv ==
  ASSUME PInv, Testing, Succeed, reached' \in SUBSET Pairs, FamiliesMatch(s, t),
         \/ pc = "select" /\ attempts[<<s, t>>] = 1 /\ attempts' = attempts
         \/ pc = "connect" /\ Attempt
  PROVE  PInv'
<1>1. /\ fd' = FALSE /\ descriptors' = 0 /\ net' = "none"
      /\ sources' = sources /\ targets' = targets /\ NextPair
  BY Closing DEF Succeed, conf
<1>2. Pairs' = Pairs /\ SourceCount' = SourceCount
  BY <1>1 DEF Pairs, SourceCount, HasSource
<1>3. /\ SourceCount \in Nat \ {0} /\ Len(targets) \in Nat \ {0}
      /\ \A p \in Pairs : p = <<p[1], p[2]>> /\ p[1] \in 1..SourceCount /\ p[2] \in 1..Len(targets)
      /\ s \in 1..SourceCount /\ t \in 1..Len(targets) /\ <<s, t>> \in Pairs
  BY PairFacts DEF PInv, TypeOK, CurrentPair
<1>4. /\ attempts' \in [Pairs -> Nat] /\ attempts'[<<s, t>>] = 1
      /\ \A p \in Pairs : p # <<s, t>> => attempts'[p] = attempts[p]
  <2>1. CASE attempts[<<s, t>>] = 1 /\ attempts' = attempts
    BY <2>1 DEF PInv, TypeOK
  <2>2. CASE pc = "connect" /\ Attempt
    <3>1. /\ attempts' \in [Pairs -> Nat]
          /\ <<s, t>> \in Pairs => attempts'[<<s, t>>] = attempts[<<s, t>>] + 1
          /\ \A p \in Pairs : p # <<s, t>> => attempts'[p] = attempts[p]
      BY <2>2, Increment DEF PInv, TypeOK, Attempt
    <3> QED BY <1>3, <2>2, <3>1 DEF PInv, CurrentPair
  <2> QED BY <2>1, <2>2
<1>5. /\ s' \in 1..(SourceCount + 1) /\ t' \in 1..Len(targets)
      /\ pc' \in {"name", "passed"} /\ (pc' = "name" => s' <= SourceCount)
      /\ pc' = "passed" => s' = SourceCount + 1 /\ t' = 1
  BY <1>1, <1>3 DEF NextPair
<1>6. \A p \in Pairs : (Earlier(p))' <=> Earlier(p) \/ p = <<s, t>>
  BY <1>1, <1>3 DEF NextPair, Earlier
<1>7. <<s', t'>> # <<s, t>> /\ ~Earlier(<<s', t'>>)
  BY <1>1, <1>3 DEF NextPair, Earlier
<1>8. TypeOK'
  BY <1>1, <1>2, <1>4, <1>5 DEF PInv, TypeOK, Places
<1>9. OtherPairs'
  BY <1>1, <1>2, <1>3, <1>4, <1>6 DEF PInv, OtherPairs, FamiliesMatch, HasSource
<1>10. CurrentPair'
  BY <1>1, <1>2, <1>4, <1>5, <1>7 DEF PInv, CurrentPair, OtherPairs, Testing, Done
<1> QED BY <1>1, <1>5, <1>8, <1>9, <1>10 DEF PInv, NoDescriptorLeft

(* A step inside of a test changes the place, the socket or the kernel's view. *)
LEMMA InsidePInv ==
  ASSUME PInv, UNCHANGED <<conf, loop, attempts>>, reached' \in SUBSET Pairs,
         pc' \in Places,
         net' \in {"none", "connecting", "established", "refused"},
         net' # "none" <=> pc' = "select",
         \/ pc' = pc /\ fd' = fd /\ descriptors' = descriptors
         \/ pc = "name" /\ pc' \in {"socket", "failed"} /\ fd' = fd /\ descriptors' = descriptors
         \/ /\ pc = "socket" /\ fd' = TRUE /\ descriptors' = descriptors + 1
            /\ pc' = IF HasSource THEN "bind" ELSE "connect"
         \/ pc = "bind" /\ pc' = "connect" /\ fd' = fd /\ descriptors' = descriptors
                        /\ FamiliesMatch(s, t)
         \/ pc = "passed" /\ pc' = "chosen" /\ fd' = fd /\ descriptors' = descriptors
  PROVE  PInv'
<1>1. /\ sources' = sources /\ targets' = targets /\ s' = s /\ t' = t
      /\ Pairs' = Pairs /\ SourceCount' = SourceCount
  BY DEF conf, loop, Pairs, SourceCount, HasSource
<1>2. TypeOK' /\ NoDescriptorLeft'
  <2>1. fd' \in BOOLEAN /\ descriptors' \in Nat
    <3>1. fd \in BOOLEAN /\ descriptors \in Nat
      BY DEF PInv, TypeOK
    <3>2. fd' = fd \/ fd' = TRUE
      OBVIOUS
    <3>3. descriptors' = descriptors \/ descriptors' = descriptors + 1
      OBVIOUS
    <3>4. fd' \in BOOLEAN
      BY <3>1, <3>2
    <3> QED BY <3>1, <3>3, <3>4
  <2>2. TypeOK'
    BY <1>1, <2>1 DEF PInv, TypeOK
  <2>3. NoDescriptorLeft'
    BY DEF PInv, NoDescriptorLeft
  <2> QED BY <2>2, <2>3
<1>3. CurrentPair'
  BY <1>1 DEF PInv, CurrentPair, Testing, Done, FamiliesMatch, HasSource
<1>4. OtherPairs'
  BY <1>1 DEF PInv, OtherPairs, Earlier, FamiliesMatch, HasSource
<1> QED BY <1>2, <1>3, <1>4 DEF PInv

LEMMA StepPInv ==
  ASSUME PInv, [Next]_vars
  PROVE  PInv'
<1> USE DEF Testing
<1>1. /\ reached \in SUBSET Pairs /\ pc \in Places
      /\ net \in {"none", "connecting", "established", "refused"}
      /\ Testing => <<s, t>> \in Pairs
      /\ net # "none" <=> pc = "select"
  BY PairFacts DEF PInv, TypeOK, CurrentPair
<1>2. CASE Name \/ CreateSocket \/ Bind \/ ChooseAddresses
  BY <1>1, <1>2, InsidePInv DEF Name, CreateSocket, Bind, ChooseAddresses, Places
<1>3. CASE SocketFails \/ BindFails \/ SelectError \/ SelectTimeout \/ SelectFails \/ ConnectFails
  BY <1>3, FailPInv DEF SocketFails, BindFails, SelectError, SelectTimeout, SelectFails, ConnectFails
<1>4. CASE ConnectAtOnce
  <2>1. FamiliesMatch(s, t) /\ <<s, t>> \in Pairs
    BY <1>1, <1>4 DEF ConnectAtOnce, PInv, CurrentPair
  <2> QED BY <1>1, <1>4, <2>1, SucceedPInv DEF ConnectAtOnce
<1>5. CASE SelectWritable
  <2>1. FamiliesMatch(s, t) /\ attempts[<<s, t>>] = 1
    BY <1>1, <1>5 DEF SelectWritable, PInv, CurrentPair
  <2> QED BY <1>1, <1>5, <2>1, SucceedPInv DEF SelectWritable
<1>6. CASE Connect
  <2>1. /\ pc = "connect" /\ pc' = "select" /\ net' = "connecting" /\ Attempt
        /\ fd' = fd /\ descriptors' = descriptors /\ reached' = reached
        /\ sources' = sources /\ targets' = targets /\ s' = s /\ t' = t
        /\ Pairs' = Pairs /\ SourceCount' = SourceCount /\ <<s, t>> \in Pairs
    BY <1>1, <1>6 DEF Connect, conf, loop, Pairs, SourceCount, HasSource
  <2>2. /\ attempts' \in [Pairs -> Nat] /\ attempts'[<<s, t>>] = 1
        /\ \A p \in Pairs : p # <<s, t>> => attempts'[p] = attempts[p]
    <3>1. /\ attempts' \in [Pairs -> Nat]
          /\ <<s, t>> \in Pairs => attempts'[<<s, t>>] = attempts[<<s, t>>] + 1
          /\ \A p \in Pairs : p # <<s, t>> => attempts'[p] = attempts[p]
      BY <2>1, Increment DEF PInv, TypeOK, Attempt
    <3> QED BY <2>1, <3>1 DEF PInv, CurrentPair
  <2>3. TypeOK' /\ NoDescriptorLeft'
    BY <2>1, <2>2 DEF PInv, TypeOK, NoDescriptorLeft, Places
  <2>4. CurrentPair'
    BY <2>1, <2>2 DEF PInv, CurrentPair, Done, FamiliesMatch, HasSource
  <2>5. OtherPairs'
    <3>1. \A p \in Pairs : Earlier(p) => p # <<s, t>>
      BY PairFacts DEF PInv, TypeOK, Earlier
    <3> QED BY <2>1, <2>2, <3>1 DEF PInv, OtherPairs, Earlier, FamiliesMatch, HasSource
  <2> QED BY <2>3, <2>4, <2>5 DEF PInv
<1>7. CASE Established \/ Refused
  BY <1>1, <1>7, InsidePInv DEF Established, Refused
<1>8. CASE Terminated \/ UNCHANGED vars
  <2>1. /\ UNCHANGED <<conf, loop, attempts>>
        /\ reached' = reached /\ pc' = pc /\ net' = net /\ fd' = fd /\ descriptors' = descriptors
    BY <1>8 DEF Terminated, vars
  <2>2. /\ pc' \in Places /\ reached' \in SUBSET Pairs
        /\ net' \in {"none", "connecting", "established", "refused"}
        /\ net' # "none" <=> pc' = "select"
    BY <1>1, <2>1
  <2> QED BY ONLY PInv, <2>1, <2>2, InsidePInv
<1> QED BY <1>2, <1>3, <1>4, <1>5, <1>6, <1>7, <1>8 DEF Next, Program, Regular, Kernel

LEMMA Inductive == Spec => []PInv
<1>1. Init => PInv
  BY InitPInv
<1>2. PInv /\ [Next]_vars => PInv'
  BY StepPInv
<1> QED BY <1>1, <1>2, PTL DEF Spec

(* Whatever fails, the loops stay within the addresses that are configured    *)
(* and the kernel knows of a connection only as select() may find it.         *)
THEOREM PretestTypes == Spec => []TypeOK
<1>1. PInv => TypeOK
  BY DEF PInv
<1> QED BY <1>1, Inductive, PTL

(* Every pair is tried, none twice. *)
THEOREM PairsAreTriedOnce == Spec => []EveryPairOnce
BY Inductive, PInvImplies, PTL

(* No socket is left open, however a test ends. *)
THEOREM SocketsAreClosed == Spec => []NoDescriptorLeft
<1>1. PInv => NoDescriptorLeft
  BY DEF PInv
<1> QED BY <1>1, Inductive, PTL

(* The worker's search for two addresses of one family never repeats itself. *)
THEOREM ChoiceIsImmediate == Spec => []FamiliesAgree
BY Inductive, PInvImplies, PTL

------------------------------------------------------------------------------
(* Where select() tells a refusal from a connection, or nothing refuses, all  *)
(* pairs are connected in the end.                                            *)
RefusalsSeen == Platform = "windows" \/ "refuse" \notin Faults

ReachedInv ==
  /\ net = "refused" => "refuse" \in Faults
  /\ net = "established" => <<s, t>> \in reached
  /\ \A p \in Pairs : Earlier(p) => p \in reached

LEMMA SucceedReached ==
  ASSUME PInv, ReachedInv, Testing, Succeed, reached \subseteq reached', <<s, t>> \in reached'
  PROVE  ReachedInv'
<1>1. /\ net' = "none" /\ sources' = sources /\ targets' = targets /\ NextPair
      /\ Pairs' = Pairs
  BY Closing DEF Succeed, conf, Pairs, SourceCount, HasSource
<1>2. /\ SourceCount \in Nat \ {0} /\ Len(targets) \in Nat \ {0}
      /\ \A p \in Pairs : p = <<p[1], p[2]>> /\ p[1] \in 1..SourceCount /\ p[2] \in 1..Len(targets)
      /\ s \in 1..SourceCount /\ t \in 1..Len(targets)
  BY PairFacts DEF PInv, TypeOK, CurrentPair
<1>3. \A p \in Pairs : (Earlier(p))' => Earlier(p) \/ p = <<s, t>>
  BY <1>1, <1>2 DEF NextPair, Earlier
<1> QED BY <1>1, <1>3 DEF ReachedInv

LEMMA StepReached ==
  ASSUME RefusalsSeen, PInv, ReachedInv, [Next]_vars
  PROVE  ReachedInv'
<1>1. CASE SelectWritable
  <2>1. /\ pc = "select" /\ Selected # {} /\ "err_set" \notin Selected
        /\ Succeed /\ reached' = reached
    BY <1>1 DEF SelectWritable
  <2>2. net \in {"connecting", "established", "refused"}
    BY <2>1 DEF PInv, TypeOK, CurrentPair
  <2>3. CASE net = "connecting"
    BY <2>1, <2>3 DEF Selected
  <2>4. CASE net = "established"
    BY <2>1, <2>4, SucceedReached DEF Testing, ReachedInv
  <2>5. CASE net = "refused"
    <3>1. Platform = "windows"
      BY <2>5 DEF RefusalsSeen, ReachedInv
    <3> QED BY <2>1, <2>5, <3>1 DEF Selected
  <2> QED BY <2>2, <2>3, <2>4, <2>5
<1>2. CASE ConnectAtOnce
  BY <1>2, SucceedReached DEF ConnectAtOnce, Testing
<1>3. ASSUME UNCHANGED <<conf, loop>>, reached \subseteq reached',
             \/ net' \in {net, "none", "connecting"}
             \/ net' = "refused" /\ "refuse" \in Faults
             \/ net' = "established" /\ <<s, t>> \in reached'
      PROVE  ReachedInv'
  BY <1>3 DEF ReachedInv, Earlier, Pairs, SourceCount, HasSource, conf, loop
<1>4. CASE Name \/ CreateSocket \/ Bind \/ Connect \/ ChooseAddresses
  BY <1>3, <1>4 DEF Name, CreateSocket, Bind, Connect, ChooseAddresses
<1>5. CASE SocketFails \/ BindFails \/ ConnectFails \/ SelectError \/ SelectTimeout \/ SelectFails
  BY <1>3, <1>5 DEF SocketFails, BindFails, ConnectFails, SelectError, SelectTimeout, SelectFails,
                    Fail, CloseSocket
<1>6. CASE Established \/ Refused
  BY <1>3, <1>6 DEF Established, Refused
<1>7. CASE Terminated \/ UNCHANGED vars
  BY <1>3, <1>7 DEF Terminated, vars
<1> QED BY <1>1, <1>2, <1>4, <1>5, <1>6, <1>7 DEF Next, Program, Regular, Kernel

(* After a success every pair was connected, unless a refusal was taken for a *)
(* connection.                                                                *)
THEOREM PassedMeansReached == RefusalsSeen => (Spec => []PassedIsReached)
<1> SUFFICES ASSUME RefusalsSeen PROVE Spec => []PassedIsReached
  OBVIOUS
<1>1. Init => ReachedInv
  <2> SUFFICES ASSUME Init PROVE ReachedInv
    OBVIOUS
  <2>1. PInv /\ net = "none" /\ s = 1 /\ t = 1
    BY InitPInv DEF Init
  <2> QED BY <2>1, PairFacts DEF ReachedInv, Earlier, PInv, TypeOK
<1>2. PInv /\ ReachedInv /\ [Next]_vars => ReachedInv'
  BY StepReached
<1>3. PInv /\ ReachedInv => PassedIsReached
  <2> SUFFICES ASSUME PInv, ReachedInv, Done PROVE reached = Pairs
    BY DEF PassedIsReached
  <2>1. ASSUME NEW p \in Pairs PROVE Earlier(p)
    <3>1. p[1] \in 1..SourceCount /\ SourceCount \in Nat /\ s = SourceCount + 1
      BY PairFacts DEF PInv, TypeOK, CurrentPair
    <3> QED BY <3>1 DEF Earlier
  <2> QED BY <2>1 DEF ReachedInv, PInv, TypeOK
<1> QED BY <1>1, <1>2, <1>3, Inductive, PTL DEF Spec
==============================================================================
