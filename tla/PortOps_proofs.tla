---------------------------- MODULE PortOps_proofs ----------------------------
(***************************************************************************)
(* What the operations of an epoll port do to it, for any sockets, any     *)
(* memory and any refusals of the kernel: what must hold of a port between *)
(* its critical sections, and that each operation keeps it.                *)
(***************************************************************************)
EXTENDS WepollPort, Induction, FiniteSetTheorems

GroupIds == 0..Cardinality(Cells)

Port ==
  [ heap : SUBSET Cells, cell : [Cells -> Cell], tree : [Sockets -> Cells \cup {NULL}],
    update : Seq(Cells), deleted : Seq(Cells), groups : Seq(Nat),
    size : [GroupIds -> Int], active : Int ]

(* A cell is registered, or deleted and in the queue for that; what is not    *)
(* allocated is blank.                                                        *)
Place(p, c) ==
  /\ p.cell[c].sock \in Sockets
  /\ IF p.cell[c].deleted THEN c \in ToSet(p.deleted) /\ c \notin ToSet(p.update)
     ELSE c \notin ToSet(p.deleted) /\ p.tree[p.cell[c].sock] = c

Linked(p, cells) ==
  /\ IsInjective(p.update) /\ IsInjective(p.deleted)
  /\ ToSet(p.update) \subseteq p.heap /\ ToSet(p.deleted) \subseteq p.heap
  /\ \A c \in cells : Place(p, c)
  /\ \A s \in Sockets : p.tree[s] # NULL =>
       /\ p.tree[s] \in p.heap
       /\ ~p.cell[p.tree[s]].deleted /\ p.cell[p.tree[s]].sock = s
  /\ \A c \in Cells \ p.heap : p.cell[c] = Blank

Registry(p) == Linked(p, p.heap)

(* An idle cell has no poll, ... *)
Idles(p) == \A c \in Cells : p.cell[c].status = "IDLE" => p.cell[c].pending = {} /\ p.cell[c].iosb = "none"

(* ... a deleted one waits for its packet, and others are watched or will be. *)
PollOK(p, c) ==
  IF p.cell[c].deleted THEN p.cell[c].status # "IDLE"
  ELSE \/ c \in ToSet(p.update) \/ p.cell[c].status = "CANCELLED"
       \/ p.cell[c].status = "PENDING" /\ Wanted(p.cell[c]) \subseteq p.cell[c].pending

(* In a queue the elements of F come first. *)
First(F, queue) == \A j, k \in DOMAIN queue : j < k /\ queue[k] \in F => queue[j] \in F

Full(p) == {g \in GroupIds : p.size[g] = MaxGroup}

(* The groups: each once, the full ones first, ... *)
Grouped(p) ==
  /\ IsInjective(p.groups) /\ ToSet(p.groups) = 0..(Len(p.groups) - 1)
  /\ Len(p.groups) <= Cardinality(Cells) + 1
  /\ First(Full(p), p.groups)
  /\ \A g \in GroupIds : p.size[g] \in 0..MaxGroup
  /\ \A c \in p.heap : p.cell[c].group \in ToSet(p.groups)

(* ... with the count of their members. *)
Counts(p) == \A g \in GroupIds : p.size[g] = Cardinality(Members(p, g))

(* All of this, but for the poll of c; and all of it.                         *)
Nearly(p, c) ==
  /\ p \in Port /\ Registry(p) /\ Idles(p) /\ Grouped(p) /\ Counts(p)
  /\ \A b \in p.heap \ {c} : PollOK(p, b)

PortInv(p) ==
  /\ p \in Port /\ Registry(p) /\ Idles(p) /\ Grouped(p) /\ Counts(p)
  /\ \A c \in p.heap : PollOK(p, c)

(* What no operation but a completion does: it leaves each poll that was      *)
(* submitted, and the memory of it, alone, and submits others.                *)
Keeps(p, q) ==
  /\ q.active = p.active
  /\ \A c \in Cells :
       IF p.cell[c].status # "IDLE"
       THEN /\ q.cell[c].status # "IDLE"
            /\ q.cell[c].iosb = p.cell[c].iosb /\ q.cell[c].found = p.cell[c].found
       ELSE q.cell[c].status = "IDLE" \/ q.cell[c].iosb = "pending"

------------------------------------------------------------------------------
(* Queues. *)

(* What is left of a queue, and in what order, when x is taken out. *)
LEMMA UnlinkShape ==
  ASSUME NEW S, NEW q \in Seq(S), NEW x \in ToSet(q)
  PROVE  \E k \in 1..Len(q) :
           /\ q[k] = x /\ Len(Unlink(q, x)) = Len(q) - 1 /\ Unlink(q, x) \in Seq(S)
           /\ \A i \in 1..(Len(q) - 1) : Unlink(q, x)[i] = IF i < k THEN q[i] ELSE q[i + 1]
<1> DEFINE k == CHOOSE j \in DOMAIN q : q[j] = x
           r == SubSeq(q, 1, k - 1) \o SubSeq(q, k + 1, Len(q))
<1>1. k \in 1..Len(q) /\ q[k] = x
  BY DEF ToSet
<1>2. Unlink(q, x) = r
  BY DEF Unlink, RemoveAt
<1> HIDE DEF k
<1> DEFINE a == SubSeq(q, 1, k - 1)
           b == SubSeq(q, k + 1, Len(q))
<1>a. a \in Seq(S) /\ Len(a) = k - 1 /\ \A i \in 1..(k - 1) : a[i] = q[i]
  BY <1>1
<1>b. /\ b \in Seq(S) /\ Len(b) = Len(q) - k
      /\ \A i \in 1..(Len(q) - k) : b[i] = q[k + i]
  BY <1>1
<1> HIDE DEF a, b
<1>c. r = a \o b
  BY DEF a, b
<1> HIDE DEF r
<1>3. r \in Seq(S) /\ Len(r) = Len(q) - 1
  BY <1>1, <1>a, <1>b, <1>c
<1>4. \A i \in 1..(Len(q) - 1) : r[i] = IF i < k THEN q[i] ELSE q[i + 1]
  <2> SUFFICES ASSUME NEW i \in 1..(Len(q) - 1) PROVE r[i] = IF i < k THEN q[i] ELSE q[i + 1]
    OBVIOUS
  <2>1. CASE i < k
    BY <1>1, <1>a, <1>b, <1>c, <2>1
  <2>2. CASE ~(i < k)
    <3>1. r[i] = b[i - (k - 1)] /\ i - (k - 1) \in 1..(Len(q) - k)
      BY <1>1, <1>a, <1>b, <1>c, <2>2
    <3>2. b[i - (k - 1)] = q[k + (i - (k - 1))] /\ k + (i - (k - 1)) = i + 1
      BY <1>1, <1>b, <3>1
    <3> QED BY <2>2, <3>1, <3>2
  <2> QED BY <2>1, <2>2
<1> QED BY <1>1, <1>2, <1>3, <1>4

LEMMA UnlinkQueue ==
  ASSUME NEW S, NEW q \in Seq(S), IsInjective(q), NEW x
  PROVE  /\ Unlink(q, x) \in Seq(S) /\ IsInjective(Unlink(q, x))
         /\ ToSet(Unlink(q, x)) = ToSet(q) \ {x}
         /\ Len(Unlink(q, x)) = IF x \in ToSet(q) THEN Len(q) - 1 ELSE Len(q)
         /\ \A F : First(F, q) => First(F, Unlink(q, x))
<1>1. CASE x \notin ToSet(q)
  BY <1>1 DEF Unlink
<1>2. CASE x \in ToSet(q)
  <2> DEFINE r == Unlink(q, x)
  <2>1. PICK k \in 1..Len(q) :
           /\ q[k] = x /\ Len(r) = Len(q) - 1 /\ r \in Seq(S)
           /\ \A i \in 1..(Len(q) - 1) : r[i] = IF i < k THEN q[i] ELSE q[i + 1]
    BY <1>2, UnlinkShape
  <2> DEFINE to(i) == IF i < k THEN i ELSE i + 1
  <2> HIDE DEF r
  <2>2. DOMAIN r = 1..(Len(q) - 1) /\ DOMAIN q = 1..Len(q) /\ Len(q) \in Nat
    BY <2>1
  <2>3. \A i \in DOMAIN r : to(i) \in DOMAIN q /\ to(i) # k /\ r[i] = q[to(i)]
    BY <2>1, <2>2
  <2>4. \A i, j \in DOMAIN r : i < j <=> to(i) < to(j)
    BY <2>2
  <2>5. ASSUME NEW j \in DOMAIN q, j # k
        PROVE  \E i \in DOMAIN r : to(i) = j
    <3>1. CASE j < k
      BY <2>2, <3>1
    <3>2. CASE j > k
      <4>1. j - 1 \in DOMAIN r /\ to(j - 1) = j
        BY <2>2, <3>2
      <4> QED BY <4>1
    <3> QED BY <2>1, <2>2, <2>5, <3>1, <3>2
  <2>6. \A i \in DOMAIN q : q[i] = x => i = k
    BY <2>1, <2>2 DEF IsInjective
  <2>7. IsInjective(r)
    <3> SUFFICES ASSUME NEW i \in DOMAIN r, NEW j \in DOMAIN r, r[i] = r[j]
                 PROVE  i = j
      BY DEF IsInjective
    <3>1. to(i) = to(j)
      <4> HIDE DEF to
      <4> QED BY <2>3 DEF IsInjective
    <3> QED BY <2>2, <3>1
  <2>8. ToSet(r) = ToSet(q) \ {x}
    <3> HIDE DEF to
    <3>1. ASSUME NEW i \in DOMAIN r PROVE r[i] \in ToSet(q) \ {x}
      BY <2>3, <2>6 DEF ToSet
    <3>2. ASSUME NEW j \in DOMAIN q, q[j] # x PROVE q[j] \in ToSet(r)
      <4>1. PICK i \in DOMAIN r : to(i) = j
        BY <2>1, <2>5, <3>2
      <4> QED BY <2>3, <4>1 DEF ToSet
    <3> QED BY <3>1, <3>2 DEF ToSet
  <2>9. ASSUME NEW F, First(F, q) PROVE First(F, r)
    <3> SUFFICES ASSUME NEW i \in DOMAIN r, NEW j \in DOMAIN r, i < j, r[j] \in F
                 PROVE  r[i] \in F
      BY DEF First
    <3>1. to(i) < to(j)
      BY <2>4
    <3> HIDE DEF to
    <3> QED BY <2>3, <2>9, <3>1 DEF First
  <2> QED BY <1>2, <2>1, <2>7, <2>8, <2>9 DEF r
<1> QED BY <1>1, <1>2

LEMMA UnlinkHead ==
  ASSUME NEW S, NEW q \in Seq(S), q # <<>>, IsInjective(q)
  PROVE  Unlink(q, Head(q)) = Tail(q)
<1> DEFINE x == Head(q)
           r == Unlink(q, x)
<1>1. x \in ToSet(q) /\ q[1] = x /\ Len(q) \in Nat /\ Len(q) >= 1
  BY DEF ToSet
<1> HIDE DEF x
<1>2. PICK k \in 1..Len(q) :
         /\ q[k] = x /\ Len(r) = Len(q) - 1 /\ r \in Seq(S)
         /\ \A i \in 1..(Len(q) - 1) : r[i] = IF i < k THEN q[i] ELSE q[i + 1]
  BY <1>1, UnlinkShape
<1>3. k = 1
  BY <1>1, <1>2 DEF IsInjective
<1> HIDE DEF r
<1>4. Tail(q) \in Seq(S) /\ Len(Tail(q)) = Len(q) - 1
      /\ \A i \in 1..(Len(q) - 1) : Tail(q)[i] = q[i + 1]
  OBVIOUS
<1>5. \A i \in 1..(Len(q) - 1) : r[i] = Tail(q)[i]
  BY <1>1, <1>2, <1>3, <1>4
<1>6. r = Tail(q)
  BY <1>2, <1>4, <1>5
<1> QED BY <1>6 DEF r, x

LEMMA AppendQueue ==
  ASSUME NEW S, NEW q \in Seq(S), IsInjective(q), NEW x \in S, x \notin ToSet(q)
  PROVE  /\ Append(q, x) \in Seq(S) /\ IsInjective(Append(q, x))
         /\ ToSet(Append(q, x)) = ToSet(q) \cup {x}
         /\ Len(Append(q, x)) = Len(q) + 1
         /\ \A F : First(F, q) /\ x \notin F => First(F, Append(q, x))
<1> DEFINE r == Append(q, x)
<1>1. /\ r \in Seq(S) /\ Len(r) = Len(q) + 1 /\ Len(q) \in Nat
      /\ DOMAIN r = 1..(Len(q) + 1) /\ DOMAIN q = 1..Len(q)
      /\ \A i \in 1..Len(q) : r[i] = q[i]
      /\ r[Len(q) + 1] = x
  OBVIOUS
<1> HIDE DEF r
<1>2. \A i \in DOMAIN r : i \in DOMAIN q \/ i = Len(q) + 1
  BY <1>1
<1>3. ToSet(r) = ToSet(q) \cup {x}
  BY <1>1, <1>2 DEF ToSet
<1>4. IsInjective(r)
  BY <1>1, <1>2 DEF IsInjective, ToSet
<1>5. ASSUME NEW F, First(F, q), x \notin F PROVE First(F, r)
  BY <1>1, <1>2, <1>5 DEF First
<1> QED BY <1>1, <1>3, <1>4, <1>5 DEF r

(* queue_move_to_start(), of the last of a queue. *)
LEMMA LastToStart ==
  ASSUME NEW S, NEW q \in Seq(S), IsInjective(q), q # <<>>
  PROVE  LET r == <<Last(q)>> \o Front(q)
         IN /\ r \in Seq(S) /\ IsInjective(r) /\ ToSet(r) = ToSet(q) /\ Len(r) = Len(q)
            /\ \A F : First(F, q) => First(F \cup {Last(q)}, r)
<1> DEFINE n == Len(q)
           r == <<Last(q)>> \o Front(q)
<1>1. /\ n \in Nat /\ n >= 1 /\ r \in Seq(S) /\ Len(r) = n
      /\ DOMAIN r = 1..n /\ DOMAIN q = 1..n
      /\ \A i \in 1..n : r[i] = IF i = 1 THEN q[n] ELSE q[i - 1]
  BY DEF Last, Front
<1>2. Last(q) = q[n]
  BY DEF Last
<1> HIDE DEF n, r
<1>3. ToSet(r) = ToSet(q)
  <2>1. ASSUME NEW i \in 1..n PROVE r[i] \in ToSet(q)
    <3>1. r[i] = q[IF i = 1 THEN n ELSE i - 1] /\ (IF i = 1 THEN n ELSE i - 1) \in DOMAIN q
      BY <1>1
    <3> QED BY <3>1 DEF ToSet
  <2>2. ASSUME NEW i \in 1..n PROVE q[i] \in ToSet(r)
    <3>1. q[i] = r[IF i = n THEN 1 ELSE i + 1] /\ (IF i = n THEN 1 ELSE i + 1) \in DOMAIN r
      BY <1>1
    <3> QED BY <3>1 DEF ToSet
  <2> QED BY <1>1, <2>1, <2>2 DEF ToSet
<1>4. IsInjective(r)
  <2> SUFFICES ASSUME NEW i \in 1..n, NEW j \in 1..n, r[i] = r[j] PROVE i = j
    BY <1>1 DEF IsInjective
  <2> DEFINE from(k) == IF k = 1 THEN n ELSE k - 1
  <2>1. from(i) \in 1..n /\ from(j) \in 1..n /\ q[from(i)] = q[from(j)]
    BY <1>1
  <2>2. from(i) = from(j)
    <3> HIDE DEF from
    <3> QED BY <1>1, <2>1 DEF IsInjective
  <2> QED BY <1>1, <2>2
<1>5. ASSUME NEW F, First(F, q) PROVE First(F \cup {q[n]}, r)
  <2> SUFFICES ASSUME NEW i \in 1..n, NEW j \in 1..n, i < j, r[j] \in F \cup {q[n]}
               PROVE  r[i] \in F \cup {q[n]}
    BY <1>1 DEF First
  <2>1. CASE i = 1
    BY <1>1, <2>1
  <2>2. CASE i # 1
    <3>1. /\ j # 1 /\ i - 1 \in 1..n /\ j - 1 \in 1..n /\ i - 1 < j - 1 /\ j - 1 # n
          /\ r[i] = q[i - 1] /\ r[j] = q[j - 1]
      BY <1>1, <2>2
    <3>2. q[j - 1] # q[n]
      <4>1. j - 1 \in DOMAIN q /\ n \in DOMAIN q /\ j - 1 # n
        BY <1>1, <3>1
      <4> QED BY <4>1 DEF IsInjective
    <3>3. i - 1 \in DOMAIN q /\ j - 1 \in DOMAIN q
      BY <1>1, <3>1
    <3>4. q[j - 1] \in F
      BY <3>1, <3>2
    <3>5. q[i - 1] \in F
      BY <1>5, <3>1, <3>3, <3>4 DEF First
    <3> QED BY <3>1, <3>5
  <2> QED BY <2>1, <2>2
<1> QED BY <1>1, <1>2, <1>3, <1>4, <1>5 DEF n, r

------------------------------------------------------------------------------
(* Poll groups. *)

LEMMA CellsFinite ==
  /\ Cardinality(Cells) \in Nat
  /\ \A p \in Port : /\ IsFiniteSet(p.heap) /\ Cardinality(p.heap) <= Cardinality(Cells)
                     /\ Cardinality(p.heap) \in Nat
                     /\ \A g : /\ IsFiniteSet(Members(p, g))
                               /\ Cardinality(Members(p, g)) \in Nat
<1>1. Cardinality(Cells) \in Nat
  BY PortAssumption, FS_CardinalityType
<1>2. ASSUME NEW T, T \subseteq Cells
      PROVE  IsFiniteSet(T) /\ Cardinality(T) <= Cardinality(Cells) /\ Cardinality(T) \in Nat
  BY <1>2, PortAssumption, FS_Subset, FS_CardinalityType
<1>3. \A p \in Port : p.heap \subseteq Cells /\ \A g : Members(p, g) \subseteq Cells
  BY DEF Port, Members
<1> QED BY <1>1, <1>2, <1>3

(* When all groups are full there are no more groups than sockets, so that    *)
(* one more is still within the bound.                                        *)
LEMMA RoomForGroup ==
  ASSUME NEW p \in Port, Grouped(p), Counts(p), NeedsGroup(p)
  PROVE  Len(p.groups) \in GroupIds /\ p.size[Len(p.groups)] = 0
<1> DEFINE n == Len(p.groups)
<1>1. n \in Nat /\ p.groups \in Seq(Nat) /\ DOMAIN p.groups = 1..n /\ p.heap \subseteq Cells
  BY DEF Port
<1>2. ToSet(p.groups) = 0..(n - 1) /\ n <= Cardinality(Cells) + 1
  BY DEF Grouped
<1>3. n <= Cardinality(Cells)
  <2>1. CASE n = 0
    BY <2>1, CellsFinite
  <2>2. CASE n # 0
    <3>1. p.groups # <<>> /\ p.groups[n] \in 0..(n - 1) /\ ~(p.size[p.groups[n]] < MaxGroup)
      BY <1>1, <1>2, <2>2 DEF NeedsGroup, Last, ToSet
    <3>2. p.groups[n] \in Full(p)
      <4>1. p.groups[n] \in GroupIds
        BY <1>1, <1>2, <3>1, CellsFinite DEF GroupIds
      <4>2. p.size[p.groups[n]] \in 0..MaxGroup
        BY <4>1 DEF Grouped
      <4>3. p.size[p.groups[n]] = MaxGroup
        BY <3>1, <4>2, PortAssumption
      <4> QED BY <4>1, <4>3 DEF Full
    <3>3. \A j \in 1..n : p.groups[j] \in Full(p)
      BY <1>1, <2>2, <3>2 DEF Grouped, First
    <3>4. \A g \in 0..(n - 1) : g \in Full(p)
      BY <1>1, <1>2, <3>3 DEF ToSet
    <3>5. \A g \in 0..(n - 1) : Members(p, g) # {}
      BY <3>4, PortAssumption, FS_EmptySet DEF Full, Counts
    <3> DEFINE f == [c \in p.heap |-> p.cell[c].group]
    <3>6. f \in Surjection(p.heap, 0..(n - 1))
      BY <1>2, <3>5 DEF Grouped, Surjection, Members
    <3>7. Cardinality(0..(n - 1)) <= Cardinality(p.heap)
      <4> HIDE DEF f, n
      <4> QED BY <3>6, CellsFinite, FS_Surjection
    <3>8. Cardinality(0..(n - 1)) = n
      BY <1>1, <2>2, FS_Interval
    <3> QED BY <1>1, <3>7, <3>8, CellsFinite
  <2> QED BY <2>1, <2>2
<1>4. Members(p, n) = {}
  BY <1>1, <1>2 DEF Grouped, Members
<1> QED BY <1>1, <1>3, <1>4, CellsFinite, FS_EmptySet DEF GroupIds, Counts

LEMMA WithGroupInv ==
  ASSUME NEW p \in Port, Grouped(p), Counts(p)
  PROVE  LET q == WithGroup(p)
         IN /\ q \in Port /\ Grouped(q) /\ q.size = p.size
            /\ q = [p EXCEPT !.groups = q.groups]
            /\ q.groups # <<>> /\ Last(q.groups) \in GroupIds
            /\ q.size[Last(q.groups)] \in 0..(MaxGroup - 1)
<1>1. CASE NeedsGroup(p)
  <2> DEFINE n == Len(p.groups)
             q == [p EXCEPT !.groups = Append(@, Len(@))]
  <2>1. n \in GroupIds /\ p.size[n] = 0 /\ n \in Nat
    BY <1>1, RoomForGroup DEF GroupIds
  <2>2. p.groups \in Seq(Nat) /\ IsInjective(p.groups) /\ ToSet(p.groups) = 0..(n - 1)
    BY DEF Port, Grouped
  <2>3. n \notin ToSet(p.groups) /\ n \notin Full(p)
    BY <2>1, <2>2, PortAssumption DEF Full
  <2>4. /\ Append(p.groups, n) \in Seq(Nat) /\ IsInjective(Append(p.groups, n))
        /\ ToSet(Append(p.groups, n)) = ToSet(p.groups) \cup {n}
        /\ Len(Append(p.groups, n)) = n + 1
        /\ First(Full(p), Append(p.groups, n))
    BY <2>1, <2>2, <2>3, AppendQueue DEF Grouped
  <2>5. q \in Port /\ q.groups = Append(p.groups, n) /\ q.size = p.size /\ q.heap = p.heap
        /\ q.cell = p.cell /\ Full(q) = Full(p)
    BY <2>4 DEF Port, Full
  <2>6. Last(q.groups) = n /\ q.groups # <<>>
    BY <2>2, <2>5 DEF Last
  <2> HIDE DEF q
  <2>7. Grouped(q)
    <3>0. (0..(n - 1)) \cup {n} = 0..n
      BY <2>1
    <3>a. ToSet(q.groups) = 0..n
      BY <2>2, <2>4, <2>5, <3>0
    <3>b. n <= Cardinality(Cells)
      BY <2>1, CellsFinite DEF GroupIds
    <3>1. ToSet(q.groups) = 0..n /\ Len(q.groups) = n + 1 /\ n <= Cardinality(Cells)
      BY <2>4, <2>5, <3>a, <3>b
    <3> QED BY <2>1, <2>2, <2>4, <2>5, <3>1, CellsFinite DEF Grouped
  <2>8. WithGroup(p) = q
    BY <1>1 DEF WithGroup, q
  <2>9. q = [p EXCEPT !.groups = q.groups]
    BY DEF q, Port
  <2>10. Last(q.groups) \in GroupIds /\ q.size[Last(q.groups)] \in 0..(MaxGroup - 1)
    BY <2>1, <2>5, <2>6, PortAssumption
  <2> QED BY <2>5, <2>6, <2>7, <2>8, <2>9, <2>10
<1>2. CASE ~NeedsGroup(p)
  <2>1. WithGroup(p) = p /\ p = [p EXCEPT !.groups = p.groups]
    BY <1>2 DEF WithGroup, Port
  <2>2. p.groups # <<>> /\ p.size[Last(p.groups)] < MaxGroup
    BY <1>2 DEF NeedsGroup
  <2>3. Last(p.groups) \in GroupIds
    BY <2>2, CellsFinite DEF Port, Grouped, Last, ToSet, GroupIds
  <2> QED BY <2>1, <2>2, <2>3, PortAssumption DEF Grouped
<1> QED BY <1>1, <1>2

SameCells(p, q) ==
  /\ q.heap = p.heap /\ q.cell = p.cell /\ q.tree = p.tree
  /\ q.update = p.update /\ q.deleted = p.deleted /\ q.active = p.active

(* poll_group_acquire() takes a group with room and keeps the groups in order. *)
LEMMA AcquireInv ==
  ASSUME NEW p \in Port, Grouped(p), Counts(p)
  PROVE  LET q == Acquire(p)
             g == Last(WithGroup(p).groups)
         IN /\ q \in Port /\ Grouped(q) /\ SameCells(p, q)
            /\ g \in GroupIds /\ g \in ToSet(q.groups)
            /\ q.size = [p.size EXCEPT ![g] = @ + 1]
<1> DEFINE w == WithGroup(p)
           g == Last(w.groups)
           q == Acquire(p)
           moved == <<g>> \o Front(w.groups)
<1>1. /\ w \in Port /\ Grouped(w) /\ w.size = p.size /\ w.groups # <<>>
      /\ w = [p EXCEPT !.groups = w.groups]
      /\ g \in GroupIds /\ w.size[g] \in 0..(MaxGroup - 1)
  BY WithGroupInv
<1>2. SameCells(p, w)
  BY <1>1 DEF SameCells, Port
<1>3. q = [w EXCEPT !.size[g] = @ + 1,
                    !.groups = IF w.size[g] + 1 = MaxGroup THEN moved ELSE @]
  BY DEF Acquire
<1> HIDE DEF w, q
<1>4. /\ w.groups \in Seq(Nat) /\ IsInjective(w.groups) /\ w.size \in [GroupIds -> Int]
      /\ First(Full(w), w.groups)
  BY <1>1 DEF Port, Grouped
<1>5. g \in ToSet(w.groups)
  BY <1>1, <1>4 DEF Last, ToSet
<1>6. /\ moved \in Seq(Nat) /\ IsInjective(moved) /\ ToSet(moved) = ToSet(w.groups)
      /\ Len(moved) = Len(w.groups) /\ First(Full(w) \cup {g}, moved)
  BY <1>1, <1>4, LastToStart
<1> HIDE DEF moved, g
<1>7. /\ q \in Port /\ SameCells(w, q) /\ q.size = [w.size EXCEPT ![g] = @ + 1]
      /\ q.groups = IF w.size[g] + 1 = MaxGroup THEN moved ELSE w.groups
  <2>1. [w.size EXCEPT ![g] = @ + 1] \in [GroupIds -> Int]
    BY <1>1, <1>4
  <2>2. (IF w.size[g] + 1 = MaxGroup THEN moved ELSE w.groups) \in Seq(Nat)
    BY <1>4, <1>6
  <2> QED BY <1>1, <1>3, <2>1, <2>2 DEF Port, SameCells
<1>8. Grouped(q)
  <2>1. Full(q) = IF w.size[g] + 1 = MaxGroup THEN Full(w) \cup {g} ELSE Full(w)
    BY <1>1, <1>4, <1>7, PortAssumption DEF Full
  <2>2. IsInjective(q.groups) /\ ToSet(q.groups) = ToSet(w.groups) /\ Len(q.groups) = Len(w.groups)
        /\ First(Full(q), q.groups)
    BY <1>4, <1>6, <1>7, <2>1
  <2>3. \A h \in GroupIds : q.size[h] \in 0..MaxGroup
    BY <1>1, <1>4, <1>7, PortAssumption DEF Grouped
  <2> QED BY <1>1, <1>7, <2>2, <2>3 DEF Grouped, SameCells
<1>9. g \in ToSet(q.groups)
  BY <1>5, <1>6, <1>7
<1> QED BY <1>1, <1>2, <1>7, <1>8, <1>9 DEF SameCells, w, q, g

(* poll_group_release() leaves a group with room at the end of the queue. *)
LEMMA ReleaseInv ==
  ASSUME NEW p \in Port, Grouped(p), NEW g \in ToSet(p.groups), p.size[g] >= 1
  PROVE  LET q == Release(p, g)
         IN /\ q \in Port /\ Grouped(q) /\ SameCells(p, q)
            /\ ToSet(q.groups) = ToSet(p.groups)
            /\ q.size = [p.size EXCEPT ![g] = @ - 1]
<1> DEFINE q == Release(p, g)
           rest == Unlink(p.groups, g)
<1>1. /\ p.groups \in Seq(Nat) /\ IsInjective(p.groups) /\ p.size \in [GroupIds -> Int]
      /\ First(Full(p), p.groups) /\ ToSet(p.groups) = 0..(Len(p.groups) - 1)
      /\ Len(p.groups) \in Nat /\ Len(p.groups) <= Cardinality(Cells) + 1
  BY DEF Port, Grouped
<1>2. g \in GroupIds /\ g \in Nat /\ p.size[g] \in 1..MaxGroup
  BY <1>1, CellsFinite, PortAssumption DEF GroupIds, Grouped
<1>3. /\ rest \in Seq(Nat) /\ IsInjective(rest) /\ ToSet(rest) = ToSet(p.groups) \ {g}
      /\ Len(rest) = Len(p.groups) - 1 /\ First(Full(p), rest)
  BY <1>1, UnlinkQueue
<1>4. First(Full(p) \ {g}, rest)
  BY <1>3 DEF First, ToSet
<1> DEFINE r == Append(rest, g)
<1>5. /\ r \in Seq(Nat) /\ IsInjective(r) /\ ToSet(r) = ToSet(p.groups)
      /\ Len(r) = Len(p.groups) /\ First(Full(p) \ {g}, r)
  <2>1. /\ r \in Seq(Nat) /\ IsInjective(r) /\ ToSet(r) = ToSet(rest) \cup {g}
        /\ Len(r) = Len(rest) + 1 /\ First(Full(p) \ {g}, r)
    BY <1>2, <1>3, <1>4, AppendQueue
  <2> HIDE DEF r, rest
  <2> QED BY <1>1, <1>3, <2>1
<1>6. q = [p EXCEPT !.size[g] = @ - 1, !.groups = r]
  BY DEF Release
<1> HIDE DEF q, r, rest
<1>7. /\ q \in Port /\ SameCells(p, q) /\ q.size = [p.size EXCEPT ![g] = @ - 1] /\ q.groups = r
  <2>1. [p.size EXCEPT ![g] = @ - 1] \in [GroupIds -> Int]
    BY <1>1, <1>2
  <2> QED BY <1>5, <1>6, <2>1 DEF Port, SameCells
<1>8. Full(q) = Full(p) \ {g}
  BY <1>1, <1>2, <1>7, PortAssumption DEF Full
<1>9. \A h \in GroupIds : q.size[h] \in 0..MaxGroup
  BY <1>1, <1>2, <1>7, PortAssumption DEF Grouped
<1>10. Grouped(q)
  BY <1>1, <1>5, <1>7, <1>8, <1>9 DEF Grouped, SameCells
<1> QED BY <1>5, <1>7, <1>10 DEF q

------------------------------------------------------------------------------
(* Cells. *)

SameGroups(p, q) ==
  /\ q.heap = p.heap /\ q.groups = p.groups /\ q.size = p.size
  /\ \A c \in Cells : q.cell[c].group = p.cell[c].group

LEMMA SameGroupsInv ==
  ASSUME NEW p \in Port, NEW q \in Port, SameGroups(p, q), Grouped(p), Counts(p)
  PROVE  Grouped(q) /\ Counts(q)
<1>1. \A c \in p.heap : c \in Cells
  BY DEF Port
<1>2. \A g : Members(q, g) = Members(p, g)
  BY <1>1 DEF Members, SameGroups
<1>3. Full(q) = Full(p)
  BY DEF Full, SameGroups
<1> QED BY <1>1, <1>2, <1>3 DEF Grouped, Counts, SameGroups

(* A port of which one cell is written. *)
LEMMA WriteCell ==
  ASSUME NEW p \in Port, NEW c \in Cells, NEW d \in Cell
  PROVE  LET q == [p EXCEPT !.cell[c] = d]
         IN /\ q \in Port /\ q.heap = p.heap /\ q.tree = p.tree /\ q.update = p.update
            /\ q.deleted = p.deleted /\ q.groups = p.groups /\ q.size = p.size
            /\ q.active = p.active /\ q.cell[c] = d
            /\ \A b \in Cells \ {c} : q.cell[b] = p.cell[b]
<1>1. [p.cell EXCEPT ![c] = d] \in [Cells -> Cell]
  BY DEF Port
<1> QED BY <1>1 DEF Port

(* port_request_socket_update() *)
LEMMA RequestInv ==
  ASSUME NEW p \in Port, Registry(p), NEW c \in p.heap, ~p.cell[c].deleted
  PROVE  LET q == Request(p, c)
         IN /\ q \in Port /\ Registry(q) /\ ToSet(q.update) = ToSet(p.update) \cup {c}
            /\ q.heap = p.heap /\ q.cell = p.cell /\ q.tree = p.tree /\ q.deleted = p.deleted
            /\ q.groups = p.groups /\ q.size = p.size /\ q.active = p.active
<1>1. c \in Cells /\ p.update \in Seq(Cells) /\ IsInjective(p.update) /\ c \notin ToSet(p.deleted)
  BY DEF Port, Registry, Linked, Place
<1>2. CASE c \in ToSet(p.update)
  BY <1>2 DEF Request, Enqueued
<1>3. CASE c \notin ToSet(p.update)
  <2> DEFINE q == [p EXCEPT !.update = Append(@, c)]
  <2>1. Request(p, c) = q
    BY <1>1, <1>3 DEF Request, Enqueued
  <2>2. /\ Append(p.update, c) \in Seq(Cells) /\ IsInjective(Append(p.update, c))
        /\ ToSet(Append(p.update, c)) = ToSet(p.update) \cup {c}
    BY <1>1, <1>3, AppendQueue
  <2>3. /\ q \in Port /\ q.update = Append(p.update, c)
        /\ q.heap = p.heap /\ q.cell = p.cell /\ q.tree = p.tree /\ q.deleted = p.deleted
        /\ q.groups = p.groups /\ q.size = p.size /\ q.active = p.active
    BY <2>2 DEF Port
  <2> HIDE DEF q
  <2>4. Registry(q)
    BY <2>2, <2>3 DEF Registry, Linked, Place
  <2> QED BY <2>1, <2>2, <2>3, <2>4
<1> QED BY <1>2, <1>3

LEMMA NearlyPort ==
  ASSUME NEW p, NEW c
  PROVE  /\ PortInv(p) => Nearly(p, c)
         /\ Nearly(p, c) /\ PollOK(p, c) => PortInv(p)
BY DEF PortInv, Nearly

(* The registry looks at the sockets of the cells and whether they are deleted. *)
LEMMA SameRegistry ==
  ASSUME NEW p \in Port, NEW q \in Port, Registry(p),
         q.heap = p.heap, q.tree = p.tree, q.update = p.update, q.deleted = p.deleted,
         \A b \in p.heap : /\ q.cell[b].sock = p.cell[b].sock
                           /\ q.cell[b].deleted = p.cell[b].deleted,
         \A b \in Cells \ p.heap : q.cell[b] = p.cell[b]
  PROVE  Registry(q)
<1>1. \A b \in p.heap : Place(q, b)
  BY DEF Registry, Linked, Place
<1>2. \A s \in Sockets : q.tree[s] # NULL =>
        /\ q.tree[s] \in q.heap
        /\ ~q.cell[q.tree[s]].deleted /\ q.cell[q.tree[s]].sock = s
  BY DEF Registry, Linked
<1>3. \A b \in Cells \ q.heap : q.cell[b] = Blank
  BY DEF Registry, Linked
<1> QED BY <1>1, <1>2, <1>3 DEF Registry, Linked

(* sock_set_event(): what the caller wants is watched, or asked for. *)
LEMMA SetEventInv ==
  ASSUME NEW p, NEW c \in p.heap, Nearly(p, c), ~p.cell[c].deleted,
         NEW events \in SUBSET (Known \cup {"ONESHOT"})
  PROVE  LET q == SetEvent(p, c, events)
         IN PortInv(q) /\ Keeps(p, q)
<1> DEFINE user == events \cup {"ERR", "HUP"}
           d == [p.cell[c] EXCEPT !.user = user]
           q == [p EXCEPT !.cell[c] = d]
<1>1. p \in Port /\ Registry(p) /\ Idles(p) /\ c \in Cells /\ p.cell[c] \in Cell
  BY DEF Nearly, Port
<1>2. d \in Cell
  BY <1>1 DEF Cell, Known
<1>3. /\ d.user = user /\ d.sock = p.cell[c].sock /\ d.group = p.cell[c].group
      /\ d.pending = p.cell[c].pending /\ d.status = p.cell[c].status
      /\ d.deleted = p.cell[c].deleted /\ ~d.deleted
      /\ d.iosb = p.cell[c].iosb /\ d.found = p.cell[c].found
  BY <1>1 DEF Cell
<1>4. /\ q \in Port /\ q.heap = p.heap /\ q.tree = p.tree /\ q.update = p.update
      /\ q.deleted = p.deleted /\ q.groups = p.groups /\ q.size = p.size
      /\ q.active = p.active /\ q.cell[c] = d
      /\ \A b \in Cells \ {c} : q.cell[b] = p.cell[b]
  BY <1>1, <1>2, WriteCell
<1>5. [p EXCEPT !.cell[c].user = user] = q
  BY <1>1 DEF Port
<1>6. {"ERR", "HUP"} \subseteq Wanted(d)
  BY <1>3 DEF Wanted, Known
<1> HIDE DEF d, q
<1>7. Registry(q)
  <2>1. \A b \in p.heap : /\ q.cell[b].sock = p.cell[b].sock
                          /\ q.cell[b].deleted = p.cell[b].deleted
    BY <1>1, <1>3, <1>4 DEF Port
  <2> QED BY <1>1, <1>4, <2>1, SameRegistry
<1>8. Idles(q)
  BY <1>1, <1>3, <1>4 DEF Idles
<1>9. Grouped(q) /\ Counts(q)
  BY <1>1, <1>3, <1>4, SameGroupsInv DEF Nearly, SameGroups
<1>10. Keeps(p, q)
  BY <1>3, <1>4 DEF Keeps
<1>11. \A b \in q.heap \ {c} : PollOK(q, b)
  BY <1>1, <1>4 DEF Nearly, PollOK, Port
<1>12. CASE Wanted(d) \subseteq d.pending
  <2>1. SetEvent(p, c, events) = q
    BY <1>4, <1>5, <1>12 DEF SetEvent
  <2>2. d.status \in {"PENDING", "CANCELLED"}
    BY <1>1, <1>2, <1>3, <1>6, <1>12 DEF Idles, Cell
  <2>3. PollOK(q, c)
    BY <1>3, <1>4, <1>12, <2>2 DEF PollOK
  <2> QED BY <1>4, <1>7, <1>8, <1>9, <1>10, <1>11, <2>1, <2>3 DEF PortInv
<1>13. CASE ~(Wanted(d) \subseteq d.pending)
  <2> DEFINE r == Request(q, c)
  <2>1. SetEvent(p, c, events) = r
    BY <1>4, <1>5, <1>13 DEF SetEvent
  <2>2. /\ r \in Port /\ Registry(r) /\ ToSet(r.update) = ToSet(q.update) \cup {c}
        /\ r.heap = q.heap /\ r.cell = q.cell /\ r.tree = q.tree /\ r.deleted = q.deleted
        /\ r.groups = q.groups /\ r.size = q.size /\ r.active = q.active
    BY <1>3, <1>4, <1>7, RequestInv
  <2> HIDE DEF r
  <2>3. Idles(r) /\ Keeps(p, r)
    BY <1>8, <1>10, <2>2 DEF Idles, Keeps
  <2>4. Grouped(r) /\ Counts(r)
    BY <1>4, <1>9, <2>2, SameGroupsInv DEF SameGroups
  <2>5. \A b \in r.heap : PollOK(r, b)
    BY <1>3, <1>4, <1>11, <2>2 DEF PollOK
  <2> QED BY <2>1, <2>2, <2>3, <2>4, <2>5 DEF PortInv
<1> QED BY <1>12, <1>13

(* A cell that is in neither queue nor the tree, or was only in the queue of  *)
(* the deleted, is freed.                                                     *)
LEMMA FreeCellInv ==
  ASSUME NEW p \in Port, NEW c \in p.heap, Linked(p, p.heap \ {c}), Idles(p),
         Grouped(p), Counts(p), \A b \in p.heap \ {c} : PollOK(p, b),
         p.cell[c].deleted, c \notin ToSet(p.update)
  PROVE  LET q == FreeCell(p, c)
         IN /\ PortInv(q) /\ q.heap = p.heap \ {c} /\ q.active = p.active
            /\ q.update = p.update /\ ToSet(q.deleted) = ToSet(p.deleted) \ {c}
            /\ \A b \in Cells \ {c} : q.cell[b] = p.cell[b]
            /\ q.cell[c] = Blank
<1> DEFINE g == p.cell[c].group
           r == Release(p, g)
           rest == Unlink(r.deleted, c)
           q == FreeCell(p, c)
<1>1. c \in Cells /\ p.cell[c] \in Cell /\ p.cell \in [Cells -> Cell]
  BY DEF Port
<1>2. g \in ToSet(p.groups) /\ g \in GroupIds
  BY CellsFinite DEF Grouped, Port, GroupIds
<1>3. p.size[g] >= 1
  <2>1. c \in Members(p, g)
    BY DEF Members
  <2>2. IsFiniteSet(Members(p, g)) /\ Cardinality(Members(p, g)) \in Nat
    BY CellsFinite
  <2>3. Cardinality(Members(p, g)) # 0
    BY <2>1, <2>2, FS_EmptySet
  <2> QED BY <1>2, <2>2, <2>3 DEF Counts
<1>4. /\ r \in Port /\ Grouped(r) /\ SameCells(p, r) /\ ToSet(r.groups) = ToSet(p.groups)
      /\ r.size = [p.size EXCEPT ![g] = @ - 1]
  BY <1>2, <1>3, ReleaseInv
<1>5. r.deleted \in Seq(Cells) /\ IsInjective(r.deleted) /\ r.deleted = p.deleted
  BY <1>4 DEF Linked, Port, SameCells
<1>6. rest \in Seq(Cells) /\ IsInjective(rest) /\ ToSet(rest) = ToSet(p.deleted) \ {c}
  BY <1>5, UnlinkQueue
<1>7. q = [r EXCEPT !.deleted = rest, !.heap = @ \ {c}, !.cell[c] = Blank]
  BY DEF FreeCell
<1> HIDE DEF q, rest, r, g
<1>8. Blank \in Cell
  BY DEF Blank, Cell
<1>9. /\ q \in Port /\ q.heap = p.heap \ {c} /\ q.active = p.active /\ q.update = p.update
      /\ q.deleted = rest /\ q.tree = p.tree /\ q.groups = r.groups /\ q.size = r.size
      /\ q.cell = [p.cell EXCEPT ![c] = Blank]
  <2>1. [r.cell EXCEPT ![c] = Blank] \in [Cells -> Cell] /\ r.heap \ {c} \in SUBSET Cells
    BY <1>4, <1>8 DEF Port
  <2> QED BY <1>4, <1>6, <1>7, <2>1 DEF Port, SameCells
<1>10. q.cell[c] = Blank /\ \A b \in Cells \ {c} : q.cell[b] = p.cell[b]
  BY <1>1, <1>9
<1>11. Registry(q)
  <2>1. \A b \in q.heap : b \in p.heap \ {c} /\ b \in Cells /\ q.cell[b] = p.cell[b]
    BY <1>9, <1>10 DEF Port
  <2>2. \A b \in q.heap : Place(q, b)
    BY <1>6, <1>9, <2>1 DEF Linked, Place
  <2>3. \A s \in Sockets : q.tree[s] # NULL =>
          /\ q.tree[s] \in q.heap
          /\ ~q.cell[q.tree[s]].deleted /\ q.cell[q.tree[s]].sock = s
    BY <1>9, <2>1 DEF Linked
  <2>4. \A b \in Cells \ q.heap : q.cell[b] = Blank
    BY <1>9, <1>10 DEF Linked
  <2>5. ToSet(q.update) \subseteq q.heap /\ ToSet(q.deleted) \subseteq q.heap
    BY <1>6, <1>9 DEF Linked
  <2> QED BY <1>6, <1>9, <2>2, <2>3, <2>4, <2>5 DEF Registry, Linked
<1>12. Idles(q)
  BY <1>10 DEF Idles, Blank
<1>13. \A b \in q.heap : PollOK(q, b)
  BY <1>9, <1>10 DEF PollOK, Port
<1>14. Counts(q)
  <2> SUFFICES ASSUME NEW h \in GroupIds PROVE q.size[h] = Cardinality(Members(q, h))
    BY DEF Counts
  <2>1. Members(q, h) = Members(p, h) \ {c}
    BY <1>9, <1>10 DEF Members, Port
  <2>2. c \in Members(p, h) <=> h = g
    BY DEF Members, g
  <2>3. q.size[h] = IF h = g THEN p.size[h] - 1 ELSE p.size[h]
    BY <1>2, <1>4, <1>9 DEF Port
  <2>4. p.size[h] = Cardinality(Members(p, h)) /\ IsFiniteSet(Members(p, h))
    BY CellsFinite DEF Counts
  <2>5. Cardinality(Members(p, h) \ {c})
          = IF c \in Members(p, h) THEN Cardinality(Members(p, h)) - 1
            ELSE Cardinality(Members(p, h))
    BY <2>4, FS_RemoveElement
  <2> QED BY <2>1, <2>2, <2>3, <2>4, <2>5
<1>15. Grouped(q)
  <2>1. Full(q) = Full(r)
    BY <1>9 DEF Full
  <2>2. \A b \in q.heap : q.cell[b].group \in ToSet(q.groups)
    BY <1>4, <1>9, <1>10 DEF Grouped, Port
  <2> QED BY <1>4, <1>9, <2>1, <2>2 DEF Grouped
<1> QED BY <1>6, <1>9, <1>10, <1>11, <1>12, <1>13, <1>14, <1>15 DEF PortInv, q

(* sock__delete() takes the socket out of the tree and the update queue. *)
LEMMA UnregisterFacts ==
  ASSUME NEW p \in Port, NEW c \in p.heap, NEW no
  PROVE  LET q == Unregister(p, c, no)
         IN /\ q.heap = p.heap /\ q.active = p.active /\ q.groups = p.groups /\ q.size = p.size
            /\ q.update = Unlink(p.update, c) /\ q.deleted = p.deleted
            /\ q.tree = [p.tree EXCEPT ![p.cell[c].sock] = NULL]
            /\ q.cell[c].deleted /\ q.cell[c].sock = p.cell[c].sock
            /\ q.cell[c].group = p.cell[c].group
            /\ q.cell[c].iosb = p.cell[c].iosb /\ q.cell[c].found = p.cell[c].found
            /\ q.cell[c].status = "IDLE" <=> p.cell[c].status = "IDLE"
            /\ p.cell[c].status = "IDLE" => q.cell[c].pending = p.cell[c].pending
            /\ \A b \in Cells \ {c} : q.cell[b] = p.cell[b]
            /\ Unlink(p.update, c) \in Seq(Cells) => q \in Port
<1> DEFINE w == IF p.cell[c].status = "PENDING" /\ ~Refused(p, c, no) THEN Cancel(p, c) ELSE p
           d == [p.cell[c] EXCEPT !.status = "CANCELLED", !.pending = {}]
           x == IF p.cell[c].status = "PENDING" /\ ~Refused(p, c, no) THEN d ELSE p.cell[c]
           y == [x EXCEPT !.deleted = TRUE]
           q == Unregister(p, c, no)
<1>1. c \in Cells /\ p.cell[c] \in Cell /\ p.cell \in [Cells -> Cell]
      /\ p.tree \in [Sockets -> Cells \cup {NULL}]
  BY DEF Port
<1>2. d \in Cell /\ x \in Cell /\ y \in Cell
  BY <1>1 DEF Cell
<1>3. w = [p EXCEPT !.cell[c] = x]
  BY <1>1 DEF Cancel, Port
<1>4. /\ w \in Port /\ w.heap = p.heap /\ w.tree = p.tree /\ w.update = p.update
      /\ w.deleted = p.deleted /\ w.groups = p.groups /\ w.size = p.size
      /\ w.active = p.active /\ w.cell[c] = x
      /\ \A b \in Cells \ {c} : w.cell[b] = p.cell[b]
  <2> HIDE DEF w, x
  <2> QED BY <1>1, <1>2, <1>3, WriteCell
<1>5. q = [w EXCEPT !.update = Unlink(@, c), !.tree[p.cell[c].sock] = NULL,
                    !.cell[c].deleted = TRUE]
  BY DEF Unregister
<1>6. /\ y.deleted /\ y.sock = p.cell[c].sock /\ y.group = p.cell[c].group
      /\ y.iosb = p.cell[c].iosb /\ y.found = p.cell[c].found
      /\ y.status = "IDLE" <=> p.cell[c].status = "IDLE"
      /\ p.cell[c].status = "IDLE" => y.pending = p.cell[c].pending
  BY <1>1 DEF Cell
<1> HIDE DEF w, x, y, d, q
<1>7. /\ q.heap = p.heap /\ q.active = p.active /\ q.groups = p.groups /\ q.size = p.size
      /\ q.update = Unlink(p.update, c) /\ q.deleted = p.deleted
      /\ q.tree = [p.tree EXCEPT ![p.cell[c].sock] = NULL]
  BY <1>4, <1>5 DEF Port
<1>8. q.cell = [w.cell EXCEPT ![c] = y] /\ w.cell \in [Cells -> Cell]
  BY <1>1, <1>4, <1>5 DEF Port, y
<1>9. q.cell[c] = y /\ \A b \in Cells \ {c} : q.cell[b] = p.cell[b]
  BY <1>1, <1>4, <1>8
<1>10. ASSUME Unlink(p.update, c) \in Seq(Cells) PROVE q \in Port
  <2>1. q.cell \in [Cells -> Cell] /\ q.tree \in [Sockets -> Cells \cup {NULL}]
    BY <1>1, <1>2, <1>7, <1>8
  <2>2. q = [w EXCEPT !.update = q.update, !.tree = q.tree, !.cell = q.cell]
    BY <1>4, <1>5, <1>7 DEF Port
  <2> QED BY <1>4, <1>7, <1>10, <2>1, <2>2 DEF Port
<1> QED BY <1>6, <1>7, <1>9, <1>10 DEF q

(* sock__delete(): a cell that is no longer registered can be freed, and when  *)
(* its poll is not over it can wait in the queue of the deleted.               *)
Dismissed(p, c, no) == IF p.cell[c].deleted THEN p ELSE Unregister(p, c, no)

Waiting(w, c) == IF Enqueued(w, c) THEN w ELSE [w EXCEPT !.deleted = Append(@, c)]

Gone(p, c, q) ==
  /\ PortInv(q) /\ q.active = p.active /\ q.update = Unlink(p.update, c)
  /\ \A b \in Cells \ {c} : q.cell[b] = p.cell[b]

Freed(p, c, q) ==
  /\ Gone(p, c, q) /\ q.heap = p.heap \ {c} /\ q.cell[c] = Blank
  /\ ToSet(q.deleted) = ToSet(p.deleted) \ {c}

Kept(p, c, q) ==
  /\ Gone(p, c, q) /\ q.heap = p.heap /\ q.cell[c].status # "IDLE"
  /\ q.cell[c].iosb = p.cell[c].iosb /\ q.cell[c].found = p.cell[c].found

LEMMA DismissedInv ==
  ASSUME NEW p \in Port, NEW c \in p.heap, Nearly(p, c), NEW no
  PROVE  LET w == Dismissed(p, c, no)
         IN /\ w.cell[c].status = "IDLE" <=> p.cell[c].status = "IDLE"
            /\ Freed(p, c, FreeCell(w, c))
            /\ p.cell[c].status # "IDLE" => Kept(p, c, Waiting(w, c))
<1> DEFINE u == Unregister(p, c, no)
           w == Dismissed(p, c, no)
<1>1. /\ p \in Port /\ Registry(p) /\ Idles(p) /\ Grouped(p) /\ Counts(p)
      /\ \A b \in p.heap \ {c} : PollOK(p, b)
      /\ c \in Cells /\ Place(p, c)
  BY DEF Nearly, Port, Registry, Linked
<1>2. /\ p.update \in Seq(Cells) /\ IsInjective(p.update)
      /\ p.deleted \in Seq(Cells) /\ IsInjective(p.deleted)
      /\ p.tree \in [Sockets -> Cells \cup {NULL}]
  BY <1>1 DEF Port, Registry, Linked
<1>3. /\ Unlink(p.update, c) \in Seq(Cells) /\ IsInjective(Unlink(p.update, c))
      /\ ToSet(Unlink(p.update, c)) = ToSet(p.update) \ {c}
  BY <1>2, UnlinkQueue
<1>4. /\ w \in Port /\ w.heap = p.heap /\ w.active = p.active /\ w.groups = p.groups
      /\ w.size = p.size /\ w.update = Unlink(p.update, c) /\ w.deleted = p.deleted
      /\ w.cell[c].deleted /\ w.cell[c].sock = p.cell[c].sock
      /\ w.cell[c].group = p.cell[c].group
      /\ w.cell[c].iosb = p.cell[c].iosb /\ w.cell[c].found = p.cell[c].found
      /\ w.cell[c].status = "IDLE" <=> p.cell[c].status = "IDLE"
      /\ p.cell[c].status = "IDLE" => w.cell[c].pending = p.cell[c].pending
      /\ \A b \in Cells \ {c} : w.cell[b] = p.cell[b]
      /\ \A s \in Sockets : w.tree[s] # NULL => w.tree[s] = p.tree[s] /\ p.tree[s] # c
      /\ \A s \in Sockets : p.tree[s] # c => w.tree[s] = p.tree[s]
  <2>1. CASE p.cell[c].deleted
    <3>1. Unlink(p.update, c) = p.update
      BY <1>1, <2>1 DEF Place, Unlink
    <3>2. \A s \in Sockets : p.tree[s] # c
      BY <1>1, <2>1, PortAssumption DEF Registry, Linked
    <3>3. w = p
      BY <2>1 DEF Dismissed
    <3> QED BY <1>1, <2>1, <3>1, <3>2, <3>3
  <2>2. CASE ~p.cell[c].deleted
    <3>1. /\ u.heap = p.heap /\ u.active = p.active /\ u.groups = p.groups /\ u.size = p.size
          /\ u.update = Unlink(p.update, c) /\ u.deleted = p.deleted
          /\ u.tree = [p.tree EXCEPT ![p.cell[c].sock] = NULL]
          /\ u.cell[c].deleted /\ u.cell[c].sock = p.cell[c].sock
          /\ u.cell[c].group = p.cell[c].group
          /\ u.cell[c].iosb = p.cell[c].iosb /\ u.cell[c].found = p.cell[c].found
          /\ u.cell[c].status = "IDLE" <=> p.cell[c].status = "IDLE"
          /\ p.cell[c].status = "IDLE" => u.cell[c].pending = p.cell[c].pending
          /\ \A b \in Cells \ {c} : u.cell[b] = p.cell[b]
          /\ Unlink(p.update, c) \in Seq(Cells) => u \in Port
      BY <1>1, UnregisterFacts
    <3>0. u \in Port
      BY <1>3, <3>1
    <3>2. w = u
      BY <2>2 DEF Dismissed
    <3> HIDE DEF u, w
    <3>3. \A s \in Sockets : p.tree[s] = c => s = p.cell[c].sock
      BY <1>1, PortAssumption DEF Registry, Linked
    <3>4. p.cell[c].sock \in Sockets /\ p.tree[p.cell[c].sock] = c
      BY <1>1, <2>2 DEF Place
    <3>5. \A s \in Sockets : u.tree[s] # NULL => u.tree[s] = p.tree[s] /\ p.tree[s] # c
      BY <1>2, <3>1, <3>3
    <3>6. \A s \in Sockets : p.tree[s] # c => u.tree[s] = p.tree[s]
      BY <1>2, <3>1, <3>4
    <3> QED BY <3>0, <3>1, <3>2, <3>5, <3>6
  <2> QED BY <2>1, <2>2
<1> HIDE DEF w, u
<1>6. Linked(w, w.heap \ {c}) /\ c \notin ToSet(w.update)
  <2>1. \A b \in w.heap \ {c} : Place(w, b)
    <3> SUFFICES ASSUME NEW b \in p.heap \ {c} PROVE Place(w, b)
      BY <1>4
    <3>1. Place(p, b) /\ b \in Cells /\ w.cell[b] = p.cell[b]
      BY <1>1, <1>4 DEF Registry, Linked, Port
    <3>2. ~p.cell[b].deleted => w.tree[p.cell[b].sock] = b
      BY <1>4, <3>1 DEF Place
    <3> QED BY <1>3, <1>4, <3>1, <3>2 DEF Place
  <2>2. \A s \in Sockets : w.tree[s] # NULL =>
          /\ w.tree[s] \in w.heap
          /\ ~w.cell[w.tree[s]].deleted /\ w.cell[w.tree[s]].sock = s
    BY <1>1, <1>4 DEF Registry, Linked, Port
  <2>3. \A b \in Cells \ w.heap : w.cell[b] = Blank
    BY <1>1, <1>4 DEF Registry, Linked
  <2>4. ToSet(w.update) \subseteq w.heap /\ ToSet(w.deleted) \subseteq w.heap
    BY <1>1, <1>3, <1>4 DEF Registry, Linked
  <2> QED BY <1>2, <1>3, <1>4, <2>1, <2>2, <2>3, <2>4 DEF Linked
<1>7. Idles(w)
  BY <1>1, <1>4 DEF Idles
<1>8. \A b \in w.heap \ {c} : PollOK(w, b)
  BY <1>1, <1>3, <1>4 DEF PollOK, Port
<1>9. Grouped(w) /\ Counts(w)
  <2>1. SameGroups(p, w)
    BY <1>4 DEF SameGroups
  <2> QED BY <1>1, <1>4, <2>1, SameGroupsInv
<1>10. Freed(p, c, FreeCell(w, c))
  <2> DEFINE q == FreeCell(w, c)
  <2>1. /\ PortInv(q) /\ q.heap = w.heap \ {c} /\ q.active = w.active
        /\ q.update = w.update /\ ToSet(q.deleted) = ToSet(w.deleted) \ {c}
        /\ \A b \in Cells \ {c} : q.cell[b] = w.cell[b]
        /\ q.cell[c] = Blank
    BY <1>4, <1>6, <1>7, <1>8, <1>9, FreeCellInv
  <2> HIDE DEF q
  <2>2. Freed(p, c, q)
    BY <1>4, <2>1 DEF Gone, Freed
  <2> QED BY <2>2 DEF q
<1>11. ASSUME p.cell[c].status # "IDLE"
       PROVE  Kept(p, c, Waiting(w, c))
  <2> DEFINE r == [w EXCEPT !.deleted = Append(@, c)]
             z == Waiting(w, c)
  <2>1. z = IF Enqueued(w, c) THEN w ELSE r
    BY DEF Waiting
  <2> HIDE DEF z
  <2>2. /\ z \in Port /\ z.heap = w.heap /\ z.active = w.active /\ z.groups = w.groups
        /\ z.size = w.size /\ z.update = w.update /\ z.tree = w.tree /\ z.cell = w.cell
        /\ IsInjective(z.deleted) /\ ToSet(z.deleted) = ToSet(w.deleted) \cup {c}
    <3>1. CASE Enqueued(w, c)
      <4>1. c \in ToSet(w.deleted)
        BY <1>6, <3>1 DEF Enqueued
      <4> QED BY <1>2, <1>4, <2>1, <3>1, <4>1
    <3>2. CASE ~Enqueued(w, c)
      <4>1. /\ Append(w.deleted, c) \in Seq(Cells) /\ IsInjective(Append(w.deleted, c))
            /\ ToSet(Append(w.deleted, c)) = ToSet(w.deleted) \cup {c}
        BY <1>1, <1>2, <1>4, <3>2, AppendQueue DEF Enqueued
      <4>2. /\ r \in Port /\ r.heap = w.heap /\ r.active = w.active /\ r.groups = w.groups
            /\ r.size = w.size /\ r.update = w.update /\ r.tree = w.tree /\ r.cell = w.cell
            /\ r.deleted = Append(w.deleted, c)
        BY <1>4, <4>1 DEF Port
      <4> QED BY <2>1, <3>2, <4>1, <4>2
    <3> QED BY <3>1, <3>2
  <2> HIDE DEF r
  <2>3. Registry(z)
    <3>1. Place(z, c)
      BY <1>1, <1>4, <1>6, <2>2 DEF Place
    <3>2. \A b \in z.heap \ {c} : Place(z, b)
      BY <1>6, <2>2 DEF Linked, Place
    <3>3. ToSet(z.deleted) \subseteq z.heap
      BY <1>4, <1>6, <2>2 DEF Linked
    <3> QED BY <1>6, <2>2, <3>1, <3>2, <3>3 DEF Registry, Linked
  <2>4. Idles(z)
    BY <1>7, <2>2 DEF Idles
  <2>5. Grouped(z) /\ Counts(z)
    <3>1. SameGroups(w, z)
      BY <2>2 DEF SameGroups
    <3> QED BY <1>4, <1>9, <2>2, <3>1, SameGroupsInv
  <2>6. \A b \in z.heap : PollOK(z, b)
    BY <1>4, <1>8, <1>11, <2>2 DEF PollOK
  <2>7. PortInv(z)
    BY <2>2, <2>3, <2>4, <2>5, <2>6 DEF PortInv
  <2>8. Gone(p, c, z)
    BY <1>4, <2>2, <2>7 DEF Gone
  <2>9. /\ z.heap = p.heap /\ z.cell[c].status # "IDLE"
        /\ z.cell[c].iosb = p.cell[c].iosb /\ z.cell[c].found = p.cell[c].found
    BY <1>4, <1>11, <2>2
  <2> QED BY <2>8, <2>9 DEF Kept, z
<1> QED BY <1>4, <1>10, <1>11 DEF w

(* sock_delete(): a cell whose poll is not over waits for its packet. *)
LEMMA DeleteInv ==
  ASSUME NEW p, NEW c \in p.heap, Nearly(p, c), NEW no
  PROVE  /\ p.cell[c].status = "IDLE" => Freed(p, c, Delete(p, c, FALSE, no))
         /\ p.cell[c].status # "IDLE" => Kept(p, c, Delete(p, c, FALSE, no))
<1> DEFINE w == Dismissed(p, c, no)
<1>1. Delete(p, c, FALSE, no) = IF w.cell[c].status = "IDLE" THEN FreeCell(w, c) ELSE Waiting(w, c)
  BY DEF Delete, Dismissed, Waiting
<1>2. p \in Port
  BY DEF Nearly
<1>3. /\ w.cell[c].status = "IDLE" <=> p.cell[c].status = "IDLE"
      /\ Freed(p, c, FreeCell(w, c))
      /\ p.cell[c].status # "IDLE" => Kept(p, c, Waiting(w, c))
  BY <1>2, DismissedInv
<1> HIDE DEF w
<1> QED BY <1>1, <1>3

(* sock_force_delete(): it is freed. *)
LEMMA ForceDeleteInv ==
  ASSUME NEW p, NEW c \in p.heap, PortInv(p)
  PROVE  Freed(p, c, Delete(p, c, TRUE, {}))
<1> DEFINE w == Dismissed(p, c, {})
<1>1. Delete(p, c, TRUE, {}) = FreeCell(w, c)
  BY DEF Delete, Dismissed
<1>2. Nearly(p, c) /\ p \in Port
  BY NearlyPort DEF PortInv
<1>3. Freed(p, c, FreeCell(w, c))
  BY <1>2, DismissedInv
<1> QED BY <1>1, <1>3

(* A cell is written, but neither moved nor deleted. *)
LEMMA RewriteInv ==
  ASSUME NEW p, NEW c \in p.heap, Nearly(p, c), NEW d \in Cell,
         d.sock = p.cell[c].sock, d.group = p.cell[c].group, d.deleted = p.cell[c].deleted,
         d.status = "IDLE" => d.pending = {} /\ d.iosb = "none"
  PROVE  LET q == [p EXCEPT !.cell[c] = d]
         IN /\ Nearly(q, c) /\ q.heap = p.heap /\ q.tree = p.tree /\ q.update = p.update
            /\ q.deleted = p.deleted /\ q.active = p.active /\ q.cell[c] = d
            /\ \A b \in Cells \ {c} : q.cell[b] = p.cell[b]
<1> DEFINE q == [p EXCEPT !.cell[c] = d]
<1>1. p \in Port /\ c \in Cells /\ Registry(p) /\ Idles(p) /\ Grouped(p) /\ Counts(p)
  BY DEF Nearly, Port
<1>2. /\ q \in Port /\ q.heap = p.heap /\ q.tree = p.tree /\ q.update = p.update
      /\ q.deleted = p.deleted /\ q.groups = p.groups /\ q.size = p.size
      /\ q.active = p.active /\ q.cell[c] = d
      /\ \A b \in Cells \ {c} : q.cell[b] = p.cell[b]
  BY <1>1, WriteCell
<1> HIDE DEF q
<1>3. Registry(q)
  <2>1. \A b \in p.heap : /\ q.cell[b].sock = p.cell[b].sock
                          /\ q.cell[b].deleted = p.cell[b].deleted
    BY <1>1, <1>2 DEF Port
  <2>2. \A b \in Cells \ p.heap : q.cell[b] = p.cell[b]
    BY <1>2
  <2> QED BY <1>1, <1>2, <2>1, <2>2, SameRegistry
<1>4. Idles(q)
  BY <1>1, <1>2 DEF Idles
<1>5. Grouped(q) /\ Counts(q)
  <2>1. SameGroups(p, q)
    BY <1>2 DEF SameGroups
  <2> QED BY <1>1, <1>2, <2>1, SameGroupsInv
<1>6. \A b \in q.heap \ {c} : PollOK(q, b)
  BY <1>1, <1>2 DEF Nearly, PollOK, Port
<1> QED BY <1>2, <1>3, <1>4, <1>5, <1>6 DEF Nearly, q

(* A socket leaves the update queue. *)
LEMMA DoneInv ==
  ASSUME NEW p, NEW c \in p.heap, PortInv(p), ~p.cell[c].deleted
  PROVE  LET q == [p EXCEPT !.update = Unlink(@, c)]
         IN /\ Nearly(q, c) /\ q.heap = p.heap /\ q.cell = p.cell /\ q.active = p.active
            /\ q.update = Unlink(p.update, c) /\ ToSet(q.update) = ToSet(p.update) \ {c}
<1> DEFINE q == [p EXCEPT !.update = Unlink(@, c)]
<1>1. /\ p \in Port /\ Registry(p) /\ Idles(p) /\ Grouped(p) /\ Counts(p)
      /\ p.update \in Seq(Cells) /\ IsInjective(p.update)
  BY DEF PortInv, Port, Registry, Linked
<1>2. /\ Unlink(p.update, c) \in Seq(Cells) /\ IsInjective(Unlink(p.update, c))
      /\ ToSet(Unlink(p.update, c)) = ToSet(p.update) \ {c}
  BY <1>1, UnlinkQueue
<1>3. /\ q \in Port /\ q.heap = p.heap /\ q.tree = p.tree /\ q.update = Unlink(p.update, c)
      /\ q.deleted = p.deleted /\ q.groups = p.groups /\ q.size = p.size
      /\ q.active = p.active /\ q.cell = p.cell
  BY <1>1, <1>2 DEF Port
<1> HIDE DEF q
<1>4. Registry(q)
  BY <1>1, <1>2, <1>3 DEF Registry, Linked, Place
<1>5. Idles(q)
  BY <1>1, <1>3 DEF Idles
<1>6. Grouped(q) /\ Counts(q)
  <2>1. SameGroups(p, q)
    BY <1>3 DEF SameGroups
  <2> QED BY <1>1, <1>3, <2>1, SameGroupsInv
<1>7. \A b \in q.heap \ {c} : PollOK(q, b)
  BY <1>2, <1>3 DEF PortInv, PollOK
<1> QED BY <1>2, <1>3, <1>4, <1>5, <1>6, <1>7 DEF Nearly, q

(* sock_update() *)
LEMMA SockUpdateInv ==
  ASSUME NEW p, PortInv(p), NEW c \in ToSet(p.update), NEW no
  PROVE  LET q == SockUpdate(p, c, no)
         IN /\ PortInv(q) /\ Keeps(p, q)
            /\ ToSet(p.update) \ {c} \subseteq ToSet(q.update)
            /\ no = {} => q.update = Unlink(p.update, c)
<1> DEFINE d == p.cell[c]
           done == [p EXCEPT !.update = Unlink(@, c)]
           q == SockUpdate(p, c, no)
<1>1. /\ p \in Port /\ c \in p.heap /\ c \in Cells /\ d \in Cell /\ ~d.deleted
      /\ p.update \in Seq(Cells) /\ IsInjective(p.update)
  BY DEF PortInv, Port, Registry, Linked, Place
<1>2. /\ Nearly(done, c) /\ done.heap = p.heap /\ done.cell = p.cell /\ done.active = p.active
      /\ done.update = Unlink(p.update, c) /\ ToSet(done.update) = ToSet(p.update) \ {c}
  BY <1>1, DoneInv
<1>3. Keeps(p, p) /\ Keeps(p, done)
  BY <1>2 DEF Keeps
<1>4. ToSet(Unlink(p.update, c)) = ToSet(p.update) \ {c}
  BY <1>1, UnlinkQueue
<1>5. /\ d.status = "PENDING" /\ Wanted(d) \subseteq d.pending => q = done
      /\ d.status = "PENDING" /\ ~(Wanted(d) \subseteq d.pending) =>
           q = IF Refused(p, c, no) THEN p ELSE Cancel(done, c)
      /\ d.status = "CANCELLED" => q = done
      /\ d.status = "IDLE" =>
           q = IF ready[d.sock] = Closed THEN Delete(p, c, FALSE, no)
               ELSE IF c \in no THEN p ELSE Submit(done, c)
  BY DEF SockUpdate
<1> HIDE DEF q, done
<1>6. no = {} => c \notin no /\ ~Refused(p, c, no)
  BY DEF Refused
<1>7. CASE d.status = "CANCELLED" \/ (d.status = "PENDING" /\ Wanted(d) \subseteq d.pending)
  <2>1. q = done
    BY <1>5, <1>7
  <2>2. PollOK(done, c)
    BY <1>1, <1>2, <1>7 DEF PollOK
  <2> QED BY <1>2, <1>3, <2>1, <2>2, NearlyPort DEF q
<1>8. CASE d.status = "PENDING" /\ ~(Wanted(d) \subseteq d.pending)
  <2>1. CASE Refused(p, c, no)
    <3>1. q = p
      BY <1>5, <1>8, <2>1
    <3> QED BY <1>3, <1>6, <2>1, <3>1 DEF q
  <2>2. CASE ~Refused(p, c, no)
    <3> DEFINE e == [d EXCEPT !.status = "CANCELLED", !.pending = {}]
               r == [done EXCEPT !.cell[c] = e]
    <3>1. /\ e \in Cell /\ e.sock = d.sock /\ e.group = d.group /\ e.deleted = d.deleted
          /\ e.status = "CANCELLED" /\ e.iosb = d.iosb /\ e.found = d.found
      BY <1>1 DEF Cell
    <3>2. q = r
      <4>1. q = Cancel(done, c)
        BY <1>5, <1>8, <2>2
      <4> QED BY <1>1, <1>2, <4>1 DEF Cancel, Nearly, Port
    <3> HIDE DEF e
    <3>3. /\ Nearly(r, c) /\ r.heap = done.heap /\ r.update = done.update
          /\ r.active = done.active /\ r.cell[c] = e
          /\ \A b \in Cells \ {c} : r.cell[b] = done.cell[b]
      BY <1>1, <1>2, <3>1, RewriteInv
    <3> HIDE DEF r
    <3>4. PollOK(r, c)
      BY <1>1, <3>1, <3>3 DEF PollOK
    <3>5. Keeps(p, r)
      BY <1>2, <1>8, <3>1, <3>3 DEF Keeps
    <3> QED BY <1>2, <3>2, <3>3, <3>4, <3>5, NearlyPort DEF q
  <2> QED BY <2>1, <2>2
<1>9. CASE d.status = "IDLE" /\ ready[d.sock] = Closed
  <2> DEFINE r == Delete(p, c, FALSE, no)
  <2>1. q = r
    BY <1>5, <1>9
  <2>2. Nearly(p, c)
    BY NearlyPort
  <2>f. Freed(p, c, r)
    BY <1>1, <1>9, <2>2, DeleteInv
  <2>3. /\ PortInv(r) /\ r.active = p.active /\ r.update = Unlink(p.update, c)
        /\ \A b \in Cells \ {c} : r.cell[b] = p.cell[b]
        /\ r.cell[c] = Blank
    BY <2>f DEF Freed, Gone
  <2> HIDE DEF r
  <2>4. Keeps(p, r)
    BY <1>9, <2>3 DEF Keeps, Blank
  <2> QED BY <1>4, <2>1, <2>3, <2>4 DEF q
<1>10. CASE d.status = "IDLE" /\ ready[d.sock] # Closed
  <2>1. CASE c \in no
    <3>1. q = p
      BY <1>5, <1>10, <2>1
    <3> QED BY <1>3, <1>6, <2>1, <3>1 DEF q
  <2>2. CASE c \notin no
    <3> DEFINE e == [d EXCEPT !.status = "PENDING", !.pending = d.user, !.iosb = "pending"]
               r == [done EXCEPT !.cell[c] = e]
    <3>1. /\ e \in Cell /\ e.sock = d.sock /\ e.group = d.group /\ e.deleted = d.deleted
          /\ e.status = "PENDING" /\ e.iosb = "pending" /\ Wanted(e) \subseteq e.pending
      BY <1>1 DEF Cell, Wanted
    <3>2. q = r
      <4>1. q = Submit(done, c)
        BY <1>5, <1>10, <2>2
      <4> QED BY <1>1, <1>2, <4>1 DEF Submit, Nearly, Port
    <3> HIDE DEF e
    <3>3. /\ Nearly(r, c) /\ r.heap = done.heap /\ r.update = done.update
          /\ r.active = done.active /\ r.cell[c] = e
          /\ \A b \in Cells \ {c} : r.cell[b] = done.cell[b]
      BY <1>1, <1>2, <3>1, RewriteInv
    <3> HIDE DEF r
    <3>4. PollOK(r, c)
      BY <1>1, <3>1, <3>3 DEF PollOK
    <3>5. Keeps(p, r)
      BY <1>2, <1>10, <3>1, <3>3 DEF Keeps
    <3> QED BY <1>2, <3>2, <3>3, <3>4, <3>5, NearlyPort DEF q
  <2> QED BY <2>1, <2>2
<1> QED BY <1>1, <1>7, <1>8, <1>9, <1>10 DEF Cell

(* A cell that was written asks for an update. *)
LEMMA RequestNearly ==
  ASSUME NEW p, NEW c \in p.heap, Nearly(p, c), ~p.cell[c].deleted
  PROVE  LET q == Request(p, c)
         IN /\ PortInv(q) /\ c \in ToSet(q.update) /\ q.heap = p.heap
            /\ q.cell = p.cell /\ q.active = p.active
<1> DEFINE q == Request(p, c)
<1>1. p \in Port /\ Registry(p)
  BY DEF Nearly
<1>2. /\ q \in Port /\ Registry(q) /\ ToSet(q.update) = ToSet(p.update) \cup {c}
      /\ q.heap = p.heap /\ q.cell = p.cell /\ q.tree = p.tree /\ q.deleted = p.deleted
      /\ q.groups = p.groups /\ q.size = p.size /\ q.active = p.active
  BY <1>1, RequestInv
<1> HIDE DEF q
<1>3. Grouped(q) /\ Counts(q)
  <2>1. SameGroups(p, q)
    BY <1>2 DEF SameGroups
  <2> QED BY <1>1, <1>2, <2>1, SameGroupsInv DEF Nearly
<1>4. Idles(q)
  BY <1>2 DEF Nearly, Idles
<1>5. \A b \in q.heap : PollOK(q, b)
  BY <1>2 DEF Nearly, PollOK
<1>6. PortInv(q) /\ c \in ToSet(q.update)
  BY <1>2, <1>3, <1>4, <1>5 DEF PortInv
<1> QED BY <1>2, <1>6 DEF q

Fed(p, c, q) ==
  /\ PortInv(q) /\ q.active = p.active /\ q.cell[c].status = "IDLE"
  /\ \A b \in Cells \ {c} : q.cell[b] = p.cell[b]

(* sock_feed_event(): the poll of the cell is over. *)
LEMMA FeedInv ==
  ASSUME NEW p, NEW c \in p.heap, PortInv(p), p.cell[c].status # "IDLE", NEW no
  PROVE  Fed(p, c, Feed(p, c, no))
<1> DEFINE d == p.cell[c]
           e == [d EXCEPT !.status = "IDLE", !.pending = {}, !.iosb = "none", !.found = {}]
           idle == [p EXCEPT !.cell[c] = e]
           next == Request(idle, c)
           q == Feed(p, c, no)
<1>1. p \in Port /\ c \in Cells /\ d \in Cell
  BY DEF PortInv, Port
<1>2. /\ e \in Cell /\ e.sock = d.sock /\ e.group = d.group /\ e.deleted = d.deleted
      /\ e.status = "IDLE" /\ e.pending = {} /\ e.iosb = "none" /\ e.user = d.user
  BY <1>1 DEF Cell
<1> DEFINE raw == [p EXCEPT !.cell[c].status = "IDLE", !.cell[c].pending = {},
                            !.cell[c].iosb = "none", !.cell[c].found = {}]
<1>a. q = IF d.deleted \/ d.found = Closed THEN Delete(raw, c, FALSE, no)
          ELSE IF Reports(d) # {} /\ "ONESHOT" \in d.user
               THEN [Request(raw, c) EXCEPT !.cell[c].user = {}]
          ELSE Request(raw, c)
  BY DEF Feed
<1>3. raw = idle
  <2>1. p.cell \in [Cells -> Cell] /\ DOMAIN p.cell = Cells
    BY <1>1 DEF Port
  <2>2. raw.cell = [p.cell EXCEPT ![c] = e]
    BY <1>1, <2>1 DEF Port
  <2>3. raw = [p EXCEPT !.cell = raw.cell] /\ idle = [p EXCEPT !.cell = [p.cell EXCEPT ![c] = e]]
    BY <1>1 DEF Port
  <2> QED BY <2>2, <2>3
<1> HIDE DEF raw
<1> HIDE DEF e
<1>4. Nearly(p, c)
  BY NearlyPort
<1>5. /\ Nearly(idle, c) /\ idle.heap = p.heap /\ idle.active = p.active
      /\ idle.cell[c] = e /\ \A b \in Cells \ {c} : idle.cell[b] = p.cell[b]
  BY <1>1, <1>2, <1>4, RewriteInv
<1>6. q = IF d.deleted \/ d.found = Closed THEN Delete(idle, c, FALSE, no)
          ELSE IF Reports(d) # {} /\ "ONESHOT" \in d.user THEN [next EXCEPT !.cell[c].user = {}]
          ELSE next
  BY <1>3, <1>a
<1> HIDE DEF q, idle, d
<1>7. CASE d.deleted \/ d.found = Closed
  <2>1. q = Delete(idle, c, FALSE, no)
    BY <1>6, <1>7
  <2>2. Freed(idle, c, q)
    BY <1>2, <1>5, <2>1, DeleteInv
  <2> QED BY <1>5, <2>2 DEF Freed, Gone, Fed, Blank, q
<1>8. CASE ~(d.deleted \/ d.found = Closed)
  <2>1. /\ PortInv(next) /\ c \in ToSet(next.update) /\ next.heap = p.heap
        /\ next.cell = idle.cell /\ next.active = idle.active
    BY <1>2, <1>5, <1>8, RequestNearly
  <2> HIDE DEF next
  <2>2. CASE ~(Reports(d) # {} /\ "ONESHOT" \in d.user)
    <3>1. q = next
      BY <1>6, <1>8, <2>2
    <3> QED BY <1>2, <1>5, <2>1, <3>1 DEF Fed, q
  <2>3. CASE Reports(d) # {} /\ "ONESHOT" \in d.user
    <3> DEFINE x == [e EXCEPT !.user = {}]
               r == [next EXCEPT !.cell[c] = x]
    <3>1. /\ x \in Cell /\ x.sock = e.sock /\ x.group = e.group /\ x.deleted = e.deleted
          /\ x.status = "IDLE" /\ x.pending = {} /\ x.iosb = "none"
      BY <1>2 DEF Cell
    <3>2. q = r
      BY <1>1, <1>5, <1>6, <1>8, <2>1, <2>3 DEF PortInv, Port
    <3> HIDE DEF x
    <3>3. Nearly(next, c)
      BY <2>1, NearlyPort
    <3>4. /\ Nearly(r, c) /\ r.heap = next.heap /\ r.update = next.update
          /\ r.active = next.active /\ r.cell[c] = x
          /\ \A b \in Cells \ {c} : r.cell[b] = next.cell[b]
      BY <1>1, <1>5, <2>1, <3>1, <3>3, RewriteInv
    <3> HIDE DEF r
    <3>5. PollOK(r, c)
      BY <1>2, <1>8, <2>1, <3>1, <3>4 DEF PollOK
    <3>6. PortInv(r)
      BY <3>4, <3>5, NearlyPort
    <3> QED BY <1>5, <2>1, <3>1, <3>2, <3>4, <3>6 DEF Fed, q
  <2> QED BY <2>2, <2>3
<1> QED BY <1>7, <1>8 DEF q

LEMMA KeepsTrans ==
  ASSUME NEW p, NEW q, NEW r, Idles(q), Keeps(p, q), Keeps(q, r)
  PROVE  Keeps(p, r)
BY DEF Idles, Keeps

(* What a port's groups do is nothing to its cells. *)
LEMMA SameCellsInv ==
  ASSUME NEW p, PortInv(p), NEW q \in Port, SameCells(p, q)
  PROVE  /\ Registry(q) /\ Idles(q) /\ Keeps(p, q)
         /\ \A b \in q.heap : PollOK(q, b)
<1>1. Registry(q)
  BY DEF PortInv, SameCells, Registry, Linked, Place
<1> QED BY <1>1 DEF PortInv, SameCells, Idles, Keeps, PollOK

(* sock_new() fails: the group is released. *)
LEMMA AddFailsInv ==
  ASSUME NEW p, PortInv(p)
  PROVE  LET r == Release(Acquire(p), Last(WithGroup(p).groups))
         IN PortInv(r) /\ Keeps(p, r)
<1> DEFINE q == Acquire(p)
           g == Last(WithGroup(p).groups)
           r == Release(q, g)
<1>1. p \in Port /\ Grouped(p) /\ Counts(p) /\ p.size \in [GroupIds -> Int]
  BY DEF PortInv, Port
<1>2. /\ q \in Port /\ Grouped(q) /\ SameCells(p, q)
      /\ g \in GroupIds /\ g \in ToSet(q.groups)
      /\ q.size = [p.size EXCEPT ![g] = @ + 1]
  BY <1>1, AcquireInv
<1> HIDE DEF q, g
<1>3. q.size[g] >= 1
  BY <1>1, <1>2, PortAssumption DEF Grouped
<1>4. /\ r \in Port /\ Grouped(r) /\ SameCells(q, r)
      /\ r.size = [q.size EXCEPT ![g] = @ - 1]
  BY <1>2, <1>3, ReleaseInv
<1> HIDE DEF r
<1>5. SameCells(p, r)
  BY <1>2, <1>4 DEF SameCells
<1>6. \A h \in GroupIds : r.size[h] = p.size[h]
  BY <1>1, <1>2, <1>4
<1>7. Counts(r)
  BY <1>1, <1>5, <1>6 DEF Counts, Members, SameCells
<1>8. PortInv(r) /\ Keeps(p, r)
  BY <1>4, <1>5, <1>7, SameCellsInv DEF PortInv
<1> QED BY <1>8 DEF r, q, g

(* sock_new(), with its socket in the tree. *)
LEMMA AddInv ==
  ASSUME NEW p, PortInv(p), NEW s \in Sockets, p.tree[s] = NULL, NEW c \in Cells \ p.heap
  PROVE  LET q == Acquire(p)
             g == Last(WithGroup(p).groups)
             r == [q EXCEPT !.heap = @ \cup {c}, !.tree[s] = c,
                            !.cell[c] = [Blank EXCEPT !.sock = s, !.group = g]]
         IN Nearly(r, c) /\ Keeps(p, r) /\ c \in r.heap /\ ~r.cell[c].deleted
<1> DEFINE q == Acquire(p)
           g == Last(WithGroup(p).groups)
           d == [Blank EXCEPT !.sock = s, !.group = g]
           r == [q EXCEPT !.heap = @ \cup {c}, !.tree[s] = c, !.cell[c] = d]
<1>1. p \in Port /\ Grouped(p) /\ Counts(p) /\ p.size \in [GroupIds -> Int] /\ p.heap \subseteq Cells
  BY DEF PortInv, Port
<1>2. /\ q \in Port /\ Grouped(q) /\ SameCells(p, q)
      /\ g \in GroupIds /\ g \in ToSet(q.groups)
      /\ q.size = [p.size EXCEPT ![g] = @ + 1]
  BY <1>1, AcquireInv
<1> HIDE DEF q, g
<1>3. /\ d \in Cell /\ d.sock = s /\ d.group = g /\ ~d.deleted /\ d.status = "IDLE"
      /\ d.pending = {} /\ d.iosb = "none"
  <2>1. g \in Nat
    BY <1>2, CellsFinite DEF GroupIds
  <2>2. /\ Blank \in Cell /\ ~Blank.deleted /\ Blank.status = "IDLE"
        /\ Blank.pending = {} /\ Blank.iosb = "none"
    BY DEF Blank, Cell
  <2> QED BY <2>1, <2>2 DEF Cell
<1> HIDE DEF d
<1>4. /\ r \in Port /\ r.heap = p.heap \cup {c} /\ r.tree = [p.tree EXCEPT ![s] = c]
      /\ r.cell = [p.cell EXCEPT ![c] = d] /\ r.update = p.update /\ r.deleted = p.deleted
      /\ r.active = p.active /\ r.groups = q.groups /\ r.size = q.size
  <2>1. /\ [q.cell EXCEPT ![c] = d] \in [Cells -> Cell]
        /\ [q.tree EXCEPT ![s] = c] \in [Sockets -> Cells \cup {NULL}]
        /\ q.heap \cup {c} \in SUBSET Cells
    BY <1>2, <1>3 DEF Port
  <2> QED BY <1>2, <2>1 DEF Port, SameCells
<1> HIDE DEF r
<1>5. /\ r.cell[c] = d /\ \A b \in Cells \ {c} : r.cell[b] = p.cell[b]
      /\ r.tree[s] = c /\ \A t \in Sockets \ {s} : r.tree[t] = p.tree[t]
  BY <1>1, <1>4 DEF Port
<1>6. Registry(p) /\ Idles(p) /\ \A b \in p.heap : PollOK(p, b) /\ Place(p, b)
  BY DEF PortInv, Registry, Linked
<1>7. p.cell[c] = Blank /\ c \notin ToSet(p.deleted) /\ c \notin ToSet(p.update)
  BY <1>6 DEF Registry, Linked
<1>8. Registry(r)
  <2>1. Place(r, c)
    BY <1>3, <1>4, <1>5, <1>7 DEF Place
  <2>2. ASSUME NEW b \in p.heap PROVE Place(r, b)
    <3>1. b \in Cells \ {c} /\ Place(p, b) /\ b # NULL
      BY <1>1, <1>6, PortAssumption
    <3>2. ~p.cell[b].deleted => r.tree[p.cell[b].sock] = b
      BY <1>5, <3>1 DEF Place
    <3> QED BY <1>4, <1>5, <3>1, <3>2 DEF Place
  <2>3. \A t \in Sockets : r.tree[t] # NULL =>
          /\ r.tree[t] \in r.heap
          /\ ~r.cell[r.tree[t]].deleted /\ r.cell[r.tree[t]].sock = t
    BY <1>1, <1>3, <1>4, <1>5, <1>6 DEF Registry, Linked
  <2>4. \A b \in Cells \ r.heap : r.cell[b] = Blank
    BY <1>4, <1>5, <1>6 DEF Registry, Linked
  <2>5. ToSet(r.update) \subseteq r.heap /\ ToSet(r.deleted) \subseteq r.heap
    BY <1>4, <1>6 DEF Registry, Linked
  <2> QED BY <1>4, <1>6, <2>1, <2>2, <2>3, <2>4, <2>5 DEF Registry, Linked
<1>9. Idles(r)
  BY <1>3, <1>5, <1>6 DEF Idles
<1>10. \A b \in r.heap \ {c} : PollOK(r, b)
  BY <1>1, <1>4, <1>5, <1>6 DEF PollOK
<1>11. Grouped(r)
  <2>1. Full(r) = Full(q)
    BY <1>4 DEF Full
  <2>2. \A b \in r.heap : r.cell[b].group \in ToSet(r.groups)
    BY <1>1, <1>2, <1>3, <1>4, <1>5 DEF Grouped, SameCells
  <2> QED BY <1>2, <1>4, <2>1, <2>2 DEF Grouped
<1>12. Counts(r)
  <2> SUFFICES ASSUME NEW h \in GroupIds PROVE r.size[h] = Cardinality(Members(r, h))
    BY DEF Counts
  <2>1. Members(r, h) = IF h = g THEN Members(p, h) \cup {c} ELSE Members(p, h)
    BY <1>1, <1>3, <1>4, <1>5 DEF Members
  <2>2. c \notin Members(p, h)
    BY DEF Members
  <2>3. r.size[h] = IF h = g THEN p.size[h] + 1 ELSE p.size[h]
    BY <1>1, <1>2, <1>4
  <2>4. p.size[h] = Cardinality(Members(p, h)) /\ IsFiniteSet(Members(p, h))
    BY <1>1, CellsFinite DEF Counts
  <2>5. Cardinality(Members(p, h) \cup {c}) = Cardinality(Members(p, h)) + 1
    BY <2>2, <2>4, FS_AddElement
  <2> QED BY <2>1, <2>3, <2>4, <2>5
<1>13. Keeps(p, r)
  BY <1>3, <1>4, <1>5, <1>7 DEF Keeps, Blank
<1>14. Nearly(r, c) /\ c \in r.heap /\ ~r.cell[c].deleted
  BY <1>3, <1>4, <1>5, <1>8, <1>9, <1>10, <1>11, <1>12 DEF Nearly
<1> QED BY <1>13, <1>14 DEF r, q, d, g

(* port__ctl_add() *)
LEMMA AddedInv ==
  ASSUME NEW p, PortInv(p), NEW s \in Sockets, NEW events \in Interests[s]
  PROVE  PortInv(Added(p, s, events)) /\ Keeps(p, Added(p, s, events))
<1> DEFINE q == Acquire(p)
           g == Last(WithGroup(p).groups)
           c == CHOOSE cell \in Cells \ p.heap : TRUE
           r == [q EXCEPT !.heap = @ \cup {c}, !.tree[s] = c,
                          !.cell[c] = [Blank EXCEPT !.sock = s, !.group = g]]
           full == p.heap = Cells \/ p.tree[s] # NULL
<1>1. Added(p, s, events) = IF full THEN Release(q, g) ELSE SetEvent(r, c, events)
  BY DEF Added
<1>2. CASE full
  BY <1>1, <1>2, AddFailsInv
<1>3. CASE ~full
  <2>1. c \in Cells \ p.heap
    BY <1>3 DEF PortInv, Port
  <2> HIDE DEF c
  <2>2. Nearly(r, c) /\ Keeps(p, r) /\ c \in r.heap /\ ~r.cell[c].deleted
    BY <1>3, <2>1, AddInv
  <2>3. Added(p, s, events) = SetEvent(r, c, events)
    BY <1>1, <1>3
  <2>4. events \in SUBSET (Known \cup {"ONESHOT"})
    BY InterestAssumption
  <2> HIDE DEF r, full
  <2>5. PortInv(SetEvent(r, c, events)) /\ Keeps(r, SetEvent(r, c, events))
    BY <2>2, <2>4, SetEventInv
  <2>6. Keeps(p, SetEvent(r, c, events))
    BY <2>2, <2>5, KeepsTrans DEF Nearly
  <2> QED BY <2>3, <2>5, <2>6
<1> QED BY <1>2, <1>3

------------------------------------------------------------------------------
(* The loops of the port: what it is after each turn. *)

(* port__update_events() *)
LEMMA UpdateLoop ==
  ASSUME NEW p, p.update \in Seq(Cells), NEW no
  PROVE  \E f : /\ f[0] = p /\ f[Len(p.update)] = UpdateAll(p, no)
               /\ \A k \in 1..Len(p.update) :
                    f[k] = IF Head(f[k - 1].update) = p.update[k]
                           THEN SockUpdate(f[k - 1], p.update[k], no) ELSE f[k - 1]
<1> DEFINE N == Len(p.update)
           Turn(g, k) == IF k = 0 THEN p ELSE IF Head(g[k - 1].update) = p.update[k]
                                       THEN SockUpdate(g[k - 1], p.update[k], no) ELSE g[k - 1]
           UpTo(g, n) == g = [k \in 0..n |-> Turn(g, k)]
           f == CHOOSE g : UpTo(g, N)
<1>1. N \in Nat
  OBVIOUS
<1>2. UpdateAll(p, no) = f[N]
  BY DEF UpdateAll
<1> HIDE DEF N
<1>3. \E g : UpTo(g, N)
  <2> DEFINE S == {n \in Nat : \E g : UpTo(g, n)}
  <2>1. 0 \in S
    <3>1. UpTo([k \in 0..0 |-> p], 0)
      OBVIOUS
    <3> QED BY <3>1
  <2>2. ASSUME NEW n \in Nat, n \in S PROVE n + 1 \in S
    <3>1. PICK g : UpTo(g, n)
      BY <2>2
    <3> DEFINE h == [k \in 0..(n + 1) |-> IF k <= n THEN g[k] ELSE Turn(g, n + 1)]
    <3>2. \A k \in 0..(n + 1) : h[k] = Turn(h, k)
      <4> SUFFICES ASSUME NEW k \in 0..(n + 1) PROVE h[k] = Turn(h, k)
        OBVIOUS
      <4>1. k # 0 => k - 1 \in 0..n /\ h[k - 1] = g[k - 1]
        OBVIOUS
      <4>2. Turn(h, k) = Turn(g, k)
        <5> HIDE DEF h
        <5> QED BY <4>1
      <4>3. h[k] = Turn(g, k)
        <5>1. CASE k <= n
          <6>1. k \in 0..n /\ h[k] = g[k]
            BY <5>1
          <6> HIDE DEF h, Turn
          <6> QED BY <3>1, <6>1
        <5>2. CASE k = n + 1
          <6> HIDE DEF Turn
          <6> QED BY <5>2
        <5> HIDE DEF Turn, h
        <5> QED BY <5>1, <5>2
      <4> QED BY <4>2, <4>3
    <3>3. h = [k \in 0..(n + 1) |-> h[k]]
      OBVIOUS
    <3> HIDE DEF h, Turn
    <3>4. UpTo(h, n + 1)
      BY <3>2, <3>3
    <3> HIDE DEF UpTo
    <3> QED BY <3>4
  <2> HIDE DEF S
  <2>3. Nat \subseteq S
    BY <2>1, <2>2, NatSetInduction
  <2> QED BY <1>1, <2>3 DEF S
<1>4. UpTo(f, N)
  <2> HIDE DEF UpTo
  <2> QED BY <1>3
<1> HIDE DEF f
<1>5. \A k \in 0..N : f[k] = Turn(f, k)
  <2> HIDE DEF Turn
  <2> QED BY <1>4
<1>6. f[0] = p
  <2>1. Turn(f, 0) = p
    BY Zenon
  <2> HIDE DEF Turn
  <2> QED BY <1>1, <1>5, <2>1
<1>7. \A k \in 1..N : f[k] = Turn(f, k) /\ k # 0
  <2> HIDE DEF Turn
  <2> QED BY <1>1, <1>5
<1> QED BY <1>2, <1>6, <1>7 DEF N

(* port__feed_events() *)
LEMMA FeedLoop ==
  ASSUME NEW p, NEW cells \in Seq(Cells), NEW no
  PROVE  \E f : /\ f[0] = p /\ f[Len(cells)] = FeedAll(p, cells, no)
               /\ \A k \in 1..Len(cells) :
                    f[k] = Feed(f[k - 1], cells[k], no)
<1> DEFINE N == Len(cells)
           Turn(g, k) == IF k = 0 THEN p ELSE Feed(g[k - 1], cells[k], no)
           UpTo(g, n) == g = [k \in 0..n |-> Turn(g, k)]
           f == CHOOSE g : UpTo(g, N)
<1>1. N \in Nat
  OBVIOUS
<1>2. FeedAll(p, cells, no) = f[N]
  BY DEF FeedAll
<1> HIDE DEF N
<1>3. \E g : UpTo(g, N)
  <2> DEFINE S == {n \in Nat : \E g : UpTo(g, n)}
  <2>1. 0 \in S
    <3>1. UpTo([k \in 0..0 |-> p], 0)
      OBVIOUS
    <3> QED BY <3>1
  <2>2. ASSUME NEW n \in Nat, n \in S PROVE n + 1 \in S
    <3>1. PICK g : UpTo(g, n)
      BY <2>2
    <3> DEFINE h == [k \in 0..(n + 1) |-> IF k <= n THEN g[k] ELSE Turn(g, n + 1)]
    <3>2. \A k \in 0..(n + 1) : h[k] = Turn(h, k)
      <4> SUFFICES ASSUME NEW k \in 0..(n + 1) PROVE h[k] = Turn(h, k)
        OBVIOUS
      <4>1. k # 0 => k - 1 \in 0..n /\ h[k - 1] = g[k - 1]
        OBVIOUS
      <4>2. Turn(h, k) = Turn(g, k)
        <5> HIDE DEF h
        <5> QED BY <4>1
      <4>3. h[k] = Turn(g, k)
        <5>1. CASE k <= n
          <6>1. k \in 0..n /\ h[k] = g[k]
            BY <5>1
          <6> HIDE DEF h, Turn
          <6> QED BY <3>1, <6>1
        <5>2. CASE k = n + 1
          <6> HIDE DEF Turn
          <6> QED BY <5>2
        <5> HIDE DEF Turn, h
        <5> QED BY <5>1, <5>2
      <4> QED BY <4>2, <4>3
    <3>3. h = [k \in 0..(n + 1) |-> h[k]]
      OBVIOUS
    <3> HIDE DEF h, Turn
    <3>4. UpTo(h, n + 1)
      BY <3>2, <3>3
    <3> HIDE DEF UpTo
    <3> QED BY <3>4
  <2> HIDE DEF S
  <2>3. Nat \subseteq S
    BY <2>1, <2>2, NatSetInduction
  <2> QED BY <1>1, <2>3 DEF S
<1>4. UpTo(f, N)
  <2> HIDE DEF UpTo
  <2> QED BY <1>3
<1> HIDE DEF f
<1>5. \A k \in 0..N : f[k] = Turn(f, k)
  <2> HIDE DEF Turn
  <2> QED BY <1>4
<1>6. f[0] = p
  <2>1. Turn(f, 0) = p
    BY Zenon
  <2> HIDE DEF Turn
  <2> QED BY <1>1, <1>5, <2>1
<1>7. \A k \in 1..N : f[k] = Turn(f, k) /\ k # 0
  <2> HIDE DEF Turn
  <2> QED BY <1>1, <1>5
<1> QED BY <1>2, <1>6, <1>7 DEF N

(* The ports f that a loop of port_delete() goes through. *)
Deletes(f, p, cells) ==
  /\ f[0] = p /\ f[Len(cells)] = DeleteAll(p, cells)
  /\ \A k \in 1..Len(cells) : f[k] = Delete(f[k - 1], cells[k], TRUE, {})

LEMMA DeleteLoop ==
  ASSUME NEW p, NEW cells \in Seq(Cells)
  PROVE  \E f : Deletes(f, p, cells)
<1> DEFINE N == Len(cells)
           Turn(g, k) == IF k = 0 THEN p ELSE Delete(g[k - 1], cells[k], TRUE, {})
           UpTo(g, n) == g = [k \in 0..n |-> Turn(g, k)]
           f == CHOOSE g : UpTo(g, N)
<1>1. N \in Nat
  OBVIOUS
<1>2. DeleteAll(p, cells) = f[N]
  BY DEF DeleteAll
<1> HIDE DEF N
<1>3. \E g : UpTo(g, N)
  <2> DEFINE S == {n \in Nat : \E g : UpTo(g, n)}
  <2>1. 0 \in S
    <3>1. UpTo([k \in 0..0 |-> p], 0)
      OBVIOUS
    <3> QED BY <3>1
  <2>2. ASSUME NEW n \in Nat, n \in S PROVE n + 1 \in S
    <3>1. PICK g : UpTo(g, n)
      BY <2>2
    <3> DEFINE h == [k \in 0..(n + 1) |-> IF k <= n THEN g[k] ELSE Turn(g, n + 1)]
    <3>2. \A k \in 0..(n + 1) : h[k] = Turn(h, k)
      <4> SUFFICES ASSUME NEW k \in 0..(n + 1) PROVE h[k] = Turn(h, k)
        OBVIOUS
      <4>1. k # 0 => k - 1 \in 0..n /\ h[k - 1] = g[k - 1]
        OBVIOUS
      <4>2. Turn(h, k) = Turn(g, k)
        <5> HIDE DEF h
        <5> QED BY <4>1
      <4>3. h[k] = Turn(g, k)
        <5>1. CASE k <= n
          <6>1. k \in 0..n /\ h[k] = g[k]
            BY <5>1
          <6> HIDE DEF h, Turn
          <6> QED BY <3>1, <6>1
        <5>2. CASE k = n + 1
          <6> HIDE DEF Turn
          <6> QED BY <5>2
        <5> HIDE DEF Turn, h
        <5> QED BY <5>1, <5>2
      <4> QED BY <4>2, <4>3
    <3>3. h = [k \in 0..(n + 1) |-> h[k]]
      OBVIOUS
    <3> HIDE DEF h, Turn
    <3>4. UpTo(h, n + 1)
      BY <3>2, <3>3
    <3> HIDE DEF UpTo
    <3> QED BY <3>4
  <2> HIDE DEF S
  <2>3. Nat \subseteq S
    BY <2>1, <2>2, NatSetInduction
  <2> QED BY <1>1, <2>3 DEF S
<1>4. UpTo(f, N)
  <2> HIDE DEF UpTo
  <2> QED BY <1>3
<1> HIDE DEF f
<1>5. \A k \in 0..N : f[k] = Turn(f, k)
  <2> HIDE DEF Turn
  <2> QED BY <1>4
<1>6. f[0] = p
  <2>1. Turn(f, 0) = p
    BY Zenon
  <2> HIDE DEF Turn
  <2> QED BY <1>1, <1>5, <2>1
<1>7. \A k \in 1..N : f[k] = Turn(f, k) /\ k # 0
  <2> HIDE DEF Turn
  <2> QED BY <1>1, <1>5
<1>8. Deletes(f, p, cells)
  BY <1>2, <1>6, <1>7, Zenon DEF N, Deletes
<1> QED BY <1>8

LEMMA BusyInHeap ==
  ASSUME NEW p, PortInv(p), NEW c \in Cells, p.cell[c].status # "IDLE"
  PROVE  c \in p.heap
BY DEF PortInv, Registry, Linked, Blank

(* port__update_events() keeps what must hold of the port; and when the       *)
(* kernel refuses nothing, no update is left.                                 *)
LEMMA UpdateAllInv ==
  ASSUME NEW p, PortInv(p), NEW no
  PROVE  LET q == UpdateAll(p, no)
         IN /\ PortInv(q) /\ Keeps(p, q)
            /\ no = {} => q.update = <<>>
<1> DEFINE u == p.update
           N == Len(u)
           q == UpdateAll(p, no)
<1>1. u \in Seq(Cells) /\ IsInjective(u) /\ N \in Nat /\ DOMAIN u = 1..N
  BY DEF PortInv, Port, Registry, Linked
<1>2. PICK f : /\ f[0] = p /\ f[N] = q
               /\ \A k \in 1..N : f[k] = IF Head(f[k - 1].update) = u[k]
                                         THEN SockUpdate(f[k - 1], u[k], no) ELSE f[k - 1]
  BY <1>1, UpdateLoop
<1> HIDE DEF N, q, u
<1> DEFINE Claim(k) == /\ PortInv(f[k]) /\ Keeps(p, f[k])
                       /\ \A j \in (k + 1)..N : u[j] \in ToSet(f[k].update)
                       /\ no = {} => f[k].update = SubSeq(u, k + 1, N)
           S == {k \in Nat : k <= N => Claim(k)}
<1>3. 0 \in S
  <2>1. Keeps(p, p)
    BY DEF Keeps
  <2>2. \A j \in 1..N : u[j] \in ToSet(p.update)
    BY <1>1 DEF ToSet, u
  <2>3. p.update = SubSeq(u, 1, N)
    BY <1>1 DEF u, N
  <2>4. 0 + 1 = 1
    OBVIOUS
  <2>5. Claim(0)
    BY <1>2, <2>1, <2>2, <2>3, <2>4
  <2> HIDE DEF Claim
  <2> QED BY <2>5
<1>4. ASSUME NEW k \in Nat, k \in S PROVE k + 1 \in S
  <2> SUFFICES ASSUME k + 1 <= N PROVE Claim(k + 1)
    OBVIOUS
  <2> DEFINE r == f[k]
             c == u[k + 1]
             t == f[k + 1]
  <2>1. /\ PortInv(r) /\ Keeps(p, r) /\ \A j \in (k + 1)..N : u[j] \in ToSet(r.update)
        /\ no = {} => r.update = SubSeq(u, k + 1, N)
    BY <1>1, <1>4
  <2>2. c \in ToSet(r.update) /\ k + 1 \in 1..N /\ (k + 1) - 1 = k
    BY <1>1, <2>1
  <2>3. t = IF Head(r.update) = c THEN SockUpdate(r, c, no) ELSE r
    BY <1>2, <2>2
  <2> HIDE DEF r, c, t
  <2>4. \A j \in (k + 2)..N : u[j] # c /\ j \in (k + 1)..N
    BY <1>1, <2>2 DEF IsInjective, c
  <2>5. CASE Head(r.update) = c
    <3>1. /\ PortInv(t) /\ Keeps(r, t) /\ ToSet(r.update) \ {c} \subseteq ToSet(t.update)
          /\ no = {} => t.update = Unlink(r.update, c)
      BY <2>1, <2>2, <2>3, <2>5, SockUpdateInv
    <3>2. Keeps(p, t)
      BY <2>1, <3>1, KeepsTrans DEF PortInv
    <3>3. \A j \in (k + 2)..N : u[j] \in ToSet(t.update)
      BY <2>1, <2>4, <3>1
    <3>4. ASSUME no = {} PROVE t.update = SubSeq(u, k + 2, N)
      <4>1. r.update \in Seq(Cells) /\ IsInjective(r.update) /\ r.update # <<>>
        BY <2>1, <2>2 DEF PortInv, Port, Registry, Linked, ToSet
      <4>2. t.update = Tail(r.update)
        BY <2>5, <3>1, <3>4, <4>1, UnlinkHead
      <4>3. Tail(SubSeq(u, k + 1, N)) = SubSeq(u, k + 2, N)
        BY <1>1, <2>2
      <4> QED BY <2>1, <3>4, <4>2, <4>3
    <3>5. k + 1 + 1 = k + 2
      OBVIOUS
    <3> QED BY <3>1, <3>2, <3>3, <3>4, <3>5 DEF t
  <2>6. CASE Head(r.update) # c
    <3>1. t = r
      BY <2>3, <2>6
    <3>2. no # {}
      <4> SUFFICES ASSUME no = {} PROVE FALSE
        OBVIOUS
      <4>1. r.update = SubSeq(u, k + 1, N)
        BY <2>1
      <4>2. Head(SubSeq(u, k + 1, N)) = u[k + 1]
        BY <1>1, <2>2
      <4> QED BY <2>6, <4>1, <4>2 DEF c
    <3>3. \A j \in (k + 2)..N : u[j] \in ToSet(t.update)
      BY <2>1, <2>4, <3>1
    <3>4. k + 1 + 1 = k + 2
      OBVIOUS
    <3> QED BY <2>1, <3>1, <3>2, <3>3, <3>4 DEF t
  <2> QED BY <2>5, <2>6
<1>5. N \in S
  <2> HIDE DEF S
  <2> QED BY <1>1, <1>3, <1>4, NatSetInduction
<1>6. Claim(N)
  BY <1>1, <1>5
<1>7. SubSeq(u, N + 1, N) = <<>>
  BY <1>1
<1> QED BY <1>2, <1>6, <1>7 DEF q

(* port__feed_events(), of packets that were owed: their cells are idle, and  *)
(* others are as they were.                                                   *)
LEMMA FeedAllInv ==
  ASSUME NEW p, PortInv(p), NEW cells \in Seq(Cells), IsInjective(cells),
         \A c \in ToSet(cells) : p.cell[c].status # "IDLE", NEW no
  PROVE  LET q == FeedAll(p, cells, no)
         IN /\ PortInv(q) /\ q.active = p.active
            /\ \A c \in ToSet(cells) : q.cell[c].status = "IDLE"
            /\ \A c \in Cells \ ToSet(cells) : q.cell[c] = p.cell[c]
<1> DEFINE N == Len(cells)
           q == FeedAll(p, cells, no)
<1>1. N \in Nat /\ DOMAIN cells = 1..N /\ \A k \in 1..N : cells[k] \in Cells
  OBVIOUS
<1>2. PICK f : /\ f[0] = p /\ f[N] = q
               /\ \A k \in 1..N : f[k] = Feed(f[k - 1], cells[k], no)
  BY FeedLoop
<1> HIDE DEF N, q
<1> DEFINE Done(k) == {cells[j] : j \in 1..k}
           Claim(k) == /\ PortInv(f[k]) /\ f[k].active = p.active
                       /\ \A c \in Done(k) : f[k].cell[c].status = "IDLE"
                       /\ \A c \in Cells \ Done(k) : f[k].cell[c] = p.cell[c]
           S == {k \in Nat : k <= N => Claim(k)}
<1>3. 0 \in S
  BY <1>2
<1>4. ASSUME NEW k \in Nat, k \in S PROVE k + 1 \in S
  <2> SUFFICES ASSUME k + 1 <= N PROVE Claim(k + 1)
    OBVIOUS
  <2> DEFINE r == f[k]
             c == cells[k + 1]
             t == f[k + 1]
  <2>1. Claim(k)
    BY <1>1, <1>4
  <2>2. k + 1 \in 1..N /\ (k + 1) - 1 = k /\ c \in Cells
    BY <1>1
  <2>3. t = Feed(r, c, no)
    BY <1>2, <2>2
  <2>4. c \notin Done(k)
    BY <1>1, <2>2 DEF IsInjective
  <2>5. Done(k + 1) = Done(k) \cup {c} /\ Done(k) \subseteq Cells
    <3>1. 1..(k + 1) = (1..k) \cup {k + 1}
      OBVIOUS
    <3> QED BY <1>1, <2>2, <3>1
  <2>6. c \in ToSet(cells)
    BY <1>1, <2>2 DEF ToSet
  <2> HIDE DEF r, c, t, Done
  <2>7. r.cell[c].status # "IDLE"
    BY <2>1, <2>2, <2>4, <2>6 DEF r
  <2>8. c \in r.heap
    BY <2>1, <2>2, <2>7, BusyInHeap DEF r
  <2>9. Fed(r, c, t)
    BY <2>1, <2>3, <2>7, <2>8, FeedInv DEF r
  <2>10. PortInv(t) /\ t.active = p.active
    BY <2>1, <2>9 DEF Fed, r
  <2>11. \A b \in Done(k + 1) : t.cell[b].status = "IDLE"
    BY <2>1, <2>5, <2>9 DEF Fed, r
  <2>12. \A b \in Cells \ Done(k + 1) : t.cell[b] = p.cell[b]
    BY <2>1, <2>5, <2>9 DEF Fed, r
  <2> QED BY <2>10, <2>11, <2>12 DEF t
<1>5. N \in S
  <2> HIDE DEF S
  <2> QED BY <1>1, <1>3, <1>4, NatSetInduction
<1>6. Claim(N)
  BY <1>1, <1>5
<1>7. Done(N) = ToSet(cells)
  BY <1>1 DEF ToSet
<1> HIDE DEF Done
<1> QED BY <1>2, <1>6, <1>7 DEF q

(* A loop of port_delete() frees the cells it takes. *)
LEMMA DeleteAllInv ==
  ASSUME NEW p, PortInv(p), NEW cells \in Seq(Cells), IsInjective(cells),
         ToSet(cells) \subseteq p.heap
  PROVE  LET q == DeleteAll(p, cells)
         IN /\ PortInv(q) /\ q.heap = p.heap \ ToSet(cells)
            /\ ToSet(q.deleted) = ToSet(p.deleted) \ ToSet(cells)
<1> DEFINE N == Len(cells)
           q == DeleteAll(p, cells)
<1>1. N \in Nat /\ DOMAIN cells = 1..N /\ \A k \in 1..N : cells[k] \in Cells
  OBVIOUS
<1>a. PICK f : Deletes(f, p, cells)
  BY DeleteLoop
<1>2. /\ f[0] = p /\ f[N] = q
      /\ \A k \in 1..N : f[k] = Delete(f[k - 1], cells[k], TRUE, {})
  BY <1>a, Zenon DEF Deletes
<1> HIDE DEF N, q
<1> DEFINE Done(k) == {cells[j] : j \in 1..k}
           Claim(k) == /\ PortInv(f[k]) /\ f[k].heap = p.heap \ Done(k)
                       /\ ToSet(f[k].deleted) = ToSet(p.deleted) \ Done(k)
           S == {k \in Nat : k <= N => Claim(k)}
<1>3. 0 \in S
  <2>1. Done(0) = {}
    OBVIOUS
  <2>2. Claim(0)
    <3> HIDE DEF Done
    <3> QED BY <1>2, <2>1, Zenon
  <2> HIDE DEF Claim
  <2> QED BY <2>2
<1>4. ASSUME NEW k \in Nat, k \in S PROVE k + 1 \in S
  <2> SUFFICES ASSUME k + 1 <= N PROVE Claim(k + 1)
    OBVIOUS
  <2> DEFINE r == f[k]
             c == cells[k + 1]
             t == f[k + 1]
  <2>1. Claim(k)
    BY <1>1, <1>4
  <2>2. k + 1 \in 1..N /\ (k + 1) - 1 = k /\ c \in ToSet(cells)
    BY <1>1 DEF ToSet
  <2>3. t = Delete(r, c, TRUE, {})
    <3>1. f[k + 1] = Delete(f[(k + 1) - 1], cells[k + 1], TRUE, {})
      BY <1>2, <2>2, Zenon
    <3> QED BY <2>2, <3>1, Zenon
  <2>4. c \notin Done(k)
    BY <1>1, <2>2 DEF IsInjective
  <2>5. Done(k + 1) = Done(k) \cup {c}
    <3>1. 1..(k + 1) = (1..k) \cup {k + 1}
      OBVIOUS
    <3> QED BY <1>1, <2>2, <3>1
  <2> HIDE DEF r, c, t, Done
  <2>6. c \in r.heap /\ PortInv(r)
    BY <2>1, <2>2, <2>4 DEF r
  <2>7. Freed(r, c, t)
    <3>1. Freed(r, c, Delete(r, c, TRUE, {}))
      BY <2>6, ForceDeleteInv
    <3> QED BY <2>3, <3>1, Zenon
  <2>8. PortInv(t) /\ t.heap = p.heap \ Done(k + 1)
        /\ ToSet(t.deleted) = ToSet(p.deleted) \ Done(k + 1)
    BY <2>1, <2>5, <2>7 DEF Freed, Gone, r
  <2> QED BY <2>8 DEF t
<1>5. N \in S
  <2> HIDE DEF S
  <2> QED BY <1>1, <1>3, <1>4, NatSetInduction
<1>6. Claim(N)
  BY <1>1, <1>5
<1>7. Done(N) = ToSet(cells)
  BY <1>1 DEF ToSet
<1> HIDE DEF Done
<1> QED BY <1>2, <1>6, <1>7 DEF q

(* A finite set as a sequence. *)
LEMMA SetToSeqFacts ==
  ASSUME NEW T, IsFiniteSet(T)
  PROVE  SetToSeq(T) \in Seq(T) /\ IsInjective(SetToSeq(T)) /\ ToSet(SetToSeq(T)) = T
<1> DEFINE n == Cardinality(T)
           s == SetToSeq(T)
<1>1. n \in Nat /\ ExistsBijection(1..n, T)
  BY FS_CardinalityType
<1>2. \E f \in [1..n -> T] : IsInjective(f)
  BY <1>1 DEF ExistsBijection, Bijection, Injection, IsInjective
<1>3. s \in [1..n -> T] /\ IsInjective(s)
  BY <1>2 DEF SetToSeq
<1> HIDE DEF s, n
<1>4. s \in Injection(1..n, T) /\ Cardinality(1..n) = n
  BY <1>1, <1>3, FS_Interval DEF Injection, IsInjective
<1>5. s \in Surjection(1..n, T)
  BY <1>4, FS_Injection DEF n
<1>6. s \in Seq(T) /\ DOMAIN s = 1..n
  BY <1>1, <1>3
<1>7. ToSet(s) = T
  BY <1>3, <1>5, <1>6 DEF ToSet, Surjection
<1> QED BY <1>3, <1>6, <1>7 DEF s

(* port_delete() frees every socket, leaves none to be updated and no group   *)
(* with a socket.                                                             *)
LEMMA EmptiedInv ==
  ASSUME NEW p, PortInv(p)
  PROVE  LET q == Emptied(p)
         IN q.heap = {} /\ q.update = <<>> /\ \A g \in DOMAIN q.size : q.size[g] = 0
<1> DEFINE cells == SetToSeq(InTree(p))
           rest == DeleteAll(p, cells)
           q == Emptied(p)
<1>1. /\ p \in Port /\ Registry(p) /\ InTree(p) \subseteq p.heap
      /\ \A c \in p.heap : c \in InTree(p) \/ c \in ToSet(p.deleted)
      /\ \A c \in InTree(p) : c \notin ToSet(p.deleted)
      /\ ToSet(p.deleted) \subseteq p.heap /\ p.heap \subseteq Cells
  <2>1. p \in Port /\ Registry(p) /\ p.heap \subseteq Cells /\ ToSet(p.deleted) \subseteq p.heap
    BY DEF PortInv, Port, Registry, Linked
  <2>2. \A c \in InTree(p) : c \in p.heap /\ ~p.cell[c].deleted
    BY <2>1 DEF InTree, Registry, Linked
  <2>3. \A c \in p.heap : c \in InTree(p) \/ c \in ToSet(p.deleted)
    <3> SUFFICES ASSUME NEW c \in p.heap, c \notin ToSet(p.deleted) PROVE c \in InTree(p)
      OBVIOUS
    <3>1. p.cell[c].sock \in Sockets /\ p.tree[p.cell[c].sock] = c
      BY <2>1 DEF Registry, Linked, Place
    <3> QED BY <2>1, <3>1, PortAssumption DEF InTree
  <2> QED BY <2>1, <2>2, <2>3 DEF Registry, Linked, Place
<1>2. IsFiniteSet(InTree(p))
  BY <1>1, CellsFinite, FS_Subset
<1>3. cells \in Seq(Cells) /\ IsInjective(cells) /\ ToSet(cells) = InTree(p)
  <2>1. cells \in Seq(InTree(p)) /\ IsInjective(cells) /\ ToSet(cells) = InTree(p)
    BY <1>2, SetToSeqFacts
  <2>2. InTree(p) \subseteq Cells
    BY <1>1
  <2> HIDE DEF cells
  <2> QED BY <2>1, <2>2
<1> HIDE DEF cells
<1>4. /\ PortInv(rest) /\ rest.heap = p.heap \ InTree(p)
      /\ ToSet(rest.deleted) = ToSet(p.deleted) \ InTree(p)
  BY <1>1, <1>3, DeleteAllInv
<1>5. q = DeleteAll(rest, rest.deleted)
  BY DEF Emptied, cells
<1> HIDE DEF rest, q
<1>6. rest.deleted \in Seq(Cells) /\ IsInjective(rest.deleted) /\ ToSet(rest.deleted) = rest.heap
  <2>1. rest.deleted \in Seq(Cells) /\ IsInjective(rest.deleted)
    BY <1>4 DEF PortInv, Port, Registry, Linked
  <2> QED BY <1>1, <1>4, <2>1
<1>7. PortInv(q) /\ q.heap = {}
  BY <1>4, <1>5, <1>6, DeleteAllInv
<1>8. q.update = <<>>
  <2>1. q.update \in Seq(Cells) /\ ToSet(q.update) = {}
    BY <1>7 DEF PortInv, Port, Registry, Linked
  <2> DEFINE u == q.update
  <2>2. u \in Seq(Cells) /\ ToSet(u) = {}
    BY <2>1
  <2> HIDE DEF u
  <2>3. Len(u) \in Nat /\ DOMAIN u = 1..Len(u) /\ (Len(u) = 0 => u = <<>>)
    BY <2>2
  <2>4. 1 \notin DOMAIN u
    BY <2>2 DEF ToSet
  <2>5. u = <<>>
    BY <2>3, <2>4
  <2> QED BY <2>5 DEF u
<1>9. \A g \in DOMAIN q.size : q.size[g] = 0
  <2>1. \A g : Members(q, g) = {}
    BY <1>7 DEF Members
  <2> QED BY <1>7, <2>1, FS_EmptySet DEF PortInv, Port, Counts
<1> QED BY <1>7, <1>8, <1>9 DEF q

------------------------------------------------------------------------------
(* What the kernel does to a port, and what an empty one is. *)

LEMMA NewPortInv == PortInv(NewPort) /\ NewPort.heap = {} /\ NewPort.active = 0
<1>1. NewPort \in Port
  BY CellsFinite DEF NewPort, Port, GroupIds, Cell, Blank
<1>2. Registry(NewPort)
  BY PortAssumption DEF NewPort, Registry, Linked, IsInjective, ToSet
<1>3. Idles(NewPort)
  BY DEF NewPort, Idles, Blank
<1>4. \A g : Members(NewPort, g) = {}
  BY DEF Members, NewPort
<1>5. Counts(NewPort)
  BY <1>4, FS_EmptySet DEF Counts, NewPort, GroupIds
<1>6. Grouped(NewPort)
  BY CellsFinite, PortAssumption DEF Grouped, NewPort, First, IsInjective, ToSet, GroupIds
<1> QED BY <1>1, <1>2, <1>3, <1>5, <1>6 DEF PortInv, NewPort

(* A poll that ends, or a change of the count of waiting threads, touches     *)
(* nothing that must hold of a port: only the status of polls that were       *)
(* submitted, and what they found.                                            *)
SamePoll(d, e) ==
  /\ e.sock = d.sock /\ e.group = d.group /\ e.user = d.user /\ e.pending = d.pending
  /\ e.status = d.status /\ e.deleted = d.deleted

LEMMA PollEndsInv ==
  ASSUME NEW p, PortInv(p), NEW q \in Port,
         q.heap = p.heap, q.tree = p.tree, q.update = p.update, q.deleted = p.deleted,
         q.groups = p.groups, q.size = p.size,
         \A c \in Cells : /\ SamePoll(p.cell[c], q.cell[c])
                          /\ p.cell[c].status = "IDLE" => q.cell[c] = p.cell[c]
  PROVE  PortInv(q)
<1>1. p \in Port /\ p.heap \subseteq Cells
  BY DEF PortInv, Port
<1>2. \A c \in Cells \ p.heap : q.cell[c] = p.cell[c]
  BY DEF PortInv, Registry, Linked, Blank
<1>3. Registry(q)
  BY <1>1, <1>2, SameRegistry DEF PortInv, SamePoll
<1>4. Grouped(q) /\ Counts(q)
  BY <1>1, SameGroupsInv DEF PortInv, SameGroups, SamePoll
<1>5. Idles(q)
  BY DEF PortInv, Idles, SamePoll
<1>6. \A c \in q.heap : PollOK(q, c)
  BY <1>1 DEF PortInv, PollOK, SamePoll, Wanted
<1> QED BY <1>3, <1>4, <1>5, <1>6 DEF PortInv

LEMMA ActiveInv ==
  ASSUME NEW p, PortInv(p), NEW n \in Int
  PROVE  LET q == [p EXCEPT !.active = n]
         IN PortInv(q) /\ q.active = n /\ q.cell = p.cell /\ q.update = p.update
<1> DEFINE q == [p EXCEPT !.active = n]
<1>1. p \in Port
  BY DEF PortInv
<1>2. /\ q \in Port /\ q.heap = p.heap /\ q.cell = p.cell /\ q.tree = p.tree
      /\ q.update = p.update /\ q.deleted = p.deleted /\ q.groups = p.groups
      /\ q.size = p.size /\ q.active = n
  BY <1>1 DEF Port
<1> HIDE DEF q
<1>3. PortInv(q)
  BY <1>2, PollEndsInv DEF SamePoll
<1> QED BY <1>2, <1>3 DEF q

(* The polls of the cells in `ended', which were pending, end. *)
Ended(p, ended, status, found) ==
  [p EXCEPT !.cell = [c \in Cells |->
     IF c \in ended THEN [p.cell[c] EXCEPT !.iosb = status, !.found = found]
     ELSE p.cell[c]]]

EndsOnly(p, ended, status, q) ==
  /\ PortInv(q) /\ q.heap = p.heap /\ q.active = p.active /\ q.update = p.update
  /\ \A c \in ended : p.cell[c].status # "IDLE" /\ q.cell[c].iosb = status
  /\ \A c \in Cells : q.cell[c].status = p.cell[c].status
  /\ \A c \in Cells \ ended : q.cell[c] = p.cell[c]

LEMMA EndsInv ==
  ASSUME NEW p, PortInv(p), NEW ended \in SUBSET Cells,
         \A c \in ended : p.cell[c].iosb = "pending",
         NEW status \in {"success", "cancelled", "failed"}, NEW found \in SUBSET AfdOf(Known)
  PROVE  EndsOnly(p, ended, status, Ended(p, ended, status, found))
<1> DEFINE to(c) == [p.cell[c] EXCEPT !.iosb = status, !.found = found]
           after == [c \in Cells |-> IF c \in ended THEN to(c) ELSE p.cell[c]]
           q == [p EXCEPT !.cell = after]
<1>1. p \in Port /\ Idles(p)
  BY DEF PortInv
<1>2. \A c \in Cells : p.cell[c] \in Cell
  BY <1>1 DEF Port
<1>3. \A c \in Cells : to(c) \in Cell /\ SamePoll(p.cell[c], to(c)) /\ to(c).iosb = status
  <2> SUFFICES ASSUME NEW c \in Cells
               PROVE  to(c) \in Cell /\ SamePoll(p.cell[c], to(c)) /\ to(c).iosb = status
    OBVIOUS
  <2> DEFINE d == p.cell[c]
             e == [d EXCEPT !.iosb = status, !.found = found]
  <2>1. d \in Cell
    BY <1>2
  <2> HIDE DEF d
  <2>2. e \in Cell
    BY <2>1 DEF Cell
  <2>3. SamePoll(d, e) /\ e.iosb = status
    BY <2>1 DEF Cell, SamePoll
  <2> QED BY <2>2, <2>3 DEF d
<1>4. \A c \in ended : p.cell[c].status # "IDLE"
  BY <1>1 DEF Idles
<1>5. \A d : SamePoll(d, d)
  BY DEF SamePoll
<1> HIDE DEF to
<1>6. after \in [Cells -> Cell]
  BY <1>2, <1>3
<1>7. \A c \in Cells : /\ SamePoll(p.cell[c], after[c])
                       /\ p.cell[c].status = "IDLE" => after[c] = p.cell[c]
                       /\ c \in ended => after[c].iosb = status
                       /\ c \notin ended => after[c] = p.cell[c]
  BY <1>3, <1>4, <1>5
<1> HIDE DEF after
<1>8. /\ q \in Port /\ q.heap = p.heap /\ q.cell = after /\ q.tree = p.tree
      /\ q.update = p.update /\ q.deleted = p.deleted /\ q.groups = p.groups
      /\ q.size = p.size /\ q.active = p.active
  BY <1>1, <1>6 DEF Port
<1> HIDE DEF q
<1>9. PortInv(q)
  BY <1>7, <1>8, PollEndsInv
<1>10. \A c \in Cells : q.cell[c].status = p.cell[c].status
  BY <1>7, <1>8 DEF SamePoll
<1>11. \A c \in ended : p.cell[c].status # "IDLE" /\ q.cell[c].iosb = status
  BY <1>4, <1>7, <1>8
<1>12. EndsOnly(p, ended, status, q)
  BY <1>7, <1>8, <1>9, <1>10, <1>11 DEF EndsOnly
<1>13. q = Ended(p, ended, status, found)
  BY DEF q, after, to, Ended
<1> QED BY <1>12, <1>13
==============================================================================
