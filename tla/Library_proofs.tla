--------------------------- MODULE Library_proofs ----------------------------
(***************************************************************************)
(* Three of the parts that a caller uses on its own: the linked lists of   *)
(* the pool implement the set of free slots, for every number of slots and *)
(* every order in which connections are closed; the hash compresses the    *)
(* padded message, for every size of blocks and every way to cut it; and   *)
(* the random bytes are the key stream in its order, for every size of     *)
(* blocks and of words and whenever it is stirred.                         *)
(***************************************************************************)
EXTENDS ConnPool, Sha512, Rand, Induction, FiniteSetTheorems, SequenceTheorems

-------------------------------------------------------------------------------
(* Numbers and sequences. *)

(* One way to divide. *)
LEMMA Quotient ==
  ASSUME NEW b \in Nat \ {0}, NEW p \in Nat, NEW r \in 0..(b - 1)
  PROVE  (b * p + r) \div b = p /\ (b * p + r) % b = r
<1> DEFINE n == b * p + r
           q == n \div b
           s == n % b
<1>1. n \in Nat
  OBVIOUS
<1>2. q \in Nat /\ s \in 0..(b - 1) /\ n = b * q + s
  <2> HIDE DEF n
  <2> QED BY <1>1
<1> HIDE DEF q, s
<1>3. b * p + r = b * q + s
  BY <1>2
<1>4. b * (p - q) = s - r
  BY <1>2, <1>3
<1>5. s - r < b /\ s - r > -b
  BY <1>2
<1>6. ~(p - q >= 1)
  <2> SUFFICES ASSUME p - q >= 1 PROVE FALSE
    OBVIOUS
  <2>1. b * (p - q) >= b
    BY <1>2
  <2> QED BY <2>1, <1>4, <1>5, <1>2
<1>7. ~(p - q <= -1)
  <2> SUFFICES ASSUME p - q <= -1 PROVE FALSE
    OBVIOUS
  <2>1. b * (p - q) <= -b
    BY <1>2
  <2> QED BY <2>1, <1>4, <1>5, <1>2
<1>8. p = q
  BY <1>6, <1>7, <1>2
<1> QED BY <1>8, <1>2, <1>3 DEF q, s

(* Every number is divided. *)
LEMMA Divided ==
  ASSUME NEW b \in Nat \ {0}, NEW n \in Nat
  PROVE  n \div b \in Nat /\ n % b \in 0..(b - 1) /\ n = b * (n \div b) + (n % b)
OBVIOUS

(* The quotient and the rest of the number that follows. *)
LEMMA Following ==
  ASSUME NEW b \in Nat \ {0}, NEW n \in Nat
  PROVE  /\ n % b = b - 1 => (n + 1) % b = 0 /\ (n + 1) \div b = (n \div b) + 1
         /\ n % b # b - 1 => (n + 1) % b = (n % b) + 1 /\ (n + 1) \div b = n \div b
<1> DEFINE q == n \div b
           r == n % b
<1>1. q \in Nat /\ r \in 0..(b - 1) /\ n = b * q + r
  BY Divided
<1> HIDE DEF q, r
<1>2. ASSUME r = b - 1 PROVE (n + 1) % b = 0 /\ (n + 1) \div b = q + 1
  <2>1. n + 1 = b * (q + 1) + 0
    BY <1>1, <1>2
  <2>2. q + 1 \in Nat /\ 0 \in 0..(b - 1)
    BY <1>1
  <2>3. (b * (q + 1) + 0) \div b = q + 1 /\ (b * (q + 1) + 0) % b = 0
    BY <2>2, Quotient
  <2> QED BY <2>1, <2>3
<1>3. ASSUME r # b - 1 PROVE (n + 1) % b = r + 1 /\ (n + 1) \div b = q
  <2>1. n + 1 = b * q + (r + 1) /\ r + 1 \in 0..(b - 1)
    BY <1>1, <1>3
  <2>2. (b * q + (r + 1)) \div b = q /\ (b * q + (r + 1)) % b = r + 1
    BY <2>1, <1>1, Quotient
  <2> QED BY <2>1, <2>2
<1> QED BY <1>2, <1>3 DEF q, r

(* Two sequences put together. *)
IsJoin(u, s, t) ==
  /\ Len(u) = Len(s) + Len(t)
  /\ \A k \in 1..Len(s) : u[k] = s[k]
  /\ \A i \in 1..Len(t) : u[Len(s) + i] = t[i]

LEMMA Joined ==
  ASSUME NEW S, NEW s \in Seq(S), NEW t \in Seq(S)
  PROVE  s \o t \in Seq(S) /\ IsJoin(s \o t, s, t)
<1>1. s \o t \in Seq(S) /\ Len(s \o t) = Len(s) + Len(t)
  BY ConcatProperties
<1>2. \A k \in 1..Len(s) : (s \o t)[k] = s[k]
  BY ConcatProperties
<1>3. ASSUME NEW i \in 1..Len(t) PROVE (s \o t)[Len(s) + i] = t[i]
  <2>1. Len(s) + i \in 1..(Len(s) + Len(t)) /\ ~(Len(s) + i <= Len(s)) /\ (Len(s) + i) - Len(s) = i
    OBVIOUS
  <2> QED BY <2>1, ConcatProperties
<1> QED BY <1>1, <1>2, <1>3 DEF IsJoin

-------------------------------------------------------------------------------
(* The pool. *)

(* The list that starts at head has the m entries f[0], f[1], ..., each once, *)
(* and ends after them.                                                       *)
Chain(f, m, head) ==
  /\ f \in [0..m -> Infos \cup {NULL}]
  /\ f[0] = head /\ f[m] = NULL
  /\ \A k \in 0..(m - 1) : f[k] \in Infos /\ f[k + 1] = next[f[k]]
  /\ \A j, k \in 0..(m - 1) : f[j] = f[k] => j = k

Entries(f, m) == {f[k] : k \in 0..(m - 1)}

(* The free list is such a chain, of the slots that are not in use. *)
ListInv ==
  \E m \in Nat : \E f : Chain(f, m, freed) /\ Entries(f, m) = started \ open

ConnPoolTypes ==
  /\ active \in Infos \cup {NULL} /\ freed \in Infos \cup {NULL}
  /\ next \in [Infos -> Infos \cup {NULL}]
  /\ started \subseteq Infos /\ open \subseteq started
  /\ failed \in BOOLEAN
  /\ failed => started = Infos
  /\ \A c \in open : started = Infos

PoolInv == ConnPoolTypes /\ ListInv

(* A slot that is in no list becomes the head of one. *)
LEMMA PushChain ==
  ASSUME ConnPoolTypes, NEW c \in Infos, NEW m \in Nat, NEW f,
         Chain(f, m, freed), c \notin Entries(f, m),
         next' = [next EXCEPT ![c] = freed], freed' = c
  PROVE  \E n \in Nat : \E g :
            Chain(g, n, freed)' /\ Entries(g, n) = Entries(f, m) \cup {c}
<1> DEFINE n == m + 1
           g == [k \in 0..n |-> IF k = 0 THEN c ELSE f[k - 1]]
<1>1. /\ f \in [0..m -> Infos \cup {NULL}] /\ f[0] = freed /\ f[m] = NULL
      /\ \A k \in 0..(m - 1) : f[k] \in Infos /\ f[k + 1] = next[f[k]]
      /\ \A j, k \in 0..(m - 1) : f[j] = f[k] => j = k
      /\ \A k \in 0..(m - 1) : f[k] # c
  BY DEF Chain, Entries
<1>2. g \in [0..n -> Infos \cup {NULL}] /\ g[0] = c /\ g[n] = NULL
  BY <1>1
<1>3. \A k \in 0..(n - 1) : g[k] \in Infos /\ g[k + 1] = next'[g[k]]
  <2> SUFFICES ASSUME NEW k \in 0..(n - 1) PROVE g[k] \in Infos /\ g[k + 1] = next'[g[k]]
    OBVIOUS
  <2>1. CASE k = 0
    BY <1>1, <2>1 DEF ConnPoolTypes
  <2>2. CASE k # 0
    <3>1. k - 1 \in 0..(m - 1) /\ g[k] = f[k - 1] /\ g[k + 1] = f[(k - 1) + 1]
      BY <2>2
    <3> QED BY <1>1, <3>1 DEF ConnPoolTypes
  <2> QED BY <2>1, <2>2
<1>4. \A j, k \in 0..(n - 1) : g[j] = g[k] => j = k
  BY <1>1
<1>5. Entries(g, n) = Entries(f, m) \cup {c}
  <2>1. ASSUME NEW k \in 0..(n - 1) PROVE g[k] \in Entries(f, m) \cup {c}
    BY DEF Entries
  <2>2. ASSUME NEW k \in 0..(m - 1) PROVE f[k] \in Entries(g, n)
    <3>1. k + 1 \in 0..(n - 1) /\ g[k + 1] = f[k]
      OBVIOUS
    <3> QED BY <3>1 DEF Entries
  <2>3. c \in Entries(g, n)
    <3>1. 0 \in 0..(n - 1) /\ g[0] = c
      OBVIOUS
    <3> QED BY <3>1 DEF Entries
  <2> HIDE DEF g, n
  <2> QED BY <2>1, <2>2, <2>3 DEF Entries
<1>6. n \in Nat
  OBVIOUS
<1> HIDE DEF g, n
<1>7. Chain(g, n, freed)'
  BY <1>2, <1>3, <1>4 DEF Chain
<1> QED BY <1>2, <1>5, <1>6, <1>7

(* The head of a list is taken off. *)
LEMMA PopChain ==
  ASSUME ConnPoolTypes, NEW m \in Nat, NEW f, Chain(f, m, freed), freed # NULL,
         NEW x, next' = [next EXCEPT ![freed] = x], freed' = next[freed]
  PROVE  \E n \in Nat : \E g :
            /\ Chain(g, n, freed)' /\ freed \in Entries(f, m)
            /\ Entries(g, n) = Entries(f, m) \ {freed}
<1> DEFINE n == m - 1
           g == [k \in 0..n |-> f[k + 1]]
<1>1. /\ f \in [0..m -> Infos \cup {NULL}] /\ f[0] = freed /\ f[m] = NULL
      /\ \A k \in 0..(m - 1) : f[k] \in Infos /\ f[k + 1] = next[f[k]]
      /\ \A j, k \in 0..(m - 1) : f[j] = f[k] => j = k
  BY DEF Chain
<1>2. n \in Nat /\ 0 \in 0..(m - 1)
  BY <1>1
<1>3. /\ g \in [0..n -> Infos \cup {NULL}] /\ g[n] = NULL
      /\ g[0] = freed'
  <2>1. 0 + 1 = 1 /\ f[0 + 1] = next[f[0]] /\ g[0] = f[1]
    BY <1>1, <1>2
  <2> QED BY <1>1, <1>2, <2>1
<1>4. \A k \in 0..(n - 1) : g[k] \in Infos /\ g[k + 1] = next'[g[k]]
  <2> SUFFICES ASSUME NEW k \in 0..(n - 1) PROVE g[k] \in Infos /\ g[k + 1] = next'[g[k]]
    OBVIOUS
  <2>1. k + 1 \in 0..(m - 1) /\ g[k] = f[k + 1] /\ g[k + 1] = f[(k + 1) + 1]
    OBVIOUS
  <2>2. f[k + 1] # freed
    BY <1>1, <1>2, <2>1
  <2> QED BY <1>1, <2>1, <2>2 DEF ConnPoolTypes
<1>5. \A j, k \in 0..(n - 1) : g[j] = g[k] => j = k
  BY <1>1
<1>6. freed \in Entries(f, m)
  BY <1>1, <1>2 DEF Entries
<1>7. Entries(g, n) = Entries(f, m) \ {freed}
  <2>1. ASSUME NEW k \in 0..(n - 1) PROVE g[k] \in Entries(f, m) \ {freed}
    <3>1. k + 1 \in 0..(m - 1) /\ g[k] = f[k + 1] /\ k + 1 # 0
      OBVIOUS
    <3> QED BY <1>1, <1>2, <3>1 DEF Entries
  <2>2. ASSUME NEW k \in 0..(m - 1), f[k] # freed PROVE f[k] \in Entries(g, n)
    <3>1. k - 1 \in 0..(n - 1) /\ g[k - 1] = f[k]
      BY <1>1, <2>2
    <3> QED BY <3>1 DEF Entries
  <2> HIDE DEF g, n
  <2> QED BY <2>1, <2>2 DEF Entries
<1>8. Chain(g, n, freed)'
  BY <1>3, <1>4, <1>5 DEF Chain
<1> HIDE DEF g, n
<1> QED BY <1>2, <1>3, <1>6, <1>7, <1>8

LEMMA InitPool == ASSUME Init PROVE PoolInv
<1> DEFINE f == [k \in 0..0 |-> NULL]
<1>1. f \in [0..0 -> Infos \cup {NULL}] /\ Chain(f, 0, freed)
  BY DEF Chain, Init
<1>2. Entries(f, 0) = {}
  BY DEF Entries
<1>3. started \ open = {}
  BY DEF Init
<1>4. ListInv
  <2> HIDE DEF f
  <2> QED BY <1>1, <1>2, <1>3 DEF ListInv
<1>5. ConnPoolTypes
  BY DEF ConnPoolTypes, Init
<1> QED BY <1>4, <1>5 DEF PoolInv

LEMMA StepPool ==
  ASSUME PoolInv, [Next]_vars
  PROVE  PoolInv'
<1>0. PICK m \in Nat : \E f : Chain(f, m, freed) /\ Entries(f, m) = started \ open
  BY DEF PoolInv, ListInv
<1>1. PICK f : Chain(f, m, freed) /\ Entries(f, m) = started \ open
  BY <1>0
<1>2. ConnPoolTypes
  BY DEF PoolInv
<1>3. ASSUME NEW c \in Infos, AddInfo(c)
      PROVE  PoolInv'
  <2>1. /\ c \notin started /\ started' = started \cup {c} /\ open' = open
        /\ next' = [next EXCEPT ![c] = freed] /\ freed' = c /\ active' = active /\ failed' = failed
    BY <1>3 DEF AddInfo
  <2>2. ConnPoolTypes'
    BY <1>2, <2>1 DEF ConnPoolTypes
  <2>3. PICK n \in Nat : \E g :
          Chain(g, n, freed)' /\ Entries(g, n) = Entries(f, m) \cup {c}
    BY <1>1, <1>2, <2>1, PushChain
  <2>4. started' \ open' = (started \ open) \cup {c}
    BY <1>2, <2>1 DEF ConnPoolTypes
  <2>5. ListInv'
    BY <1>1, <2>3, <2>4 DEF ListInv
  <2> QED BY <2>2, <2>5 DEF PoolInv
<1>4. ASSUME NEW c \in Infos, InfoFree(c)
      PROVE  PoolInv'
  <2>1. /\ c \in open /\ started' = started /\ open' = open \ {c}
        /\ next' = [next EXCEPT ![c] = freed] /\ freed' = c /\ active' = next[c] /\ failed' = failed
    BY <1>4 DEF InfoFree
  <2>2. ConnPoolTypes'
    BY <1>2, <2>1 DEF ConnPoolTypes
  <2>3. PICK n \in Nat : \E g :
          Chain(g, n, freed)' /\ Entries(g, n) = Entries(f, m) \cup {c}
    BY <1>1, <1>2, <2>1, PushChain
  <2>4. started' \ open' = (started \ open) \cup {c}
    BY <1>2, <2>1 DEF ConnPoolTypes
  <2>5. ListInv'
    BY <1>1, <2>3, <2>4 DEF ListInv
  <2> QED BY <2>2, <2>5 DEF PoolInv
<1>5. CASE InfoAlloc
  <2>1. /\ Running /\ freed # NULL /\ started' = started /\ open' = open \cup {freed}
        /\ next' = [next EXCEPT ![freed] = active] /\ freed' = next[freed] /\ active' = freed
        /\ failed' = failed
    BY <1>5 DEF InfoAlloc
  <2>2. PICK n \in Nat : \E g :
          /\ Chain(g, n, freed)' /\ freed \in Entries(f, m)
          /\ Entries(g, n) = Entries(f, m) \ {freed}
    BY <1>1, <1>2, <2>1, PopChain
  <2>3. freed \in started /\ started' \ open' = (started \ open) \ {freed}
    BY <1>1, <2>1, <2>2
  <2>4. ConnPoolTypes'
    BY <1>2, <2>1, <2>3 DEF ConnPoolTypes, Running
  <2>5. ListInv'
    BY <1>1, <2>2, <2>3 DEF ListInv
  <2> QED BY <2>4, <2>5 DEF PoolInv
<1>6. CASE InfoAllocFails \/ Terminated \/ UNCHANGED vars
  <2>1. /\ UNCHANGED <<active, freed, next, started, open>>
        /\ failed' = failed \/ (failed' = TRUE /\ Running)
    BY <1>6 DEF InfoAllocFails, Terminated, vars
  <2>2. ConnPoolTypes'
    <3>1. CASE failed' = failed
      BY <1>2, <2>1, <3>1 DEF ConnPoolTypes
    <3>2. CASE failed' = TRUE /\ Running
      BY <1>2, <2>1, <3>2 DEF ConnPoolTypes, Running
    <3> QED BY <2>1, <3>1, <3>2
  <2>3. Chain(f, m, freed)'
    BY <1>1, <2>1 DEF Chain
  <2>4. ListInv'
    BY <1>1, <2>1, <2>3 DEF ListInv
  <2> QED BY <2>2, <2>4 DEF PoolInv
<1> QED BY <1>3, <1>4, <1>5, <1>6 DEF Next

(* The lists are well formed in every state (_info_alloc(), _info_free()). *)
THEOREM PoolInvariance == Spec => []PoolInv
BY InitPool, StepPool, PTL DEF Spec

------------------------------------------------------------------------------
(* What Follow computes of such a chain. *)
LEMMA FollowChain ==
  ASSUME NEW m \in Nat, NEW f, Chain(f, m, freed)
  PROVE  /\ \A k \in 0..Cardinality(Infos) : Follow(freed)[k] = IF k <= m THEN f[k] ELSE NULL
         /\ m <= Cardinality(Infos)
<1> DEFINE N == Cardinality(Infos)
<1>1. N \in Nat
  BY ConnPoolAssumption, FS_CardinalityType
<1>2. /\ f \in [0..m -> Infos \cup {NULL}] /\ f[0] = freed /\ f[m] = NULL
      /\ \A k \in 0..(m - 1) : f[k] \in Infos /\ f[k + 1] = next[f[k]]
      /\ \A j, k \in 0..(m - 1) : f[j] = f[k] => j = k
  BY DEF Chain
<1>3. m <= N
  <2> DEFINE D == 0..(m - 1)
             h == [k \in D |-> f[k]]
  <2>1. IsFiniteSet(D) /\ Cardinality(D) = m
    BY FS_Interval
  <2>2. h \in [D -> Infos]
    BY <1>2
  <2>3. \A j, k \in D : h[j] = h[k] => j = k
    BY <1>2
  <2> HIDE DEF D, h
  <2>4. ~(N < Cardinality(D))
    BY <2>1, <2>2, <2>3, ConnPoolAssumption, FS_PigeonHole
  <2> QED BY <1>1, <2>1, <2>4
<1> DEFINE Turn(g, k) == IF k = 0 THEN freed
                         ELSE IF g[k - 1] = NULL THEN NULL ELSE next[g[k - 1]]
           IsEntry(g) == g = [k \in 0..N |-> Turn(g, k)]
           e == CHOOSE g : IsEntry(g)
           G == [k \in 0..N |-> IF k <= m THEN f[k] ELSE NULL]
<1>4. Follow(freed) = e
  BY DEF Follow
<1>5. IsEntry(G)
  <2> SUFFICES ASSUME NEW k \in 0..N PROVE G[k] = Turn(G, k)
    OBVIOUS
  <2>1. CASE k = 0
    BY <1>1, <1>2, <2>1
  <2>2. CASE k # 0
    <3>1. k - 1 \in 0..N /\ (k - 1) + 1 = k
      BY <1>1, <2>2
    <3>2. G[k - 1] = IF k - 1 <= m THEN f[k - 1] ELSE NULL
      BY <3>1
    <3>3. CASE k <= m
      BY <1>2, <2>2, <3>1, <3>2, <3>3, ConnPoolAssumption
    <3>4. CASE k = m + 1
      BY <1>2, <2>2, <3>1, <3>2, <3>4
    <3>5. CASE k > m + 1
      BY <2>2, <3>1, <3>2, <3>5
    <3> QED BY <1>1, <3>3, <3>4, <3>5
  <2> QED BY <2>1, <2>2
<1>6. IsEntry(e)
  <2> HIDE DEF IsEntry, G
  <2> QED BY <1>5
<1>7. \A k \in 0..N : e[k] = G[k]
  <2> DEFINE S == {k \in Nat : k \in 0..N => e[k] = G[k]}
  <2>1. \A k \in 0..N : e[k] = Turn(e, k) /\ G[k] = Turn(G, k)
    <3> HIDE DEF e, G
    <3>1. e = [k \in 0..N |-> Turn(e, k)] /\ G = [k \in 0..N |-> Turn(G, k)]
      BY <1>5, <1>6
    <3> HIDE DEF IsEntry, Turn
    <3> QED BY <3>1
  <2> HIDE DEF e, G
  <2>2. 0 \in S
    BY <1>1, <2>1
  <2>3. ASSUME NEW k \in Nat, k \in S PROVE k + 1 \in S
    <3> SUFFICES ASSUME k + 1 \in 0..N PROVE e[k + 1] = G[k + 1]
      OBVIOUS
    <3>1. k \in 0..N /\ (k + 1) - 1 = k /\ k + 1 # 0
      BY <1>1
    <3>2. e[k] = G[k]
      BY <2>3, <3>1
    <3> QED BY <2>1, <3>1, <3>2
  <2>4. Nat \subseteq S
    <3> HIDE DEF S
    <3> QED BY <2>2, <2>3, NatSetInduction
  <2> QED BY <1>1, <2>4
<1> HIDE DEF e
<1> QED BY <1>3, <1>4, <1>7

LEMMA ListIsExact ==
  ASSUME PoolInv
  PROVE  FreeListExact
<1>0. PICK m \in Nat : \E f : Chain(f, m, freed) /\ Entries(f, m) = started \ open
  BY DEF PoolInv, ListInv
<1>1. PICK f : Chain(f, m, freed) /\ Entries(f, m) = started \ open
  BY <1>0
<1> DEFINE N == Cardinality(Infos)
<1>2. N \in Nat /\ m <= N
  BY <1>1, FollowChain, ConnPoolAssumption, FS_CardinalityType
<1>3. \A k \in 0..N : Follow(freed)[k] = IF k <= m THEN f[k] ELSE NULL
  BY <1>1, FollowChain
<1>4. f[m] = NULL /\ \A k \in 0..(m - 1) : f[k] \in Infos
  BY <1>1 DEF Chain
<1> HIDE DEF N
<1>5. Listed(freed) = Entries(f, m)
  <2>1. Listed(freed) = {Follow(freed)[k] : k \in 0..N} \ {NULL}
    BY DEF Listed, N
  <2>2. ASSUME NEW k \in 0..N, Follow(freed)[k] # NULL PROVE Follow(freed)[k] \in Entries(f, m)
    <3>1. k \in 0..(m - 1) /\ Follow(freed)[k] = f[k]
      BY <1>2, <1>3, <1>4, <2>2
    <3> QED BY <3>1 DEF Entries
  <2>3. ASSUME NEW k \in 0..(m - 1)
        PROVE  f[k] \in {Follow(freed)[j] : j \in 0..N} \ {NULL}
    <3>1. k \in 0..N /\ Follow(freed)[k] = f[k] /\ f[k] # NULL
      BY <1>2, <1>3, <1>4, ConnPoolAssumption
    <3> QED BY <3>1
  <2> QED BY <2>1, <2>2, <2>3 DEF Entries
<1>6. Follow(freed)[N] = NULL
  BY <1>2, <1>3, <1>4
<1> QED BY <1>1, <1>5, <1>6 DEF FreeListExact, N

(* However connections are opened and closed, the free list holds the slots   *)
(* that are not in use, all of them and no other, and it ends.                *)
THEOREM FreeListStaysExact == Spec => []FreeListExact
BY PoolInvariance, ListIsExact, PTL

------------------------------------------------------------------------------
(* The lists implement the set of free slots, step by step. *)
LEMMA StepSlotPool ==
  ASSUME PoolInv, FreeListExact, PoolInv', FreeListExact', [Next]_vars
  PROVE  [Pool!Next]_(Pool!vars)
<1> DEFINE free == Listed(freed)
<1>1. free = started \ open /\ free' = started' \ open'
  BY DEF FreeListExact
<1>2. ConnPoolTypes /\ ConnPoolTypes'
  BY DEF PoolInv
<1> HIDE DEF free
<1>3. ASSUME NEW c \in Infos, AddInfo(c) \/ InfoFree(c)
      PROVE  Pool!Put(c)
  <2>1. c \notin free /\ free' = free \cup {c} /\ failed' = failed
    BY <1>1, <1>2, <1>3 DEF AddInfo, InfoFree, ConnPoolTypes
  <2>2. ~failed
    BY <1>2, <1>3 DEF AddInfo, InfoFree, Running, ConnPoolTypes
  <2> QED BY <2>1, <2>2 DEF Pool!Put, free
<1>4. CASE InfoAlloc
  <2>1. /\ freed \in Infos /\ failed' = failed /\ ~failed
        /\ started' = started /\ open' = open \cup {freed} /\ started = Infos
    BY <1>2, <1>4 DEF InfoAlloc, Running, ConnPoolTypes
  <2>2. freed \in free
    <3>1. Follow(freed)[0] = freed
      <4>1. PICK m \in Nat : \E f : Chain(f, m, freed)
        BY DEF PoolInv, ListInv
      <4>2. PICK f : Chain(f, m, freed)
        BY <4>1
      <4>3. Cardinality(Infos) \in Nat
        BY ConnPoolAssumption, FS_CardinalityType
      <4>4. Follow(freed)[0] = f[0]
        BY <4>2, <4>3, FollowChain
      <4> QED BY <4>2, <4>4 DEF Chain
    <3>2. 0 \in 0..Cardinality(Infos)
      BY ConnPoolAssumption, FS_CardinalityType
    <3> QED BY <2>1, <3>1, <3>2, ConnPoolAssumption DEF Listed, free
  <2>3. free' = free \ {freed}
    BY <1>1, <2>1
  <2> QED BY <2>1, <2>2, <2>3 DEF Pool!Next, Pool!Get, free
<1>5. CASE InfoAllocFails
  <2>1. free = {}
    <3>1. PICK m \in Nat : \E f : Chain(f, m, freed) /\ Entries(f, m) = started \ open
      BY DEF PoolInv, ListInv
    <3>2. PICK f : Chain(f, m, freed) /\ Entries(f, m) = started \ open
      BY <3>1
    <3>3. m = 0
      BY <1>5, <3>2, ConnPoolAssumption DEF InfoAllocFails, Chain
    <3> QED BY <1>1, <3>2, <3>3 DEF Entries
  <2>2. free' = free /\ failed' = TRUE /\ ~failed
    BY <1>1, <1>5 DEF InfoAllocFails, Running
  <2> QED BY <2>1, <2>2 DEF Pool!Next, Pool!GetFails, free
<1>6. CASE Terminated \/ UNCHANGED vars
  <2>1. free' = free /\ failed' = failed
    BY <1>1, <1>6 DEF Terminated, vars
  <2> QED BY <2>1 DEF Pool!vars, free
<1> QED BY <1>3, <1>4, <1>5, <1>6 DEF Next, Pool!Next

(* Every behaviour of the lists is one of the abstract pool: a slot is handed *)
(* out only when it is free, comes back only when it was handed out, and the  *)
(* program runs out of memory only when all are out.                          *)
THEOREM ListsImplementPool == Spec => ImplementsSlotPool
<1>1. Init => Pool!Init
  <2> SUFFICES ASSUME Init PROVE Listed(freed) = {} /\ failed = FALSE
    BY DEF Pool!Init
  <2>1. Listed(freed) = started \ open
    BY InitPool, ListIsExact DEF FreeListExact
  <2> QED BY <2>1 DEF Init
<1>2. PoolInv /\ FreeListExact /\ PoolInv' /\ FreeListExact' /\ [Next]_vars => [Pool!Next]_(Pool!vars)
  BY StepSlotPool
<1> QED BY <1>1, <1>2, PoolInvariance, FreeListStaysExact, PTL DEF Spec, Pool!Spec, ImplementsSlotPool

-------------------------------------------------------------------------------
(* The hash.  A byte is one of the message, of the padding, or of a length. *)
Byte == Nat \cup {One, Zero} \cup (Nat \X Nat)

Multiples == {BlockSize * q : q \in Nat}

Held(c) == SubSeq(c.buf, 1, c.partial)

(* The bytes m are those that were compressed, in whole blocks, and those     *)
(* that the buffer holds.                                                     *)
Remembers(c, m) == m = c.blocks \o Held(c) /\ Len(c.blocks) \in Multiples

Contexts == [buf : [1..BlockSize -> Byte], partial : 0..BlockSize, length : Nat, blocks : Seq(Byte)]

ShaInv ==
  /\ final \in BOOLEAN
  /\ message \in Seq(Nat)
  /\ sha \in Contexts
  /\ ~final => sha.partial < BlockSize /\ sha.length = Len(sha.blocks) /\ Remembers(sha, message)
  /\ final => sha.blocks = PaddedMessage(message)

(* Whole blocks and whole blocks are whole blocks. *)
LEMMA MultiplesFacts ==
  /\ Multiples \subseteq Nat /\ 0 \in Multiples /\ BlockSize \in Multiples
  /\ \A a, b \in Multiples : a + b \in Multiples
<1>1. BlockSize \in Nat \ {0}
  BY Sha512Assumption
<1>2. \A q \in Nat : BlockSize * q \in Nat
  BY <1>1
<1>3. BlockSize * 0 = 0 /\ BlockSize * 1 = BlockSize
  BY <1>1
<1>4. ASSUME NEW a \in Multiples, NEW b \in Multiples PROVE a + b \in Multiples
  <2>1. PICK p \in Nat : a = BlockSize * p
    BY DEF Multiples
  <2>2. PICK q \in Nat : b = BlockSize * q
    BY DEF Multiples
  <2>3. p + q \in Nat /\ BlockSize * (p + q) = BlockSize * p + BlockSize * q
    BY <1>1
  <2> QED BY <2>1, <2>2, <2>3 DEF Multiples
<1> QED BY <1>2, <1>3, <1>4 DEF Multiples

(* The whole blocks in a number of bytes, and the rest. *)
LEMMA Division ==
  ASSUME NEW n \in Nat
  PROVE  /\ n \div BlockSize \in Nat /\ n % BlockSize \in 0..(BlockSize - 1)
         /\ BlockSize * (n \div BlockSize) \in Multiples
         /\ n = BlockSize * (n \div BlockSize) + (n % BlockSize)
<1>1. BlockSize \in Nat \ {0}
  BY Sha512Assumption
<1>2. n \div BlockSize \in Nat /\ n % BlockSize \in 0..(BlockSize - 1)
  BY <1>1
<1>3. n = BlockSize * (n \div BlockSize) + (n % BlockSize)
  BY <1>1
<1> QED BY <1>2, <1>3 DEF Multiples

(* There is one way to take the whole blocks from a number of bytes. *)
LEMMA DivisionUnique ==
  ASSUME NEW d \in Multiples, NEW r \in 0..(BlockSize - 1)
  PROVE  BlockSize * ((d + r) \div BlockSize) = d /\ (d + r) % BlockSize = r
<1>1. BlockSize \in Nat \ {0}
  BY Sha512Assumption
<1>2. PICK p \in Nat : d = BlockSize * p
  BY DEF Multiples
<1>3. (d + r) \div BlockSize = p /\ (d + r) % BlockSize = r
  BY <1>1, <1>2, Quotient
<1> QED BY <1>2, <1>3

(* Sequences of bytes put together. *)
LEMMA Join ==
  ASSUME NEW s \in Seq(Byte), NEW t \in Seq(Byte)
  PROVE  /\ s \o t \in Seq(Byte) /\ Len(s) \in Nat /\ Len(t) \in Nat
         /\ Len(s \o t) = Len(s) + Len(t)
         /\ \A i \in 1..Len(s) : (s \o t)[i] = s[i] /\ s[i] \in Byte
         /\ \A i \in 1..Len(t) : (s \o t)[Len(s) + i] = t[i] /\ t[i] \in Byte
<1> HIDE DEF Byte
<1>1. /\ s \o t \in Seq(Byte) /\ Len(s \o t) = Len(s) + Len(t)
      /\ \A i \in 1..Len(s) + Len(t) : (s \o t)[i] = IF i <= Len(s) THEN s[i] ELSE t[i - Len(s)]
  BY ConcatProperties
<1>2. Len(s) \in Nat /\ Len(t) \in Nat
  BY LenProperties
<1>3. ASSUME NEW i \in 1..Len(s) PROVE (s \o t)[i] = s[i] /\ s[i] \in Byte
  BY <1>1, <1>2, ElementOfSeq
<1>4. ASSUME NEW i \in 1..Len(t) PROVE (s \o t)[Len(s) + i] = t[i] /\ t[i] \in Byte
  <2>1. Len(s) + i \in 1..Len(s) + Len(t) /\ ~(Len(s) + i <= Len(s)) /\ (Len(s) + i) - Len(s) = i
    BY <1>2
  <2> QED BY <2>1, <1>1, ElementOfSeq
<1> QED BY <1>1, <1>2, <1>3, <1>4

(* The bytes after the first a, up to the b-th. *)
LEMMA Slice ==
  ASSUME NEW s \in Seq(Byte), NEW a \in Nat, NEW b \in Nat, a <= b, b <= Len(s)
  PROVE  /\ SubSeq(s, a + 1, b) \in Seq(Byte)
         /\ Len(SubSeq(s, a + 1, b)) = b - a
         /\ \A i \in 1..(b - a) : SubSeq(s, a + 1, b)[i] = s[a + i]
<1> HIDE DEF Byte
<1>1. Len(s) \in Nat /\ \A i \in (a + 1)..b : s[i] \in Byte
  BY LenProperties, ElementOfSeq
<1>2. /\ SubSeq(s, a + 1, b) \in Seq(Byte)
      /\ Len(SubSeq(s, a + 1, b)) = IF a + 1 <= b THEN b - (a + 1) + 1 ELSE 0
      /\ \A i \in 1..b - (a + 1) + 1 : SubSeq(s, a + 1, b)[i] = s[(a + 1) + i - 1]
  <2>1. a + 1 \in Int /\ b \in Int
    OBVIOUS
  <2> QED BY <1>1, <2>1, SubSeqProperties
<1> QED BY <1>2

(* Concatenation, in the forms in which it is needed below. *)
LEMMA Regroup ==
  ASSUME NEW s \in Seq(Byte), NEW t \in Seq(Byte), NEW u \in Seq(Byte)
  PROVE  (s \o t) \o u = s \o (t \o u)
BY ConcatAssociative

LEMMA Nothing ==
  ASSUME NEW s \in Seq(Byte)
  PROVE  s \o <<>> = s
BY ConcatEmptySeq

(* What the buffer holds. *)
LEMMA HeldFacts ==
  ASSUME NEW c \in Contexts
  PROVE  /\ Held(c) \in Seq(Byte) /\ Len(Held(c)) = c.partial
         /\ \A j \in 1..c.partial : Held(c)[j] = c.buf[j]
         /\ c.partial = BlockSize => Held(c) = c.buf
         /\ c.partial = 0 => Held(c) = <<>>
<1>1. BlockSize \in Nat /\ c.partial \in Nat /\ c.partial <= BlockSize /\ c.buf \in [1..BlockSize -> Byte]
  BY Sha512Assumption DEF Contexts
<1>2. c.buf \in Seq(Byte) /\ Len(c.buf) = BlockSize
  BY <1>1
<1>3. /\ SubSeq(c.buf, 0 + 1, c.partial) \in Seq(Byte)
      /\ Len(SubSeq(c.buf, 0 + 1, c.partial)) = c.partial - 0
      /\ \A i \in 1..(c.partial - 0) : SubSeq(c.buf, 0 + 1, c.partial)[i] = c.buf[0 + i]
  BY <1>1, <1>2, Slice
<1>4. /\ Held(c) \in Seq(Byte) /\ Len(Held(c)) = c.partial
      /\ \A j \in 1..c.partial : Held(c)[j] = c.buf[j]
  BY <1>1, <1>3 DEF Held
<1>5. c.partial = BlockSize => Held(c) = c.buf
  BY <1>2, SubSeqFull DEF Held
<1>6. c.partial = 0 => Held(c) = <<>>
  BY SubSeqEmpty DEF Held
<1> QED BY <1>4, <1>5, <1>6

(* The number of bytes is that of the compressed ones and those held. *)
LEMMA MessageOf ==
  ASSUME NEW c \in Contexts, NEW m, Remembers(c, m)
  PROVE  m \in Seq(Byte) /\ Len(m) = Len(c.blocks) + c.partial
<1>1. c.blocks \in Seq(Byte)
  BY DEF Contexts
<1> DEFINE h == Held(c)
<1>2. h \in Seq(Byte) /\ Len(h) = c.partial
  BY HeldFacts
<1> HIDE DEF h
<1>3. c.blocks \o h \in Seq(Byte) /\ Len(c.blocks \o h) = Len(c.blocks) + Len(h)
  BY <1>1, <1>2, Join
<1> QED BY <1>2, <1>3 DEF Remembers, h

(* Bytes that fit into the buffer are put behind those it holds. *)
LEMMA BufferedKeeps ==
  ASSUME NEW c \in Contexts, NEW m, Remembers(c, m),
         NEW bytes \in Seq(Byte), c.partial + Len(bytes) <= BlockSize
  PROVE  /\ Buffered(c, bytes) \in Contexts
         /\ Remembers(Buffered(c, bytes), m \o bytes)
         /\ Buffered(c, bytes).partial = c.partial + Len(bytes)
         /\ Buffered(c, bytes).length = c.length
         /\ Buffered(c, bytes).blocks = c.blocks
<1> DEFINE b == Buffered(c, bytes)
<1>1. /\ BlockSize \in Nat \ {0} /\ c.partial \in 0..BlockSize /\ c.buf \in [1..BlockSize -> Byte]
      /\ c.length \in Nat /\ c.blocks \in Seq(Byte) /\ Len(bytes) \in Nat
  BY Sha512Assumption, LenProperties DEF Contexts
<1>2. b = [c EXCEPT !.partial = c.partial + Len(bytes),
                    !.buf = [j \in 1..BlockSize |->
                               IF j \in (c.partial + 1)..(c.partial + Len(bytes))
                               THEN bytes[j - c.partial] ELSE c.buf[j]]]
  <2>1. DOMAIN c.buf = 1..BlockSize
    BY <1>1
  <2> QED BY <2>1 DEF Buffered
<1>3. c = [buf |-> c.buf, partial |-> c.partial, length |-> c.length, blocks |-> c.blocks]
  BY DEF Contexts
<1>4. b = [buf |-> [j \in 1..BlockSize |-> IF j \in (c.partial + 1)..(c.partial + Len(bytes))
                                          THEN bytes[j - c.partial] ELSE c.buf[j]],
           partial |-> c.partial + Len(bytes), length |-> c.length, blocks |-> c.blocks]
  <2> HIDE DEF b
  <2> QED BY <1>2, <1>3
<1> HIDE DEF b
<1>5. /\ b.partial = c.partial + Len(bytes) /\ b.length = c.length /\ b.blocks = c.blocks
      /\ \A j \in 1..c.partial : b.buf[j] = c.buf[j]
      /\ \A j \in 1..Len(bytes) : b.buf[c.partial + j] = bytes[j]
  <2>1. b.partial = c.partial + Len(bytes) /\ b.length = c.length /\ b.blocks = c.blocks
    BY <1>4
  <2>2. b.buf = [j \in 1..BlockSize |-> IF j \in (c.partial + 1)..(c.partial + Len(bytes))
                                       THEN bytes[j - c.partial] ELSE c.buf[j]]
    BY <1>4
  <2>3. \A j \in 1..c.partial : b.buf[j] = c.buf[j]
    BY <1>1, <2>2
  <2>4. ASSUME NEW j \in 1..Len(bytes) PROVE b.buf[c.partial + j] = bytes[j]
    <3>1. c.partial + j \in 1..BlockSize /\ c.partial + j \in (c.partial + 1)..(c.partial + Len(bytes))
      BY <1>1
    <3>2. (c.partial + j) - c.partial = j
      BY <1>1
    <3> QED BY <3>1, <3>2, <2>2
  <2> QED BY <2>1, <2>3, <2>4
<1>6. b \in Contexts
  <2>1. b.buf \in [1..BlockSize -> Byte]
    <3>1. ASSUME NEW j \in 1..BlockSize, j \in (c.partial + 1)..(c.partial + Len(bytes))
          PROVE  bytes[j - c.partial] \in Byte
      <4>1. j - c.partial \in 1..Len(bytes)
        BY <1>1, <3>1
      <4> QED BY <4>1, ElementOfSeq
    <3> QED BY <1>1, <1>4, <3>1
  <2>2. b.partial \in 0..BlockSize
    BY <1>1, <1>5
  <2> QED BY <1>1, <1>4, <2>1, <2>2 DEF Contexts
<1>7. Held(b) = Held(c) \o bytes
  <2> DEFINE h == Held(c)
             x == Held(b)
             y == h \o bytes
  <2>1. h \in Seq(Byte) /\ Len(h) = c.partial /\ \A j \in 1..c.partial : h[j] = c.buf[j]
    BY HeldFacts
  <2>2. x \in Seq(Byte) /\ Len(x) = b.partial /\ \A j \in 1..b.partial : x[j] = b.buf[j]
    BY <1>6, HeldFacts
  <2> HIDE DEF h, x
  <2>3. /\ y \in Seq(Byte) /\ Len(y) = c.partial + Len(bytes)
        /\ \A i \in 1..c.partial : y[i] = h[i]
        /\ \A i \in 1..Len(bytes) : y[c.partial + i] = bytes[i]
    BY <2>1, Join
  <2> HIDE DEF y
  <2>4. ASSUME NEW j \in 1..b.partial PROVE x[j] = y[j]
    <3>1. CASE j <= c.partial
      BY <1>1, <1>5, <2>1, <2>2, <2>3, <3>1
    <3>2. CASE j > c.partial
      <4> DEFINE k == j - c.partial
      <4>1. k \in 1..Len(bytes) /\ j = c.partial + k
        BY <1>1, <1>5, <3>2
      <4> HIDE DEF k
      <4>2. b.buf[j] = bytes[k] /\ y[j] = bytes[k]
        BY <4>1, <1>5, <2>3, Zenon
      <4> QED BY <4>2, <2>2
    <3> QED BY <3>1, <3>2, <1>1, <1>5
  <2>5. x = y
    <3>1. Len(x) = Len(y) /\ \A i \in 1..Len(x) : x[i] = y[i]
      BY <2>2, <2>3, <2>4, <1>5
    <3> QED BY <2>2, <2>3, <3>1, SeqEqual
  <2> QED BY <2>5 DEF x, y, h
<1>8. Remembers(b, m \o bytes)
  <2> DEFINE h == Held(c)
  <2>1. h \in Seq(Byte)
    BY HeldFacts
  <2> HIDE DEF h
  <2>2. (c.blocks \o h) \o bytes = c.blocks \o (h \o bytes)
    BY <1>1, <2>1, Regroup
  <2> QED BY <2>2, <1>5, <1>7 DEF Remembers, h
<1> QED BY <1>5, <1>6, <1>8 DEF b

(* Bytes are compressed: those in a full buffer, and then it is empty, ...    *)
LEMMA FullBlock ==
  ASSUME NEW c \in Contexts, NEW m, Remembers(c, m), c.partial = BlockSize, NEW n \in Nat,
         NEW d, d = [buf |-> c.buf, partial |-> 0, length |-> n, blocks |-> c.blocks \o c.buf]
  PROVE  d \in Contexts /\ Remembers(d, m) /\ Len(d.blocks) = Len(c.blocks) + BlockSize
<1>1. /\ BlockSize \in Nat /\ c.buf \in [1..BlockSize -> Byte] /\ c.blocks \in Seq(Byte)
  BY Sha512Assumption DEF Contexts
<1>2. c.buf \in Seq(Byte) /\ Len(c.buf) = BlockSize
  BY <1>1
<1>3. /\ c.blocks \o c.buf \in Seq(Byte) /\ Len(c.blocks \o c.buf) = Len(c.blocks) + BlockSize
  <2> HIDE DEF Byte
  <2>1. Len(c.blocks \o c.buf) = Len(c.blocks) + Len(c.buf)
    BY <1>1, <1>2, Join
  <2> QED BY <1>1, <1>2, <2>1, Join
<1>4. d \in Contexts
  BY <1>1, <1>3 DEF Contexts
<1>5. m = d.blocks \o Held(d)
  <2>1. m = d.blocks
    BY HeldFacts DEF Remembers
  <2>2. d.blocks \o Held(d) = d.blocks
    BY <1>3, <1>4, HeldFacts, Nothing
  <2> QED BY <2>1, <2>2
<1> QED BY <1>3, <1>4, <1>5, MultiplesFacts DEF Remembers

(* The context after bytes were compressed, with n as its length. *)
Passed(c, bytes, n) ==
  [buf |-> c.buf, partial |-> c.partial, length |-> n, blocks |-> c.blocks \o bytes]

(* ... or whole blocks of further bytes, when it is empty. *)
LEMMA WholeBlocks ==
  ASSUME NEW c \in Contexts, NEW m, Remembers(c, m), NEW bytes \in Seq(Byte), Len(bytes) \in Multiples,
         c.partial = 0 \/ bytes = <<>>, NEW n \in Nat,
         NEW d, d = Passed(c, bytes, n)
  PROVE  d \in Contexts /\ Remembers(d, m \o bytes) /\ Len(d.blocks) = Len(c.blocks) + Len(bytes)
<1> USE DEF Passed
<1>1. c.partial \in 0..BlockSize /\ c.buf \in [1..BlockSize -> Byte] /\ c.blocks \in Seq(Byte)
  BY DEF Contexts
<1>2. c.blocks \o bytes \in Seq(Byte) /\ Len(c.blocks \o bytes) = Len(c.blocks) + Len(bytes)
  BY <1>1, Join
<1>3. d \in Contexts
  BY <1>1, <1>2 DEF Contexts
<1>4. m \o bytes = d.blocks \o Held(d)
  <2>1. Held(d) = Held(c)
    BY DEF Held
  <2>2. CASE c.partial = 0
    <3>1. m = c.blocks /\ d.blocks \o Held(d) = d.blocks
      BY <1>1, <1>2, <2>1, <2>2, HeldFacts, ConcatEmptySeq DEF Remembers
    <3> QED BY <3>1
  <2>3. CASE bytes = <<>>
    <3>1. m \in Seq(Byte)
      BY <1>1, HeldFacts, Join DEF Remembers
    <3>2. m \o bytes = m /\ c.blocks \o bytes = c.blocks
      BY <1>1, <2>3, <3>1, Nothing
    <3> QED BY <2>1, <3>2 DEF Remembers
  <2> QED BY <2>2, <2>3
<1> QED BY <1>2, <1>3, <1>4, MultiplesFacts DEF Remembers

(* The fields of a context after a block was compressed. *)
LEMMA CompressedIs ==
  ASSUME NEW c \in Contexts, NEW block
  PROVE  Compressed(c, block) = [buf |-> c.buf, partial |-> c.partial, length |-> c.length,
                                 blocks |-> c.blocks \o block]
<1> DEFINE w == c.blocks \o block
<1>1. c = [buf |-> c.buf, partial |-> c.partial, length |-> c.length, blocks |-> c.blocks]
  BY DEF Contexts
<1>2. Compressed(c, block) = [c EXCEPT !.blocks = w]
  BY DEF Compressed
<1> HIDE DEF w
<1>3. [c EXCEPT !.blocks = w]
        = [buf |-> c.buf, partial |-> c.partial, length |-> c.length, blocks |-> w]
  BY <1>1
<1> QED BY <1>2, <1>3 DEF w

(* Flushing a buffer loses nothing and leaves room in it. *)
LEMMA FlushedKeeps ==
  ASSUME NEW c \in Contexts, NEW m, Remembers(c, m), c.length = Len(c.blocks)
  PROVE  /\ Flushed(c) \in Contexts /\ Remembers(Flushed(c), m)
         /\ Flushed(c).length = Len(Flushed(c).blocks)
         /\ Flushed(c).partial = IF c.partial = BlockSize THEN 0 ELSE c.partial
<1>1. BlockSize \in Nat \ {0} /\ c.partial \in 0..BlockSize /\ c.length \in Nat
  BY Sha512Assumption DEF Contexts
<1>2. c = [buf |-> c.buf, partial |-> c.partial, length |-> c.length, blocks |-> c.blocks]
  BY DEF Contexts
<1>3. CASE c.partial = BlockSize
  <2> DEFINE d == [buf |-> c.buf, partial |-> 0, length |-> c.length + BlockSize,
                   blocks |-> c.blocks \o c.buf]
  <2>1. Flushed(c) = d
    <3> DEFINE e == Compressed(c, c.buf)
    <3>1. e = [buf |-> c.buf, partial |-> c.partial, length |-> c.length, blocks |-> c.blocks \o c.buf]
      BY CompressedIs
    <3>2. Flushed(c) = [e EXCEPT !.length = @ + BlockSize, !.partial = 0]
      BY <1>1, <1>3 DEF Flushed
    <3> HIDE DEF e
    <3> QED BY <3>1, <3>2
  <2>2. c.length + BlockSize \in Nat
    BY <1>1
  <2>3. d \in Contexts /\ Remembers(d, m) /\ Len(d.blocks) = Len(c.blocks) + BlockSize
    <3>1. d = [buf |-> c.buf, partial |-> 0, length |-> c.length + BlockSize, blocks |-> c.blocks \o c.buf]
      OBVIOUS
    <3> HIDE DEF d
    <3> QED BY <1>3, <2>2, <3>1, FullBlock
  <2>4. d.length = c.length + BlockSize /\ d.partial = 0
    OBVIOUS
  <2> HIDE DEF d
  <2> QED BY <1>1, <1>3, <2>1, <2>3, <2>4
<1>4. CASE c.partial # BlockSize
  BY <1>1, <1>4 DEF Flushed
<1> QED BY <1>3, <1>4

(* util_sha512_update(): what is there is filled up, whole blocks are passed  *)
(* on, and the rest is kept.                                                  *)
LEMMA UpdatedKeeps ==
  ASSUME NEW c \in Contexts, NEW m, Remembers(c, m), c.length = Len(c.blocks), c.partial < BlockSize,
         NEW piece \in Seq(Byte)
  PROVE  LET u == Updated(c, piece)
         IN u \in Contexts /\ Remembers(u, m \o piece) /\ u.length = Len(u.blocks) /\ u.partial < BlockSize
<1> DEFINE n      == Len(piece)
           offset == IF c.partial = 0 THEN 0 ELSE MinOf(Len(piece), BlockSize - c.partial)
           first  == SubSeq(piece, 1, offset)
           filled == IF c.partial = 0 THEN c ELSE Flushed(Buffered(c, first))
           whole  == BlockSize * ((n - offset) \div BlockSize)
           blocks == SubSeq(piece, offset + 1, offset + whole)
           passed == [Compressed(filled, blocks) EXCEPT !.length = @ + whole]
           rest   == SubSeq(piece, offset + whole + 1, n)
           last   == SubSeq(rest, 1, MinOf(Len(rest), BlockSize - passed.partial))
<1>1. BlockSize \in Nat \ {0} /\ c.partial \in 0..(BlockSize - 1) /\ n \in Nat
  BY Sha512Assumption, LenProperties DEF Contexts
<1>2. /\ offset \in Nat /\ offset <= n /\ c.partial + offset <= BlockSize
      /\ c.partial + offset < BlockSize => offset = n \/ c.partial = 0
      /\ c.partial = 0 => offset = 0
  BY <1>1 DEF MinOf
<1> HIDE DEF offset
<1>3. /\ first \in Seq(Byte) /\ Len(first) = offset
  <2>1. SubSeq(piece, 0 + 1, offset) \in Seq(Byte) /\ Len(SubSeq(piece, 0 + 1, offset)) = offset - 0
    BY <1>1, <1>2, Slice
  <2> QED BY <1>2, <2>1
<1>4. /\ filled \in Contexts /\ Remembers(filled, m \o first) /\ filled.length = Len(filled.blocks)
      /\ filled.partial < BlockSize /\ (filled.partial = 0 \/ offset = n)
  <2>1. CASE c.partial = 0
    <3>1. filled = c /\ first = <<>>
      BY <1>2, <2>1, SubSeqEmpty
    <3>2. m \o <<>> = m
      BY MessageOf, Nothing
    <3> QED BY <2>1, <3>1, <3>2, <1>1
  <2>2. CASE c.partial # 0
    <3> DEFINE b == Buffered(c, first)
    <3>1. /\ b \in Contexts /\ Remembers(b, m \o first) /\ b.partial = c.partial + offset
          /\ b.length = Len(b.blocks)
      BY <1>2, <1>3, BufferedKeeps
    <3> HIDE DEF b
    <3>2. /\ Flushed(b) \in Contexts /\ Remembers(Flushed(b), m \o first)
          /\ Flushed(b).length = Len(Flushed(b).blocks)
          /\ Flushed(b).partial = IF b.partial = BlockSize THEN 0 ELSE b.partial
      BY <3>1, FlushedKeeps
    <3>3. filled = Flushed(b)
      BY <2>2 DEF b
    <3>4. Flushed(b).partial < BlockSize /\ (Flushed(b).partial = 0 \/ offset = n)
      BY <1>1, <1>2, <2>2, <3>1, <3>2
    <3> HIDE DEF filled, first, offset
    <3> QED BY <3>2, <3>3, <3>4
  <2> QED BY <2>1, <2>2
<1> HIDE DEF filled, first
<1>5. /\ whole \in Multiples /\ whole \in Nat /\ offset + whole <= n /\ n - (offset + whole) < BlockSize
      /\ offset = n => whole = 0
  <2> DEFINE k == n - offset
  <2>1. k \in Nat
    BY <1>1, <1>2
  <2>2. /\ whole \in Multiples /\ k % BlockSize \in 0..(BlockSize - 1)
        /\ k = whole + (k % BlockSize)
    <3> HIDE DEF k
    <3>1. /\ BlockSize * (k \div BlockSize) \in Multiples /\ k % BlockSize \in 0..(BlockSize - 1)
          /\ k = BlockSize * (k \div BlockSize) + (k % BlockSize)
      BY <2>1, Division
    <3> QED BY <3>1 DEF k
  <2>3. whole \in Nat
    BY <2>2, MultiplesFacts
  <2> HIDE DEF whole
  <2> QED BY <1>1, <1>2, <2>1, <2>2, <2>3
<1> HIDE DEF whole
<1>6. /\ blocks \in Seq(Byte) /\ Len(blocks) = whole
      /\ rest \in Seq(Byte) /\ Len(rest) = n - (offset + whole)
  <2>1. offset + whole \in Nat
    BY <1>2, <1>5
  <2>2. /\ blocks \in Seq(Byte) /\ Len(blocks) = (offset + whole) - offset
    <3>1. offset <= offset + whole /\ offset + whole <= Len(piece)
      BY <1>1, <1>2, <1>5
    <3> QED BY <1>2, <2>1, <3>1, Slice
  <2>3. rest \in Seq(Byte) /\ Len(rest) = n - (offset + whole)
    BY <1>1, <1>5, <2>1, Slice
  <2> QED BY <1>2, <1>5, <2>2, <2>3
<1>7. (first \o blocks) \o rest = piece
  <2>1. offset + whole \in Nat /\ offset + whole \in (offset + 1 - 1)..n /\ offset + 1 \in 1..(n + 1)
    BY <1>1, <1>2, <1>5
  <2>2. first \o blocks = SubSeq(piece, 1, offset + whole)
    <3>1. 1 \in 1..(Len(piece) + 1) /\ offset \in (1 - 1)..Len(piece) /\ offset + whole \in offset..Len(piece)
      BY <1>1, <1>2, <1>5
    <3> QED BY <3>1, ConcatAdjacentSubSeq DEF first
  <2>3. SubSeq(piece, 1, offset + whole) \o rest = SubSeq(piece, 1, n)
    <3>1. 1 \in 1..(Len(piece) + 1) /\ offset + whole \in (1 - 1)..Len(piece) /\ n \in (offset + whole)..Len(piece)
      BY <1>1, <1>2, <1>5
    <3> QED BY <3>1, ConcatAdjacentSubSeq
  <2>4. SubSeq(piece, 1, n) = piece
    BY SubSeqFull
  <2> QED BY <2>2, <2>3, <2>4
<1> HIDE DEF blocks, rest
<1>8. /\ passed \in Contexts /\ Remembers(passed, (m \o first) \o blocks)
      /\ passed.length = Len(passed.blocks) /\ passed.partial = filled.partial
  <2>1. /\ filled.length \in Nat
        /\ filled = [buf |-> filled.buf, partial |-> filled.partial, length |-> filled.length,
                     blocks |-> filled.blocks]
    BY <1>4 DEF Contexts
  <2>2. Compressed(filled, blocks)
          = [buf |-> filled.buf, partial |-> filled.partial, length |-> filled.length,
             blocks |-> filled.blocks \o blocks]
    BY <1>4, CompressedIs
  <2>3. passed = [buf |-> filled.buf, partial |-> filled.partial, length |-> filled.length + whole,
                  blocks |-> filled.blocks \o blocks]
    <3> DEFINE w == filled.blocks \o blocks
               e == Compressed(filled, blocks)
    <3>1. e = [buf |-> filled.buf, partial |-> filled.partial, length |-> filled.length, blocks |-> w]
      BY <2>2
    <3> HIDE DEF w, e
    <3>2. [e EXCEPT !.length = @ + whole]
            = [buf |-> filled.buf, partial |-> filled.partial, length |-> filled.length + whole, blocks |-> w]
      BY <3>1
    <3> QED BY <3>2 DEF w, e
  <2>4. blocks = <<>> \/ filled.partial = 0
    BY <1>4, <1>5, <1>6, EmptySeq
  <2>5. filled.length + whole \in Nat /\ Len(blocks) \in Multiples
    BY <1>5, <1>6, <2>1
  <2> HIDE DEF passed
  <2>6. passed \in Contexts /\ Remembers(passed, (m \o first) \o blocks)
        /\ Len(passed.blocks) = Len(filled.blocks) + Len(blocks)
    <3> DEFINE total == filled.length + whole
               before == m \o first
    <3>1. /\ total \in Nat /\ Remembers(filled, before)
          /\ passed = Passed(filled, blocks, total)
      BY <1>4, <2>3, <2>5 DEF Passed
    <3> HIDE DEF total, before
    <3>2. passed \in Contexts /\ Remembers(passed, before \o blocks)
          /\ Len(passed.blocks) = Len(filled.blocks) + Len(blocks)
      <4>1. filled \in Contexts /\ blocks \in Seq(Byte) /\ Len(blocks) \in Multiples
            /\ (filled.partial = 0 \/ blocks = <<>>)
        BY <1>4, <1>6, <2>4, <2>5
      <4> QED BY <4>1, <3>1, WholeBlocks
    <3> QED BY <3>2 DEF before
  <2> QED BY <1>4, <1>6, <2>3, <2>6
<1> HIDE DEF passed
<1>9. last = rest /\ passed.partial + Len(rest) < BlockSize /\ passed.partial + Len(rest) <= BlockSize
  <2>0. /\ filled.partial \in Nat /\ filled.partial < BlockSize /\ passed.partial = filled.partial
        /\ Len(rest) = n - (offset + whole) /\ (filled.partial = 0 \/ offset = n)
    BY <1>1, <1>4, <1>6, <1>8 DEF Contexts
  <2>1. passed.partial + Len(rest) < BlockSize
    BY <1>1, <1>2, <1>5, <2>0
  <2>2. MinOf(Len(rest), BlockSize - passed.partial) = Len(rest)
    BY <1>1, <1>2, <1>5, <2>0, <2>1 DEF MinOf
  <2> QED BY <1>1, <1>2, <1>5, <1>6, <2>0, <2>1, <2>2, SubSeqFull
<1> DEFINE u == Buffered(passed, rest)
<1>10. /\ u \in Contexts /\ Remembers(u, ((m \o first) \o blocks) \o rest)
       /\ u.partial = passed.partial + Len(rest) /\ u.length = passed.length /\ u.blocks = passed.blocks
  BY <1>6, <1>8, <1>9, BufferedKeeps
<1>11. ((m \o first) \o blocks) \o rest = m \o piece
  <2>1. m \in Seq(Byte) /\ first \in Seq(Byte) /\ blocks \in Seq(Byte) /\ rest \in Seq(Byte)
    BY <1>3, <1>6, MessageOf
  <2> DEFINE fb == first \o blocks
  <2>2. fb \in Seq(Byte) /\ (m \o first) \o blocks = m \o fb
    <3>1. fb \in Seq(Byte)
      BY <2>1, Join
    <3>2. (m \o first) \o blocks = m \o fb
      BY <2>1, Regroup, ZenonT(40)
    <3> QED BY <3>1, <3>2
  <2> HIDE DEF fb
  <2>3. (m \o fb) \o rest = m \o (fb \o rest)
    BY <2>1, <2>2, Regroup, ZenonT(40)
  <2>4. fb \o rest = piece
    BY <1>7 DEF fb
  <2> QED BY <2>2, <2>3, <2>4
<1>12. Updated(c, piece) = u
  BY <1>9 DEF Updated, passed, rest, blocks, whole, filled, first, offset
<1> HIDE DEF u
<1> QED BY <1>8, <1>9, <1>10, <1>11, <1>12

(* Zeros. *)
Zs(k) == [j \in 1..k |-> Zero]

LEMMA ZerosFacts ==
  ASSUME NEW k \in Nat
  PROVE  Zs(k) \in Seq(Byte) /\ Len(Zs(k)) = k /\ \A j \in 1..k : Zs(k)[j] = Zero
<1>1. Zs(k) \in [1..k -> Byte]
  BY DEF Zs, Byte
<1>2. Zs(k) \in Seq(Byte) /\ Len(Zs(k)) = k
  BY <1>1
<1> QED BY <1>2 DEF Zs

LEMMA ZerosAdd ==
  ASSUME NEW k \in Nat, NEW l \in Nat
  PROVE  Zs(k) \o Zs(l) = Zs(k + l)
<1> DEFINE a == Zs(k)
           b == Zs(l)
           ab == Zs(k + l)
<1>1. /\ a \in Seq(Byte) /\ Len(a) = k /\ \A j \in 1..k : a[j] = Zero
      /\ b \in Seq(Byte) /\ Len(b) = l /\ \A j \in 1..l : b[j] = Zero
      /\ ab \in Seq(Byte) /\ Len(ab) = k + l /\ \A j \in 1..(k + l) : ab[j] = Zero
  BY ZerosFacts
<1> HIDE DEF a, b, ab
<1> DEFINE c == a \o b
<1>2. /\ c \in Seq(Byte) /\ Len(c) = k + l
      /\ \A j \in 1..k : c[j] = Zero
      /\ \A j \in 1..l : c[k + j] = Zero
  BY <1>1, Join
<1> HIDE DEF c
<1>3. ASSUME NEW i \in 1..(k + l) PROVE c[i] = Zero
  <2>1. CASE i <= k
    BY <1>2, <2>1
  <2>2. CASE ~(i <= k)
    <3> DEFINE j == i - k
    <3>1. j \in 1..l /\ i = k + j
      BY <2>2
    <3> HIDE DEF j
    <3> QED BY <3>1, <1>2
  <2> QED BY <2>1, <2>2
<1>4. c = ab
  <2>1. Len(c) = Len(ab) /\ \A i \in 1..Len(c) : c[i] = ab[i]
    BY <1>1, <1>2, <1>3
  <2> QED BY <1>1, <1>2, <2>1, SeqEqual
<1> QED BY <1>4 DEF a, b, ab, c

(* The length is written as a number of bytes of its own. *)
LEMMA LengthFacts ==
  ASSUME NEW n \in Nat
  PROVE  Length(n) \in Seq(Byte) /\ Len(Length(n)) = LengthSize
<1>1. LengthSize \in Nat
  BY Sha512Assumption
<1>2. Length(n) \in [1..LengthSize -> Byte]
  BY <1>1 DEF Length, Byte
<1> QED BY <1>1, <1>2

(* util_sha512_final(): a one, zeros up to the end of a block when the length *)
(* does not fit into it, zeros up to the length, and the length.              *)
LEMMA FinishedPads ==
  ASSUME NEW c \in Contexts, NEW m, Remembers(c, m), c.length = Len(c.blocks), c.partial < BlockSize
  PROVE  Finished(c) \in Contexts /\ Finished(c).blocks = PaddedMessage(m)
<1> DEFINE counted == [c EXCEPT !.length = @ + c.partial]
           marked  == Buffered(counted, <<One>>)
           closed  == Zeros(marked, BlockSize)
           opened  == IF marked.partial > BlockSize - 2 * LengthSize
                      THEN [Compressed(closed, closed.buf) EXCEPT !.partial = 0] ELSE marked
           zeros   == Zeros(opened, BlockSize - LengthSize)
           m1      == m \o <<One>>
           k1      == IF marked.partial > BlockSize - 2 * LengthSize THEN BlockSize - marked.partial ELSE 0
           k2      == BlockSize - LengthSize - opened.partial
<1>1. /\ BlockSize \in Nat /\ LengthSize \in Nat \ {0} /\ BlockSize > 2 * LengthSize
      /\ c.partial \in Nat /\ c.partial < BlockSize /\ c.length \in Nat
      /\ m \in Seq(Byte) /\ Len(m) = c.length + c.partial
  BY Sha512Assumption, MessageOf DEF Contexts
<1>2. /\ counted \in Contexts /\ Remembers(counted, m) /\ counted.length = Len(m) /\ counted.partial = c.partial
      /\ counted.blocks = c.blocks
  <2>1. c = [buf |-> c.buf, partial |-> c.partial, length |-> c.length, blocks |-> c.blocks]
    BY DEF Contexts
  <2>2. counted = [buf |-> c.buf, partial |-> c.partial, length |-> Len(m), blocks |-> c.blocks]
    BY <1>1, <2>1
  <2> HIDE DEF counted
  <2>3. counted \in Contexts
    BY <1>1, <2>2 DEF Contexts
  <2> QED BY <2>2, <2>3 DEF Remembers, Held
<1> HIDE DEF counted
<1>3. /\ marked \in Contexts /\ Remembers(marked, m1) /\ marked.partial = c.partial + 1
      /\ marked.length = Len(m) /\ marked.blocks = c.blocks
  <2>1. <<One>> \in Seq(Byte) /\ Len(<<One>>) = 1
    BY DEF Byte
  <2>2. counted.partial + Len(<<One>>) <= BlockSize
    BY <1>1, <1>2, <2>1
  <2> DEFINE one == <<One>>
  <2> HIDE DEF one
  <2>3. /\ Buffered(counted, one) \in Contexts /\ Remembers(Buffered(counted, one), m \o one)
        /\ Buffered(counted, one).partial = counted.partial + Len(one)
        /\ Buffered(counted, one).length = counted.length /\ Buffered(counted, one).blocks = counted.blocks
    BY <1>2, <2>1, <2>2, BufferedKeeps DEF one
  <2> QED BY <1>2, <2>1, <2>3 DEF one
<1>4. m1 \in Seq(Byte)
  BY <1>3, MessageOf
<1> HIDE DEF marked, m1
<1>5. /\ opened \in Contexts /\ Remembers(opened, m1 \o Zs(k1)) /\ opened.length = Len(m)
      /\ k1 \in Nat /\ opened.partial \in Nat /\ opened.partial <= BlockSize - 2 * LengthSize
      /\ opened.partial = IF c.partial + 1 > BlockSize - 2 * LengthSize THEN 0 ELSE c.partial + 1
  <2>1. CASE marked.partial > BlockSize - 2 * LengthSize
    <3>1. k1 = BlockSize - marked.partial /\ k1 \in Nat /\ marked.partial + k1 = BlockSize
      BY <1>1, <1>3, <2>1
    <3>2. closed = Buffered(marked, Zs(k1))
      BY <3>1 DEF Zeros, Zs
    <3> HIDE DEF closed, k1
    <3>3. Zs(k1) \in Seq(Byte) /\ Len(Zs(k1)) = k1
      BY <3>1, ZerosFacts
    <3>4. /\ closed \in Contexts /\ Remembers(closed, m1 \o Zs(k1)) /\ closed.partial = BlockSize
          /\ closed.length = Len(m)
      <4> DEFINE z == Zs(k1)
      <4>1. /\ z \in Seq(Byte) /\ Len(z) = k1 /\ marked.partial + Len(z) <= BlockSize
            /\ marked.partial + Len(z) = BlockSize /\ closed = Buffered(marked, z)
        BY <1>1, <3>1, <3>2, <3>3
      <4> HIDE DEF z
      <4>2. /\ closed \in Contexts /\ Remembers(closed, m1 \o z)
            /\ closed.partial = marked.partial + Len(z) /\ closed.length = marked.length
        BY <1>3, <4>1, BufferedKeeps
      <4> QED BY <1>3, <4>1, <4>2 DEF z
    <3>5. closed.length \in Nat
      BY <3>4 DEF Contexts
    <3> DEFINE d == [buf |-> closed.buf, partial |-> 0, length |-> closed.length,
                     blocks |-> closed.blocks \o closed.buf]
    <3>6. opened = d
      <4> DEFINE w == closed.blocks \o closed.buf
                 e == Compressed(closed, closed.buf)
      <4>1. e = [buf |-> closed.buf, partial |-> closed.partial, length |-> closed.length, blocks |-> w]
        BY <3>4, CompressedIs
      <4> HIDE DEF w, e
      <4>2. [e EXCEPT !.partial = 0] = [buf |-> closed.buf, partial |-> 0, length |-> closed.length, blocks |-> w]
        BY <4>1
      <4> QED BY <2>1, <4>2 DEF w, e
    <3>7. d \in Contexts /\ Remembers(d, m1 \o Zs(k1))
      <4>1. d = [buf |-> closed.buf, partial |-> 0, length |-> closed.length,
                 blocks |-> closed.blocks \o closed.buf]
        OBVIOUS
      <4> HIDE DEF d
      <4> QED BY <3>4, <3>5, <4>1, FullBlock
    <3>8. d.partial = 0 /\ d.length = closed.length
      OBVIOUS
    <3> HIDE DEF d, opened
    <3> QED BY <1>1, <1>3, <2>1, <3>1, <3>4, <3>6, <3>7, <3>8
  <2>2. CASE ~(marked.partial > BlockSize - 2 * LengthSize)
    <3>1. opened = marked /\ k1 = 0
      BY <2>2
    <3>2. Zs(0) = <<>>
      BY ZerosFacts, EmptySeq
    <3>3. m1 \o Zs(k1) = m1
      BY <1>4, <3>1, <3>2, Nothing
    <3> DEFINE z == m1 \o Zs(k1)
    <3>4. z = m1
      BY <3>3
    <3> HIDE DEF opened, k1, z
    <3>5. opened \in Contexts /\ Remembers(opened, z) /\ opened.length = Len(m)
      BY <1>3, <3>1, <3>4
    <3>6. /\ k1 \in Nat /\ opened.partial \in Nat /\ opened.partial <= BlockSize - 2 * LengthSize
          /\ opened.partial = IF c.partial + 1 > BlockSize - 2 * LengthSize THEN 0 ELSE c.partial + 1
      BY <1>1, <1>3, <2>2, <3>1
    <3> QED BY <3>5, <3>6 DEF z
  <2> QED BY <2>1, <2>2
<1>6. k1 = IF c.partial + 1 > BlockSize - 2 * LengthSize THEN BlockSize - (c.partial + 1) ELSE 0
  BY <1>3
<1> HIDE DEF opened, k1
<1>7. k2 \in Nat /\ opened.partial + k2 = BlockSize - LengthSize
  BY <1>1, <1>5
<1> DEFINE m2 == m1 \o Zs(k1)
           m3 == m2 \o Zs(k2)
<1>8. /\ zeros \in Contexts /\ Remembers(zeros, m3) /\ zeros.partial = BlockSize - LengthSize
      /\ zeros.length = Len(m)
  <2>1. zeros = Buffered(opened, Zs(k2))
    BY DEF Zeros, Zs
  <2> HIDE DEF zeros, k2
  <2>2. Zs(k2) \in Seq(Byte) /\ Len(Zs(k2)) = k2 /\ opened.partial + k2 <= BlockSize
    BY <1>1, <1>7, ZerosFacts
  <2> HIDE DEF m2
  <2>3. Remembers(opened, m2)
    BY <1>5 DEF m2
  <2> QED BY <1>5, <1>7, <2>1, <2>2, <2>3, BufferedKeeps
<1> HIDE DEF zeros, k2
<1>9. /\ Finished(c) \in Contexts /\ Finished(c).blocks = m3 \o Length(Len(m))
  <2> DEFINE h == Held(zeros)
             l == Length(Len(m))
             f == Compressed(zeros, h \o l)
  <2>1. Finished(c) = f
    BY <1>8 DEF Finished, Held, zeros, opened, closed, marked, counted
  <2>2. h \in Seq(Byte) /\ l \in Seq(Byte) /\ zeros.blocks \in Seq(Byte) /\ zeros.partial \in 0..BlockSize
        /\ zeros.buf \in [1..BlockSize -> Byte] /\ zeros.length \in Nat
    BY <1>1, <1>8, HeldFacts, LengthFacts DEF Contexts
  <2>3. m3 = zeros.blocks \o h
    BY <1>8 DEF Remembers
  <2> HIDE DEF h, l, m3
  <2>4. h \o l \in Seq(Byte) /\ zeros.blocks \o (h \o l) = (zeros.blocks \o h) \o l
        /\ zeros.blocks \o (h \o l) \in Seq(Byte)
    <3>1. h \o l \in Seq(Byte)
      BY <2>2, Join
    <3>2. zeros.blocks \o (h \o l) = (zeros.blocks \o h) \o l
      BY <2>2, Regroup
    <3>3. zeros.blocks \o (h \o l) \in Seq(Byte)
      BY <2>2, <3>1, Join
    <3> QED BY <3>1, <3>2, <3>3
  <2>5. f = [buf |-> zeros.buf, partial |-> zeros.partial, length |-> zeros.length,
             blocks |-> zeros.blocks \o (h \o l)]
    BY <1>8, CompressedIs
  <2> HIDE DEF f
  <2>6. f \in Contexts /\ f.blocks = zeros.blocks \o (h \o l)
    BY <2>2, <2>4, <2>5 DEF Contexts
  <2> QED BY <2>1, <2>3, <2>4, <2>6 DEF l
<1>10. m3 = m1 \o Zs(k1 + k2)
  <2>1. Zs(k1) \in Seq(Byte) /\ Zs(k2) \in Seq(Byte) /\ Zs(k1) \o Zs(k2) = Zs(k1 + k2)
    BY <1>5, <1>7, ZerosFacts, ZerosAdd
  <2> DEFINE z1 == Zs(k1)
             z2 == Zs(k2)
  <2>2. z1 \in Seq(Byte) /\ z2 \in Seq(Byte) /\ z1 \o z2 = Zs(k1 + k2)
    BY <2>1
  <2> HIDE DEF z1, z2
  <2>3. (m1 \o z1) \o z2 = m1 \o (z1 \o z2)
    BY <1>4, <2>2, Regroup
  <2> QED BY <2>2, <2>3 DEF z1, z2
<1>11. PaddedMessage(m) = (m1 \o Zs(k1 + k2)) \o Length(Len(m))
  <2> DEFINE over == (Len(m) + 1 + 2 * LengthSize) % BlockSize
             fill == IF over = 0 THEN 0 ELSE BlockSize - over
  <2>1. k1 + k2 = fill + LengthSize
    <3> DEFINE r == c.partial + 1 + 2 * LengthSize
    <3>1. c.length \in Multiples
      BY DEF Remembers
    <3>2. Len(m) + 1 + 2 * LengthSize = c.length + r
      BY <1>1
    <3>0. /\ opened.partial = IF c.partial + 1 > BlockSize - 2 * LengthSize THEN 0 ELSE c.partial + 1
          /\ opened.partial + k2 = BlockSize - LengthSize /\ k2 \in Nat
      BY <1>5, <1>7
    <3>5. k1 + k2 = IF c.partial + 1 > BlockSize - 2 * LengthSize
                     THEN (BlockSize - (c.partial + 1)) + (BlockSize - LengthSize)
                     ELSE (BlockSize - LengthSize) - (c.partial + 1)
      BY <1>1, <1>6, <3>0
    <3>6. r \in Nat /\ r > 0 /\ r < 2 * BlockSize
          /\ k1 + k2 = IF r > BlockSize THEN (2 * BlockSize + LengthSize) - r ELSE (BlockSize + LengthSize) - r
      <4>1. r \in Nat /\ r > 0 /\ r < 2 * BlockSize
        BY <1>1
      <4>2. (r > BlockSize) <=> (c.partial + 1 > BlockSize - 2 * LengthSize)
        BY <1>1
      <4>3. (BlockSize - (c.partial + 1)) + (BlockSize - LengthSize) = (2 * BlockSize + LengthSize) - r
            /\ (BlockSize - LengthSize) - (c.partial + 1) = (BlockSize + LengthSize) - r
        BY <1>1
      <4> HIDE DEF r
      <4> QED BY <3>5, <4>1, <4>2, <4>3
    <3> HIDE DEF r
    <3>3. CASE r < BlockSize
      <4> DEFINE q == r
                 l == c.length
      <4>1. q \in 0..(BlockSize - 1) /\ Len(m) + 1 + 2 * LengthSize = l + q
        BY <1>1, <3>2, <3>6, <3>3
      <4>2. l \in Multiples
        BY <3>1
      <4> HIDE DEF q, l
      <4>3. (l + q) % BlockSize = q
        BY <4>1, <4>2, DivisionUnique
      <4>4. over = q
        BY <4>1, <4>3
      <4> HIDE DEF over
      <4>5. fill = BlockSize - r
        BY <1>1, <3>6, <4>4 DEF q
      <4> HIDE DEF fill
      <4> QED BY <1>1, <3>6, <3>3, <4>5
    <3>4. CASE r >= BlockSize
      <4> DEFINE q == r - BlockSize
                 l == c.length + BlockSize
      <4>1. q \in 0..(BlockSize - 1) /\ Len(m) + 1 + 2 * LengthSize = l + q
        BY <1>1, <3>2, <3>6, <3>4
      <4>2. l \in Multiples
        BY <3>1, MultiplesFacts
      <4> HIDE DEF q, l
      <4>3. (l + q) % BlockSize = q
        BY <4>1, <4>2, DivisionUnique
      <4>4. over = q
        BY <4>1, <4>3
      <4> HIDE DEF over
      <4>5. fill = IF r = BlockSize THEN 0 ELSE 2 * BlockSize - r
        <5>1. over = r - BlockSize
          BY <4>4 DEF q
        <5> HIDE DEF over
        <5>2. CASE r = BlockSize
          BY <1>1, <3>6, <5>1, <5>2
        <5>3. CASE r # BlockSize
          <6>1. over # 0
            BY <1>1, <3>6, <5>1, <5>3
          <6>2. fill = BlockSize - over
            BY <6>1
          <6> HIDE DEF fill
          <6> QED BY <1>1, <3>6, <5>1, <5>3, <6>2
        <5> QED BY <5>2, <5>3
      <4> HIDE DEF fill
      <4> QED BY <1>1, <3>6, <3>4, <4>5
    <3> QED BY <3>3, <3>4, <3>6, <1>1
  <2>2. PaddedMessage(m) = (m1 \o Zs(fill + LengthSize)) \o Length(Len(m))
    BY DEF PaddedMessage, Zs, m1
  <2> HIDE DEF fill
  <2> QED BY <2>1, <2>2
<1> QED BY <1>9, <1>10, <1>11

(* The first bytes of two sequences put together. *)
LEMMA FirstBytes ==
  ASSUME NEW s \in Seq(Byte), NEW t \in Seq(Byte)
  PROVE  SubSeq(s \o t, 1, Len(s)) = s
<1>1. s \o t \in Seq(Byte) /\ Len(s \o t) = Len(s) + Len(t) /\ Len(s) \in Nat /\ Len(t) \in Nat
      /\ \A i \in 1..Len(s) : (s \o t)[i] = s[i]
  BY Join
<1> DEFINE st == s \o t
           n  == Len(s)
           f  == SubSeq(st, 0 + 1, n)
<1>2. st \in Seq(Byte) /\ n \in Nat /\ n <= Len(st)
  BY <1>1
<1>3. n = Len(s) /\ \A i \in 1..n : st[i] = s[i]
  BY <1>1
<1> HIDE DEF st, n
<1>4. f \in Seq(Byte) /\ Len(f) = n - 0 /\ \A i \in 1..(n - 0) : f[i] = st[0 + i]
  BY <1>2, Slice
<1>5. f = s
  <2> HIDE DEF f
  <2>1. Len(f) = Len(s) /\ \A i \in 1..Len(f) : f[i] = s[i]
    BY <1>2, <1>3, <1>4
  <2> QED BY <1>4, <2>1, SeqEqual
<1> QED BY <1>5 DEF f, st, n

(* The invariant: at first, in each step, and what it says of the blocks. *)
LEMMA ShaInitially == ShaInit => ShaInv
<1> SUFFICES ASSUME ShaInit PROVE ShaInv
  OBVIOUS
<1>1. BlockSize \in Nat /\ BlockSize > 0
  BY Sha512Assumption
<1>2. sha \in Contexts /\ sha.partial = 0 /\ sha.length = 0 /\ sha.blocks = <<>>
  BY <1>1, EmptySeq DEF ShaInit, Contexts, Byte
<1>3. Held(sha) = <<>>
  BY <1>2, HeldFacts
<1>4. message = <<>> /\ message \in Seq(Nat) /\ final = FALSE
  BY EmptySeq DEF ShaInit
<1>5. <<>> \o <<>> = <<>> /\ Len(<<>>) = 0
  BY Nothing, EmptySeq
<1>6. Remembers(sha, message)
  BY <1>2, <1>3, <1>4, <1>5, MultiplesFacts DEF Remembers
<1> QED BY <1>1, <1>2, <1>4, <1>5, <1>6 DEF ShaInv

LEMMA ShaSteps == ShaInv /\ [ShaNext]_shaVars => ShaInv'
<1> SUFFICES ASSUME ShaInv, [ShaNext]_shaVars PROVE ShaInv'
  OBVIOUS
<1>1. CASE Update
  <2>1. sha \in Contexts /\ sha.partial < BlockSize /\ Remembers(sha, message) /\ sha.length = Len(sha.blocks)
        /\ message \in Seq(Nat) /\ ~final /\ final' = final
    BY <1>1 DEF Update, ShaInv
  <2>2. PICK n \in 0..MaxPiece :
          LET piece == [j \in 1..n |-> Len(message) + j]
          IN sha' = Updated(sha, piece) /\ message' = message \o piece
    BY <1>1 DEF Update
  <2> DEFINE piece == [j \in 1..n |-> Len(message) + j]
  <2>3. n \in Nat /\ Len(message) \in Nat
    BY <2>1, LenProperties
  <2>4. piece \in Seq(Nat) /\ piece \in Seq(Byte)
    <3>1. piece \in [1..n -> Nat]
      BY <2>3
    <3>2. Nat \subseteq Byte
      BY DEF Byte
    <3>3. piece \in Seq(Nat)
      BY <2>3, <3>1
    <3> QED BY <3>2, <3>3, SeqMonotonic
  <2>5. sha' = Updated(sha, piece) /\ message' = message \o piece
    BY <2>2
  <2> HIDE DEF piece
  <2>6. message' \in Seq(Nat)
    BY <2>1, <2>4, <2>5, ConcatProperties
  <2> DEFINE u == Updated(sha, piece)
  <2>7. u \in Contexts /\ Remembers(u, message \o piece) /\ u.length = Len(u.blocks) /\ u.partial < BlockSize
    BY <2>1, <2>4, UpdatedKeeps
  <2> HIDE DEF u
  <2>8. sha' = u
    BY <2>5 DEF u
  <2>9. sha' \in Contexts /\ Remembers(sha', message') /\ sha'.length = Len(sha'.blocks)
        /\ sha'.partial < BlockSize
    BY <2>5, <2>7, <2>8
  <2> QED BY <2>1, <2>6, <2>9 DEF ShaInv, Remembers, Held
<1>2. CASE Final
  <2>1. sha \in Contexts /\ sha.partial < BlockSize /\ Remembers(sha, message) /\ sha.length = Len(sha.blocks)
        /\ message \in Seq(Nat) /\ sha' = Finished(sha) /\ message' = message /\ final' = TRUE
    BY <1>2 DEF Final, ShaInv
  <2>2. Finished(sha) \in Contexts /\ Finished(sha).blocks = PaddedMessage(message)
    BY <2>1, FinishedPads
  <2> QED BY <2>1, <2>2 DEF ShaInv
<1>3. CASE UNCHANGED shaVars
  BY <1>3 DEF ShaInv, shaVars, Remembers, Held
<1> QED BY <1>1, <1>2, <1>3 DEF ShaNext

LEMMA ShaInvPads == ShaInv => Padded
<1> SUFFICES ASSUME ShaInv PROVE Padded
  OBVIOUS
<1>1. CASE final
  BY <1>1 DEF ShaInv, Padded
<1>2. CASE ~final
  <2> DEFINE d == Len(sha.blocks)
             r == sha.partial
             h == Held(sha)
  <2>1. /\ sha \in Contexts /\ r \in 0..(BlockSize - 1) /\ Remembers(sha, message)
        /\ sha.blocks \in Seq(Byte)
    BY <1>2, Sha512Assumption DEF ShaInv, Contexts
  <2>2. d \in Multiples /\ message = sha.blocks \o h
    BY <2>1 DEF Remembers
  <2>3. h \in Seq(Byte) /\ Len(message) = d + r
    BY <2>1, HeldFacts, MessageOf
  <2> HIDE DEF d, r, h
  <2>4. BlockSize * ((d + r) \div BlockSize) = d
    BY <2>1, <2>2, DivisionUnique
  <2>5. SubSeq(message, 1, d) = sha.blocks
    BY <2>1, <2>2, <2>3, FirstBytes DEF d
  <2>6. BlockSize * (Len(message) \div BlockSize) = d
    BY <2>3, <2>4
  <2> QED BY <1>2, <2>5, <2>6 DEF Padded
<1> QED BY <1>1, <1>2

(* What is compressed is the message in whole blocks and, at the end, the     *)
(* padded message, for every size of blocks and every way to cut it           *)
(* (util_sha512_update(), util_sha512_final()).                               *)
THEOREM HashIsPadded == ShaSpec => []Padded
<1>1. ShaSpec => []ShaInv
  BY ShaInitially, ShaSteps, PTL DEF ShaSpec
<1> QED BY <1>1, ShaInvPads, PTL

-------------------------------------------------------------------------------
(* The random numbers. *)

Counters == [1..3 -> 0..(WordSize - 1)]

(* The numbers that the two words of the counter make which a stir leaves. *)
Round == WordSize * WordSize
Numbered(w) == w[1] + WordSize * w[2]

(* The third word of block q, when it was first for the block before the others. *)
Third(first, q) == (first + (q \div Round)) % WordSize

StreamBytes == (SUBSET Seeds) \X Counters \X (1..Block)
Generators ==
  [key : SUBSET Seeds, words : Counters, partial : 0..(Block - 1), buf : [1..Block -> StreamBytes]]

Stirs == [after : Nat, seeds : SUBSET Seeds]

(* A word of the counter goes round. *)
LEMMA IncFacts ==
  ASSUME NEW v \in 0..(WordSize - 1)
  PROVE  /\ Inc(v) \in 0..(WordSize - 1)
         /\ Inc(v) = 0 <=> v = WordSize - 1
         /\ v # WordSize - 1 => Inc(v) = v + 1
<1>1. WordSize \in Nat \ {0, 1}
  BY RandAssumption
<1>2. CASE v = WordSize - 1
  <2>1. Inc(v) = WordSize % WordSize
    BY <1>1, <1>2 DEF Inc
  <2>2. WordSize % WordSize = 0
    BY <1>1
  <2> QED BY <1>1, <1>2, <2>1, <2>2
<1>3. CASE v # WordSize - 1
  <2>1. v + 1 \in 1..(WordSize - 1)
    BY <1>1, <1>3
  <2>2. (v + 1) % WordSize = v + 1
    BY <1>1, <2>1
  <2> QED BY <1>1, <1>3, <2>1, <2>2 DEF Inc
<1> QED BY <1>2, <1>3

(* The counter counts: the first two words make the next number, and the third *)
(* takes their carry.                                                          *)
LEMMA CountedFacts ==
  ASSUME NEW w \in Counters
  PROVE  /\ Counted(w) \in Counters
         /\ Numbered(w) \in 0..(Round - 1) /\ Round \in Nat \ {0}
         /\ Numbered(w) = Round - 1 =>
              Numbered(Counted(w)) = 0 /\ Counted(w)[3] = Inc(w[3])
         /\ Numbered(w) # Round - 1 =>
              Numbered(Counted(w)) = Numbered(w) + 1 /\ Counted(w)[3] = w[3]
<1> DEFINE W == WordSize
           a == w[1]
           b == w[2]
           c == w[3]
<1>1. W \in Nat \ {0, 1}
  BY RandAssumption
<1>2. a \in 0..(W - 1) /\ b \in 0..(W - 1) /\ c \in 0..(W - 1)
  BY DEF Counters
<1>3. /\ Inc(a) \in 0..(W - 1) /\ Inc(b) \in 0..(W - 1) /\ Inc(c) \in 0..(W - 1)
      /\ Inc(a) = 0 <=> a = W - 1
      /\ Inc(b) = 0 <=> b = W - 1
      /\ a # W - 1 => Inc(a) = a + 1
      /\ b # W - 1 => Inc(b) = b + 1
  <2> HIDE DEF a, b, c
  <2> QED BY <1>2, IncFacts
<1>4. /\ Counted(w)[1] = Inc(a)
      /\ Counted(w)[2] = IF Inc(a) = 0 THEN Inc(b) ELSE b
      /\ Counted(w)[3] = IF Inc(a) = 0 /\ Inc(b) = 0 THEN Inc(c) ELSE c
  BY DEF Counted
<1>5. Counted(w) \in Counters
  <2> DEFINE y == IF Inc(a) = 0 THEN Inc(b) ELSE b
             z == IF Inc(a) = 0 /\ Inc(b) = 0 THEN Inc(c) ELSE c
  <2>1. Counted(w) = <<Inc(a), y, z>>
    BY DEF Counted
  <2>2. y \in 0..(W - 1) /\ z \in 0..(W - 1)
    BY <1>2, <1>3
  <2> HIDE DEF y, z, a, b, c, W
  <2> DEFINE i == Inc(a)
  <2>3. i \in 0..(W - 1)
    BY <1>3
  <2> HIDE DEF i
  <2>4. <<i, y, z>> \in [1..3 -> 0..(W - 1)]
    BY <2>2, <2>3
  <2> QED BY <2>1, <2>4 DEF i, W, Counters
<1>6. /\ Numbered(w) = a + W * b /\ Round = W * W
      /\ Numbered(Counted(w)) = Inc(a) + W * (IF Inc(a) = 0 THEN Inc(b) ELSE b)
  BY <1>4 DEF Numbered, Round
<1> HIDE DEF a, b, c, W
<1>7. W * b <= W * (W - 1) /\ W * (W - 1) = W * W - W /\ W * W \in Nat \ {0} /\ W * b \in Nat
  BY <1>1, <1>2
<1>8. b # W - 1 => W * b <= W * (W - 2) /\ W * (W - 2) = W * W - 2 * W
  BY <1>1, <1>2
<1>9. Numbered(w) \in 0..(Round - 1) /\ Round \in Nat \ {0}
  BY <1>1, <1>2, <1>6, <1>7
<1>10. Numbered(w) = Round - 1 <=> a = W - 1 /\ b = W - 1
  BY <1>1, <1>2, <1>6, <1>7, <1>8
<1>11. Numbered(w) = Round - 1 => Numbered(Counted(w)) = 0 /\ Counted(w)[3] = Inc(c)
  <2> SUFFICES ASSUME a = W - 1, b = W - 1 PROVE Numbered(Counted(w)) = 0 /\ Counted(w)[3] = Inc(c)
    BY <1>10
  <2>1. Inc(a) = 0 /\ Inc(b) = 0
    BY <1>3
  <2> QED BY <2>1, <1>1, <1>4, <1>6
<1>12. ASSUME Numbered(w) # Round - 1
       PROVE  Numbered(Counted(w)) = Numbered(w) + 1 /\ Counted(w)[3] = c
  <2>1. ~(Inc(a) = 0 /\ Inc(b) = 0)
    BY <1>3, <1>10, <1>12
  <2>2. CASE Inc(a) = 0
    <3>1. a = W - 1 /\ Inc(b) = b + 1
      BY <2>1, <2>2, <1>3
    <3>2. W * (b + 1) = W * b + W
      BY <1>1, <1>2
    <3> QED BY <2>1, <2>2, <3>1, <3>2, <1>1, <1>2, <1>4, <1>6, <1>7
  <2>3. CASE Inc(a) # 0
    <3>1. Inc(a) = a + 1
      BY <2>3, <1>3
    <3> QED BY <2>3, <3>1, <1>1, <1>2, <1>4, <1>6, <1>7
  <2> QED BY <2>2, <2>3
<1> QED BY <1>5, <1>9, <1>11, <1>12 DEF c

(* So it numbers the blocks. *)
LEMMA CountedNext ==
  ASSUME NEW w \in Counters, NEW q \in Nat, Numbered(w) = q % Round
  PROVE  /\ Numbered(Counted(w)) = (q + 1) % Round
         /\ \A first \in 0..(WordSize - 1) :
              w[3] = Third(first, q) => Counted(w)[3] = Third(first, q + 1)
<1>1. Round \in Nat \ {0} /\ WordSize \in Nat \ {0, 1}
  BY CountedFacts, RandAssumption
<1>2. /\ q % Round = Round - 1 =>
           (q + 1) % Round = 0 /\ (q + 1) \div Round = (q \div Round) + 1
      /\ q % Round # Round - 1 =>
           (q + 1) % Round = (q % Round) + 1 /\ (q + 1) \div Round = q \div Round
  BY <1>1, Following
<1>3. ASSUME NEW first \in 0..(WordSize - 1), w[3] = Third(first, q)
      PROVE  Counted(w)[3] = Third(first, q + 1)
  <2>1. CASE q % Round = Round - 1
    <3> DEFINE n == first + (q \div Round)
    <3>1. q \div Round \in Nat
      BY <1>1
    <3>2. n \in Nat /\ n + 1 = first + ((q + 1) \div Round)
      BY <3>1, <1>1, <1>2, <2>1
    <3>3. w[3] = n % WordSize /\ Third(first, q + 1) = (n + 1) % WordSize
      BY <1>3, <3>2 DEF Third
    <3> HIDE DEF n
    <3>4. n % WordSize \in 0..(WordSize - 1)
      BY <1>1, <3>2
    <3>5. Inc(n % WordSize) = (n + 1) % WordSize
      <4>1. /\ n % WordSize = WordSize - 1 => (n + 1) % WordSize = 0
            /\ n % WordSize # WordSize - 1 => (n + 1) % WordSize = (n % WordSize) + 1
        BY <1>1, <3>2, Following
      <4>2. /\ Inc(n % WordSize) = 0 <=> n % WordSize = WordSize - 1
            /\ n % WordSize # WordSize - 1 => Inc(n % WordSize) = (n % WordSize) + 1
        BY <3>4, IncFacts
      <4> QED BY <4>1, <4>2
    <3>6. Counted(w)[3] = Inc(w[3])
      BY <2>1, CountedFacts
    <3> QED BY <3>3, <3>5, <3>6
  <2>2. CASE q % Round # Round - 1
    <3>1. Counted(w)[3] = w[3]
      BY <2>2, CountedFacts
    <3> QED BY <2>2, <1>2, <1>3, <3>1 DEF Third
  <2> QED BY <2>1, <2>2
<1>4. Numbered(Counted(w)) = (q + 1) % Round
  BY <1>2, CountedFacts
<1> QED BY <1>3, <1>4

(* The byte is number k of the stream. *)
Fits(byte, k) ==
  /\ byte[3] = ((k - 1) % Block) + 1
  /\ Numbered(byte[2]) = ((k - 1) \div Block) % Round

(* The key and the counter that the block being read was made from. *)
Maker(c) == c.buf[1]

(* Generator c has handed out the bytes o: they are the stream up to there,   *)
(* and what it holds is the block that goes on.                               *)
Laid(c, o) ==
  /\ c \in Generators /\ o \in Seq(StreamBytes)
  /\ c.partial = Len(o) % Block
  /\ Numbered(c.words) = (Len(o) \div Block) % Round
  /\ c.buf = KeyStream(Maker(c)[1], Maker(c)[2])
  /\ Numbered(Maker(c)[2]) = Numbered(c.words)
  /\ \A k \in DOMAIN o : Fits(o[k], k)

(* When nothing was stirred, the third words go on as well. *)
Unstirred(c, o) ==
  /\ Maker(c)[2] = c.words
  /\ \E first \in 0..(WordSize - 1) :
       /\ c.words[3] = Third(first, Len(o) \div Block)
       /\ \A k \in DOMAIN o : o[k][2][3] = Third(first, (k - 1) \div Block)

(* The bytes of o that must depend on the seeds mixed in by stir s. *)
Until(t, s, o) == IF s = Len(t) THEN Len(o) ELSE t[s + 1].after
Due(t, s, o) == (t[s].after + Block + 1)..Until(t, s, o)

(* The stirs made so far show in the bytes made since, and will show in the   *)
(* next block, if they do not in the one that is being read.                  *)
Stirred(c, o, t) ==
  /\ t \in Seq(Stirs)
  /\ \A s \in DOMAIN t : t[s].after <= Len(o)
  /\ t # <<>> => /\ c.key = t[Len(t)].seeds
                 /\ Len(o) - c.partial > t[Len(t)].after => Maker(c)[1] = c.key
  /\ \A s \in DOMAIN t : \A k \in Due(t, s, o) : o[k][1] = t[s].seeds

Tape(c, o, t) ==
  /\ Laid(c, o)
  /\ t = <<>> => Unstirred(c, o)
  /\ Stirred(c, o, t)

(* A block, and what it says of who made it. *)
LEMMA KeyStreamFacts ==
  ASSUME NEW key \in SUBSET Seeds, NEW words \in Counters
  PROVE  /\ KeyStream(key, words) \in [1..Block -> StreamBytes]
         /\ \A j \in 1..Block : KeyStream(key, words)[j] = <<key, words, j>>
         /\ KeyStream(key, words)[1][1] = key /\ KeyStream(key, words)[1][2] = words
<1>1. Block \in Nat \ {0} /\ 1 \in 1..Block
  BY RandAssumption
<1>2. \A j \in 1..Block : <<key, words, j>> \in StreamBytes
  BY DEF StreamBytes
<1>3. \A j \in 1..Block : KeyStream(key, words)[j] = <<key, words, j>>
  BY DEF KeyStream
<1>4. KeyStream(key, words) \in [1..Block -> StreamBytes]
  BY <1>2 DEF KeyStream
<1>5. KeyStream(key, words)[1] = <<key, words, 1>>
  BY <1>1, <1>3
<1> QED BY <1>3, <1>4, <1>5

(* The bytes that are next, of the block that is being read: u is o and they. *)
GoesOn(c, o, j, u) ==
  LET q == Len(o) \div Block
  IN /\ u \in Seq(StreamBytes)
     /\ q \in Nat /\ Len(o) \in Nat /\ c.partial \in 0..(Block - 1) /\ j \in 1..Block
     /\ Len(o) = Block * q + c.partial
     /\ Len(u) = Block * q + j
     /\ \A k \in 1..Len(o) : u[k] = o[k]
     /\ \A k \in (Len(o) + 1)..(Block * q + j) :
          /\ u[k] = <<Maker(c)[1], Maker(c)[2], k - Block * q>>
          /\ (k - 1) \div Block = q /\ (k - 1) % Block = (k - Block * q) - 1

LEMMA NextBytes ==
  ASSUME NEW c, NEW o, Laid(c, o), NEW j \in (c.partial + 1)..Block
  PROVE  /\ SubSeq(c.buf, c.partial + 1, j) \in Seq(StreamBytes)
         /\ GoesOn(c, o, j, o \o SubSeq(c.buf, c.partial + 1, j))
<1> DEFINE p == c.partial
           buf == c.buf
           key == Maker(c)[1]
           words == Maker(c)[2]
           piece == SubSeq(buf, p + 1, j)
           n == Len(o)
           q == n \div Block
           o2 == o \o piece
<1>1. Block \in Nat \ {0}
  BY RandAssumption
<1>2. /\ p \in 0..(Block - 1) /\ buf \in [1..Block -> StreamBytes] /\ o \in Seq(StreamBytes)
      /\ n \in Nat /\ p = n % Block
  BY DEF Laid, Generators
<1>3. q \in Nat /\ n = Block * q + p
  <2> HIDE DEF n, p
  <2> QED BY <1>1, <1>2, Divided
<1>4. j \in 1..Block /\ j \in (p + 1)..Block
  BY <1>1, <1>2
<1>5. key \in SUBSET Seeds /\ words \in Counters
  <2>1. 1 \in 1..Block
    BY <1>1
  <2>2. buf[1] \in StreamBytes
    <3> HIDE DEF buf
    <3> QED BY <2>1, <1>2
  <2> QED BY <2>2 DEF StreamBytes, Maker
<1>6. \A i \in 1..Block : buf[i] = <<key, words, i>>
  <2>1. buf = KeyStream(key, words)
    BY DEF Laid
  <2> HIDE DEF buf, key, words
  <2>2. \A i \in 1..Block : KeyStream(key, words)[i] = <<key, words, i>>
    BY <1>5, KeyStreamFacts, Zenon
  <2> QED BY <2>1, <2>2, Zenon
<1> HIDE DEF p, buf, key, words
<1>7. buf \in Seq(StreamBytes) /\ Len(buf) = Block
  BY <1>1, <1>2
<1>8. /\ piece \in Seq(StreamBytes) /\ Len(piece) = j - p
      /\ \A i \in 1..(j - p) : piece[i] = buf[p + i]
  BY <1>1, <1>2, <1>4, <1>7
<1> HIDE DEF piece
<1>9. /\ o2 \in Seq(StreamBytes) /\ Len(o2) = n + (j - p)
      /\ \A k \in 1..n : o2[k] = o[k]
      /\ \A i \in 1..(j - p) : o2[n + i] = piece[i]
  <2>1. o2 \in Seq(StreamBytes) /\ IsJoin(o2, o, piece)
    BY <1>2, <1>8, Joined, Zenon
  <2> HIDE DEF o2
  <2> QED BY <2>1, <1>8 DEF IsJoin
<1> HIDE DEF o2, n, q
<1>10. Len(o2) = Block * q + j
  <2> DEFINE m == Block * q
  <2>1. m \in Nat /\ n = m + p
    BY <1>1, <1>3
  <2> HIDE DEF m
  <2>2. n + (j - p) = m + j
    BY <2>1, <1>1, <1>2, <1>4
  <2> QED BY <2>2, <1>9 DEF m
<1>11. ASSUME NEW k \in (n + 1)..(Block * q + j)
       PROVE  /\ o2[k] = <<key, words, k - Block * q>>
              /\ (k - 1) \div Block = q /\ (k - 1) % Block = (k - Block * q) - 1
  <2> DEFINE m == Block * q
             i == k - n
             r == (k - m) - 1
  <2>1. m \in Nat /\ n = m + p
    BY <1>1, <1>3
  <2> HIDE DEF m
  <2>2. k \in (n + 1)..(m + j)
    BY <1>11 DEF m
  <2>3. /\ i \in 1..(j - p) /\ k = n + i /\ p + i = k - m /\ p + i \in 1..Block
        /\ r \in 0..(Block - 1) /\ k - 1 = m + r
    BY <2>1, <2>2, <1>1, <1>2, <1>4
  <2>4. o2[k] = <<key, words, k - m>>
    <3>1. o2[k] = piece[i] /\ piece[i] = buf[p + i]
      <4> HIDE DEF i
      <4> QED BY <2>3, <1>8, <1>9
    <3> HIDE DEF i
    <3> QED BY <3>1, <2>3, <1>6
  <2>5. (k - 1) \div Block = q /\ (k - 1) % Block = r
    <3> HIDE DEF r
    <3> DEFINE x == Block * q + r
    <3>1. k - 1 = x
      BY <2>3, Zenon DEF m
    <3>2. x \div Block = q /\ x % Block = r
      BY <2>3, <1>1, <1>3, Quotient
    <3> HIDE DEF x
    <3> QED BY <3>1, <3>2, Zenon
  <2> QED BY <2>4, <2>5 DEF m, r
<1>12. GoesOn(c, o, j, o2)
  BY <1>2, <1>3, <1>4, <1>9, <1>10, <1>11 DEF GoesOn, p, key, words, n, q
<1> QED BY <1>8, <1>12 DEF p, buf, piece, o2

(* The generator after byte j of its block. *)
Behind(c, j) ==
  LET read == [c EXCEPT !.partial = j] IN IF j >= Block THEN NextBlock(read) ELSE read

LEMMA BehindFacts ==
  ASSUME NEW c, NEW o, Laid(c, o), NEW j \in 1..Block
  PROVE  /\ Behind(c, j) \in Generators /\ Behind(c, j).key = c.key
         /\ j < Block => /\ Behind(c, j).words = c.words /\ Behind(c, j).partial = j
                         /\ Behind(c, j).buf = c.buf
         /\ j = Block => /\ Behind(c, j).words = Counted(c.words) /\ Behind(c, j).partial = 0
                         /\ Behind(c, j).buf = KeyStream(c.key, Counted(c.words))
                         /\ Maker(Behind(c, j))[1] = c.key
                         /\ Maker(Behind(c, j))[2] = Counted(c.words)
<1> DEFINE e == Behind(c, j)
<1>1. Block \in Nat \ {0}
  BY RandAssumption
<1>2. /\ c \in Generators
      /\ c.key \in SUBSET Seeds /\ c.words \in Counters
      /\ c.buf \in [1..Block -> StreamBytes]
  BY DEF Laid, Generators
<1>3. CASE j < Block
  <2>1. Behind(c, j) = [c EXCEPT !.partial = j] /\ j \in 0..(Block - 1)
    BY <1>1, <1>3 DEF Behind
  <2>2. /\ e.key = c.key /\ e.words = c.words /\ e.partial = j /\ e.buf = c.buf
        /\ e \in Generators
    BY <1>1, <1>2, <2>1 DEF Generators
  <2> QED BY <1>3, <2>2, <1>1
<1>4. CASE j = Block
  <2> DEFINE w == Counted(c.words)
             b == KeyStream(c.key, w)
  <2>1. w \in Counters
    BY <1>2, CountedFacts
  <2> HIDE DEF w
  <2>2. b \in [1..Block -> StreamBytes] /\ b[1][1] = c.key /\ b[1][2] = w
    BY <1>2, <2>1, KeyStreamFacts
  <2>3. e = [[c EXCEPT !.partial = j] EXCEPT !.words = w, !.buf = b, !.partial = 0]
    <3>1. [c EXCEPT !.partial = j].words = c.words /\ [c EXCEPT !.partial = j].key = c.key
      BY <1>2 DEF Generators
    <3> QED BY <3>1, <1>1, <1>4 DEF Behind, NextBlock, w
  <2> HIDE DEF b, e
  <2>4. 0 \in 0..(Block - 1)
    BY <1>1
  <2>5. /\ e.key = c.key /\ e.words = w /\ e.partial = 0 /\ e.buf = b
        /\ e \in Generators
    BY <1>2, <2>1, <2>2, <2>3, <2>4 DEF Generators
  <2> QED BY <1>4, <2>2, <2>5 DEF Maker, e, b, w
<1> QED BY <1>1, <1>3, <1>4

(* The bytes up to the j-th of the block are handed out. *)
LEMMA Advance ==
  ASSUME NEW c, NEW o, NEW t, Tape(c, o, t), NEW j \in (c.partial + 1)..Block
  PROVE  Tape(Behind(c, j), o \o SubSeq(c.buf, c.partial + 1, j), t)
<1> DEFINE p == c.partial
           e == Behind(c, j)
           piece == SubSeq(c.buf, p + 1, j)
           o2 == o \o piece
           n == Len(o)
           q == n \div Block
           m == Block * q
           key == Maker(c)[1]
           words == Maker(c)[2]
<1>1. Block \in Nat \ {0}
  BY RandAssumption
<1>2. /\ o2 \in Seq(StreamBytes) /\ q \in Nat /\ n \in Nat /\ p \in 0..(Block - 1) /\ j \in 1..Block
      /\ n = m + p /\ Len(o2) = m + j
      /\ \A k \in 1..n : o2[k] = o[k]
      /\ \A k \in (n + 1)..(m + j) :
           /\ o2[k] = <<key, words, k - m>>
           /\ (k - 1) \div Block = q /\ (k - 1) % Block = (k - m) - 1
  <2>1. GoesOn(c, o, j, o2)
    BY NextBytes, Zenon DEF Tape
  <2> HIDE DEF o2
  <2> QED BY <2>1 DEF GoesOn
<1>3. m \in Nat /\ n < m + j
  <2>1. m \in Nat
    BY <1>1, <1>2
  <2> HIDE DEF m, n, q
  <2> QED BY <1>1, <1>2, <2>1
<1>4. /\ Laid(c, o) /\ c \in Generators /\ c.words \in Counters
      /\ Numbered(c.words) = q % Round /\ Numbered(words) = Numbered(c.words)
  BY DEF Tape, Laid, Generators
<1>5. /\ e \in Generators /\ e.key = c.key
      /\ j < Block => e.words = c.words /\ e.partial = j /\ e.buf = c.buf
      /\ j = Block => /\ e.words = Counted(c.words) /\ e.partial = 0
                      /\ e.buf = KeyStream(c.key, Counted(c.words))
                      /\ Maker(e)[1] = c.key /\ Maker(e)[2] = Counted(c.words)
  BY <1>2, <1>4, BehindFacts
<1> HIDE DEF e
<1>6. DOMAIN o = 1..n /\ DOMAIN o2 = 1..(m + j) /\ DOMAIN o2 = 1..Len(o2)
  <2>1. o \in Seq(StreamBytes)
    BY <1>4 DEF Laid
  <2> HIDE DEF o2
  <2> QED BY <1>2, <2>1
<1> HIDE DEF o2, piece
<1>7. /\ j < Block => Len(o2) \div Block = q /\ Len(o2) % Block = j
      /\ j = Block => Len(o2) \div Block = q + 1 /\ Len(o2) % Block = 0
  <2>1. CASE j < Block
    <3>1. j \in 0..(Block - 1)
      BY <2>1, <1>1, <1>2
    <3>2. (Block * q + j) \div Block = q /\ (Block * q + j) % Block = j
      BY <1>1, <1>2, <3>1, Quotient
    <3> QED BY <2>1, <3>2, <1>2
  <2>2. CASE j = Block
    <3> DEFINE x == Block * (q + 1) + 0
    <3>1. m + j = x /\ q + 1 \in Nat /\ 0 \in 0..(Block - 1)
      BY <1>1, <1>2, <2>2
    <3>2. x \div Block = q + 1 /\ x % Block = 0
      BY <1>1, <3>1, Quotient
    <3>3. Len(o2) = x
      BY <1>2, <3>1
    <3> HIDE DEF x, q
    <3> QED BY <2>2, <3>2, <3>3, <1>1
  <2> QED BY <2>1, <2>2
<1>8. j < Block \/ j = Block
  BY <1>1, <1>2
<1>9. j < Block => Maker(e) = Maker(c)
  BY <1>5 DEF Maker
<1> HIDE DEF m, n, q, key, words, p
<1>10. ASSUME NEW k \in 1..(m + j)
       PROVE  \/ k \in 1..n /\ o2[k] = o[k]
              \/ /\ k \in (n + 1)..(m + j) /\ o2[k] = <<key, words, k - m>>
                 /\ (k - 1) \div Block = q /\ (k - 1) % Block = (k - m) - 1
  <2>1. k \in 1..n \/ k \in (n + 1)..(m + j)
    <3>1. m + j \in Nat
      BY <1>2, <1>3
    <3> DEFINE x == m + j
    <3> HIDE DEF x
    <3>2. k \in 1..x /\ x \in Nat /\ n \in Nat
      BY <1>2, <1>10, <3>1 DEF x
    <3>3. k \in 1..n \/ k \in (n + 1)..x
      BY <3>2
    <3> QED BY <3>3 DEF x
  <2>2. CASE k \in 1..n
    BY <2>2, <1>2, Zenon
  <2>3. CASE k \in (n + 1)..(m + j)
    BY <2>3, <1>2, Zenon
  <2> QED BY <2>1, <2>2, <2>3
<1>11. Laid(e, o2)
  <2>1. e.partial = Len(o2) % Block
    BY <1>5, <1>7, <1>8
  <2>2. Numbered(e.words) = (Len(o2) \div Block) % Round
    <3>1. Numbered(Counted(c.words)) = (q + 1) % Round
      BY <1>2, <1>4, CountedNext
    <3> QED BY <3>1, <1>4, <1>5, <1>7, <1>8
  <2>3. e.buf = KeyStream(Maker(e)[1], Maker(e)[2])
    <3>1. c.buf = KeyStream(Maker(c)[1], Maker(c)[2])
      BY <1>4 DEF Laid
    <3> QED BY <3>1, <1>5, <1>8, <1>9
  <2>4. Numbered(Maker(e)[2]) = Numbered(e.words)
    BY <1>4, <1>5, <1>8, <1>9 DEF words
  <2>5. ASSUME NEW k \in 1..(m + j) PROVE Fits(o2[k], k)
    <3>1. CASE k \in 1..n /\ o2[k] = o[k]
      BY <3>1, <1>4, <1>6 DEF Laid
    <3>2. CASE /\ k \in (n + 1)..(m + j) /\ o2[k] = <<key, words, k - m>>
               /\ (k - 1) \div Block = q /\ (k - 1) % Block = (k - m) - 1
      <4>1. o2[k][2] = words /\ o2[k][3] = k - m
        BY <3>2
      <4>2. k - m = ((k - m) - 1) + 1
        BY <1>3, <2>5
      <4> QED BY <4>1, <4>2, <3>2, <1>4 DEF Fits
    <3> QED BY <3>1, <3>2, <1>10
  <2> QED BY <2>1, <2>2, <2>3, <2>4, <2>5, <1>2, <1>5, <1>6 DEF Laid
<1>12. ASSUME t = <<>> PROVE Unstirred(e, o2)
  <2>1. Unstirred(c, o)
    BY <1>12 DEF Tape
  <2>2. PICK first \in 0..(WordSize - 1) :
          /\ c.words[3] = Third(first, q)
          /\ \A k \in DOMAIN o : o[k][2][3] = Third(first, (k - 1) \div Block)
    BY <2>1 DEF Unstirred, q, n
  <2>3. words = c.words
    BY <2>1 DEF Unstirred, words
  <2>4. Maker(e)[2] = e.words
    BY <2>3, <1>5, <1>8, <1>9 DEF words
  <2>5. e.words[3] = Third(first, Len(o2) \div Block)
    <3>1. Counted(c.words)[3] = Third(first, q + 1)
      BY <2>2, <1>2, <1>4, CountedNext
    <3> QED BY <3>1, <2>2, <1>5, <1>7, <1>8
  <2>6. ASSUME NEW k \in 1..(m + j) PROVE o2[k][2][3] = Third(first, (k - 1) \div Block)
    <3>1. CASE k \in 1..n /\ o2[k] = o[k]
      BY <3>1, <2>2, <1>6
    <3>2. CASE k \in (n + 1)..(m + j) /\ o2[k] = <<key, words, k - m>> /\ (k - 1) \div Block = q
      BY <3>2, <2>2, <2>3
    <3> QED BY <3>1, <3>2, <1>10
  <2> QED BY <2>4, <2>5, <2>6, <1>6 DEF Unstirred
<1>13. Stirred(e, o2, t)
  <2> DEFINE last == Len(t)
  <2>1. /\ Stirred(c, o, t) /\ t \in Seq(Stirs)
        /\ last \in Nat /\ DOMAIN t = 1..last
        /\ \A s \in 1..last : t[s].after \in Nat /\ t[s].after <= n
        /\ t # <<>> => /\ c.key = t[last].seeds /\ last \in 1..last
                       /\ n - p > t[last].after => key = c.key
    <3>1. /\ Stirred(c, o, t) /\ t \in Seq(Stirs)
          /\ \A s \in DOMAIN t : t[s].after <= n
          /\ t # <<>> => /\ c.key = t[last].seeds
                         /\ n - p > t[last].after => key = c.key
      BY DEF Tape, Stirred, n, p, key
    <3>2. last \in Nat /\ DOMAIN t = 1..last /\ (t # <<>> => last \in 1..last)
      <4>1. last \in Nat /\ DOMAIN t = 1..last
        BY <3>1
      <4>2. t # <<>> => last \in Nat \ {0}
        BY <3>1, EmptySeq
      <4> HIDE DEF last
      <4> QED BY <4>1, <4>2
    <3>3. ASSUME NEW s \in 1..last PROVE t[s].after \in Nat
      <4>1. t[s] \in Stirs
        BY <3>1, ElementOfSeq
      <4> QED BY <4>1 DEF Stirs
    <3> HIDE DEF last
    <3> QED BY <3>1, <3>2, <3>3
  <2> HIDE DEF last
  <2>2. \A s \in DOMAIN t : t[s].after <= Len(o2)
    BY <2>1, <1>2, <1>3
  <2>3. ASSUME t # <<>>, Len(o2) - e.partial > t[last].after PROVE Maker(e)[1] = e.key
    <3>1. CASE j < Block
      <4>1. Len(o2) - e.partial = n - p
        BY <3>1, <1>1, <1>2, <1>3, <1>5
      <4> QED BY <4>1, <3>1, <2>3, <2>1, <1>5, <1>9 DEF key
    <3>2. CASE j = Block
      BY <3>2, <1>5
    <3> QED BY <3>1, <3>2, <1>8
  <2>4. ASSUME NEW s \in 1..last, NEW k \in Due(t, s, o2) PROVE o2[k][1] = t[s].seeds
    <3>1. CASE s # last
      <4>1. Until(t, s, o2) = Until(t, s, o) /\ s + 1 \in 1..last /\ Until(t, s, o) = t[s + 1].after
        <5>1. s + 1 \in 1..last
          BY <3>1, <2>1, <2>4
        <5> QED BY <5>1, <3>1 DEF Until, last
      <4>2. k \in Due(t, s, o) /\ k \in 1..n /\ k \in 1..(m + j)
        <5>1. k \in Due(t, s, o)
          BY <4>1, <2>4 DEF Due
        <5> DEFINE a == t[s].after
                   b == t[s + 1].after
        <5>2. k \in (a + Block + 1)..b /\ a \in Nat /\ b \in Nat /\ b <= n
          BY <5>1, <4>1, <2>1, <2>4 DEF Due
        <5> HIDE DEF a, b
        <5>3. k \in 1..n
          BY <5>2, <1>1, <1>2
        <5> QED BY <5>1, <5>3, <1>2, <1>3
      <4>3. o[k][1] = t[s].seeds
        BY <4>2, <2>1 DEF Stirred
      <4> QED BY <4>2, <4>3, <1>2
    <3>2. CASE s = last
      <4>1. Until(t, s, o2) = m + j /\ Until(t, s, o) = n
        BY <3>2, <1>2 DEF Until, last, n
      <4>2. t[s].after \in Nat /\ k \in (t[s].after + Block + 1)..(m + j)
        BY <4>1, <2>1, <2>4 DEF Due
      <4>3. k \in 1..(m + j)
        BY <4>2, <1>1
      <4>4. CASE k \in 1..n /\ o2[k] = o[k]
        <5> DEFINE a == t[s].after + Block + 1
        <5>1. k \in Due(t, s, o)
          <6>1. a \in Int
            BY <4>2, <1>1
          <6> HIDE DEF a
          <6>2. k \in a..n
            BY <4>2, <4>4, <6>1, <1>2 DEF a
          <6> QED BY <6>2, <4>1, Zenon DEF Due, a
        <5>2. o[k][1] = t[s].seeds
          BY <5>1, <2>1 DEF Stirred
        <5> QED BY <5>2, <4>4
      <4>5. CASE k \in (n + 1)..(m + j) /\ o2[k] = <<key, words, k - m>>
        <5> DEFINE a == t[s].after
        <5>1. n - p > t[s].after
          <6>1. a \in Nat /\ k \in (a + Block + 1)..(m + j) /\ m \in Nat
            BY <4>2, <1>3
          <6>2. n = m + p /\ j \in 1..Block /\ p \in 0..(Block - 1)
            BY <1>2
          <6> HIDE DEF a
          <6>3. n - p > a
            BY <6>1, <6>2, <1>1
          <6> QED BY <6>3 DEF a
        <5>2. t # <<>>
          BY <2>1, <2>4
        <5>3. key = t[s].seeds
          BY <5>1, <5>2, <3>2, <2>1
        <5> QED BY <5>3, <4>5
      <4> QED BY <4>3, <4>4, <4>5, <1>10
    <3> QED BY <3>1, <3>2
  <2>5. t # <<>> => e.key = t[last].seeds
    BY <2>1, <1>5
  <2> QED BY <2>1, <2>2, <2>3, <2>4, <2>5 DEF Stirred, last
<1> QED BY <1>11, <1>12, <1>13 DEF Tape, e, o2, piece, p

(* The loop of util_rand_bytes() while it is at work. *)
AtWork(o, t, d) ==
  d.left \in Nat /\ d.out \in Seq(StreamBytes) /\ Tape(d.ctx, o \o d.out, t)

LEMMA DrawKeeps ==
  ASSUME NEW o \in Seq(StreamBytes), NEW t, NEW d, AtWork(o, t, d), d.left # 0
  PROVE  AtWork(o, t, Draw(d))
<1> DEFINE c == d.ctx
           p == c.partial
           j == IF p + d.left < Block THEN p + d.left ELSE Block
           piece == SubSeq(c.buf, p + 1, j)
           drawn == Draw(d)
<1>1. Block \in Nat \ {0} /\ d.left \in Nat \ {0} /\ d.out \in Seq(StreamBytes)
  BY RandAssumption DEF AtWork
<1>2. Tape(c, o \o d.out, t) /\ Laid(c, o \o d.out)
  BY DEF AtWork, Tape
<1>3. p \in 0..(Block - 1)
  BY <1>2 DEF Laid, Generators
<1>4. drawn.ctx = Behind(c, j) /\ drawn.left = d.left - (j - p) /\ drawn.out = d.out \o piece
  BY DEF Draw, Behind
<1> HIDE DEF p, drawn
<1>5. j \in (p + 1)..Block /\ j - p <= d.left /\ j \in Int
  BY <1>1, <1>3
<1> HIDE DEF j, c, piece
<1>6. drawn.left \in Nat
  BY <1>1, <1>3, <1>4, <1>5
<1>7. piece \in Seq(StreamBytes) /\ Tape(drawn.ctx, (o \o d.out) \o piece, t)
  <2>1. piece \in Seq(StreamBytes)
    BY <1>2, <1>5, NextBytes DEF piece, p
  <2>2. Tape(Behind(c, j), (o \o d.out) \o piece, t)
    BY <1>2, <1>5, Advance, Zenon DEF piece, p
  <2> QED BY <2>1, <2>2, <1>4, Zenon
<1>8. (o \o d.out) \o piece = o \o drawn.out
  <2>1. (o \o d.out) \o piece = o \o (d.out \o piece)
    <3> DEFINE x == d.out
    <3>1. x \in Seq(StreamBytes) /\ piece \in Seq(StreamBytes)
      BY <1>1, <1>7
    <3> HIDE DEF x
    <3>2. (o \o x) \o piece = o \o (x \o piece)
      BY <3>1, ConcatAssociative
    <3> QED BY <3>2 DEF x
  <2> QED BY <2>1, <1>4, Zenon
<1>9. drawn.out \in Seq(StreamBytes)
  BY <1>1, <1>4, <1>7, ConcatProperties, Zenon
<1>10. Tape(drawn.ctx, o \o drawn.out, t)
  BY <1>7, <1>8, Zenon
<1> QED BY <1>6, <1>9, <1>10, Zenon DEF AtWork, drawn

(* Its turns, the first n of them. *)
Idle(c, n) == [ctx |-> c, left |-> n, out |-> <<>>]
Turned(d) == IF d.left = 0 THEN d ELSE Draw(d)
AreTurns(f, c, n) ==
  f[0] = Idle(c, n) /\ \A k \in 1..n : f[k] = Turned(f[k - 1])

LEMMA DrawnTurns ==
  ASSUME NEW c, NEW n \in Nat
  PROVE  \E f : AreTurns(f, c, n) /\ f[n] = Drawn(c, n)
<1> DEFINE Turn(g, k) == IF k = 0 THEN Idle(c, n) ELSE Turned(g[k - 1])
           UpTo(g, m) == g = [k \in 0..m |-> Turn(g, k)]
           f == CHOOSE g : UpTo(g, n)
<1>1. Drawn(c, n) = f[n]
  BY DEF Drawn, Idle, Turned
<1>2. \E g : UpTo(g, n)
  <2> DEFINE R == {m \in Nat : \E g : UpTo(g, m)}
  <2>1. 0 \in R
    <3>1. UpTo([k \in 0..0 |-> Idle(c, n)], 0)
      OBVIOUS
    <3> QED BY <3>1
  <2>2. ASSUME NEW m \in Nat, m \in R PROVE m + 1 \in R
    <3>1. PICK g : UpTo(g, m)
      BY <2>2
    <3> DEFINE e == [k \in 0..(m + 1) |-> IF k <= m THEN g[k] ELSE Turn(g, m + 1)]
    <3>2. \A k \in 0..(m + 1) : e[k] = Turn(e, k)
      <4> SUFFICES ASSUME NEW k \in 0..(m + 1) PROVE e[k] = Turn(e, k)
        OBVIOUS
      <4>1. k # 0 => k - 1 \in 0..m /\ e[k - 1] = g[k - 1]
        OBVIOUS
      <4>2. Turn(e, k) = Turn(g, k)
        <5> HIDE DEF e
        <5> QED BY <4>1
      <4>3. e[k] = Turn(g, k)
        <5>1. CASE k <= m
          <6>1. k \in 0..m /\ e[k] = g[k]
            BY <5>1
          <6> HIDE DEF e, Turn
          <6> QED BY <3>1, <6>1
        <5>2. CASE k = m + 1
          <6> HIDE DEF Turn
          <6> QED BY <5>2
        <5> HIDE DEF Turn, e
        <5> QED BY <5>1, <5>2
      <4> QED BY <4>2, <4>3
    <3>3. e = [k \in 0..(m + 1) |-> e[k]]
      OBVIOUS
    <3> HIDE DEF e, Turn
    <3>4. UpTo(e, m + 1)
      BY <3>2, <3>3
    <3> QED BY <3>4
  <2> HIDE DEF R
  <2>3. n \in R
    BY <2>1, <2>2, NatSetInduction
  <2> QED BY <2>3 DEF R
<1>3. UpTo(f, n)
  <2> HIDE DEF UpTo
  <2> QED BY <1>2
<1> HIDE DEF f
<1>4. \A k \in 0..n : f[k] = Turn(f, k)
  <2> HIDE DEF Turn
  <2> QED BY <1>3
<1>5. AreTurns(f, c, n)
  BY <1>4 DEF AreTurns
<1> QED BY <1>1, <1>5

(* What the loop hands out goes on with the stream. *)
LEMMA DrawnKeeps ==
  ASSUME NEW c, NEW o, NEW t, Tape(c, o, t), NEW n \in Nat
  PROVE  AtWork(o, t, Drawn(c, n))
<1>1. o \in Seq(StreamBytes)
  BY DEF Tape, Laid
<1>2. PICK f : AreTurns(f, c, n) /\ f[n] = Drawn(c, n)
  BY DrawnTurns
<1> DEFINE R == {k \in Nat : k <= n => AtWork(o, t, f[k])}
<1>3. 0 \in R
  <2>1. f[0].left = n /\ f[0].out = <<>> /\ f[0].ctx = c
    BY <1>2 DEF AreTurns, Idle
  <2>2. o \o <<>> = o /\ <<>> \in Seq(StreamBytes)
    BY <1>1, ConcatEmptySeq, EmptySeq
  <2>3. Tape(f[0].ctx, o \o f[0].out, t)
    BY <2>1, <2>2, Zenon
  <2>4. AtWork(o, t, f[0])
    BY <2>1, <2>2, <2>3, Zenon DEF AtWork
  <2> QED BY <2>4
<1>4. ASSUME NEW k \in Nat, k \in R PROVE k + 1 \in R
  <2> SUFFICES ASSUME k + 1 <= n PROVE AtWork(o, t, f[k + 1])
    OBVIOUS
  <2>1. AtWork(o, t, f[k]) /\ k + 1 \in 1..n /\ (k + 1) - 1 = k
    BY <1>4
  <2>2. f[k + 1] = Turned(f[k])
    BY <1>2, <2>1 DEF AreTurns
  <2>3. f[k].left # 0 => AtWork(o, t, Draw(f[k]))
    BY <1>1, <2>1, DrawKeeps
  <2>4. CASE f[k].left = 0
    BY <2>1, <2>2, <2>4 DEF Turned
  <2>5. CASE f[k].left # 0
    BY <2>2, <2>3, <2>5 DEF Turned
  <2> QED BY <2>4, <2>5
<1> HIDE DEF R
<1>5. n \in R
  BY <1>3, <1>4, NatSetInduction
<1>6. AtWork(o, t, f[n])
  BY <1>5 DEF R
<1> QED BY <1>2, <1>6

(* What holds between two calls of the generator's functions. *)
RandInv == Tape(ctx, given, stirs)

LEMMA RandInitially == RandInit => RandInv
<1> SUFFICES ASSUME RandInit PROVE RandInv
  OBVIOUS
<1>1. Block \in Nat \ {0} /\ WordSize \in Nat \ {0, 1}
  BY RandAssumption
<1> DEFINE w(s) == <<0, 0, Nonce[s]>>
           b(s) == KeyStream({s}, w(s))
<1>2. PICK seed \in Seeds :
        ctx = [key |-> {seed}, words |-> w(seed), partial |-> 0, buf |-> b(seed)]
  BY DEF RandInit
<1>3. given = <<>> /\ stirs = <<>>
  BY DEF RandInit
<1> DEFINE x == w(seed)
           y == b(seed)
<1>4. x \in Counters /\ Numbered(x) = 0 /\ x[3] \in 0..(WordSize - 1)
  <2> DEFINE z == Nonce[seed]
  <2>1. z \in 0..(WordSize - 1) /\ 0 \in 0..(WordSize - 1)
    BY <1>1, RandAssumption
  <2> HIDE DEF z
  <2>2. x = <<0, 0, z>>
    BY DEF z
  <2> HIDE DEF x
  <2> QED BY <1>1, <2>1, <2>2 DEF Counters, Numbered
<1>5. /\ y = KeyStream({seed}, x) /\ y \in [1..Block -> StreamBytes]
      /\ y[1][1] = {seed} /\ y[1][2] = x
  <2>1. {seed} \in SUBSET Seeds
    OBVIOUS
  <2> HIDE DEF x
  <2> QED BY <1>4, <2>1, KeyStreamFacts DEF x
<1> HIDE DEF w, b, x, y
<1>6. /\ ctx.key = {seed} /\ ctx.words = x /\ ctx.partial = 0 /\ ctx.buf = y
      /\ ctx \in Generators
  <2>1. ctx = [key |-> {seed}, words |-> x, partial |-> 0, buf |-> y]
    BY <1>2, Zenon DEF x, y
  <2>2. {seed} \in SUBSET Seeds /\ 0 \in 0..(Block - 1)
    BY <1>1
  <2> QED BY <2>1, <2>2, <1>4, <1>5 DEF Generators
<1>7. /\ given \in Seq(StreamBytes) /\ Len(given) = 0 /\ DOMAIN given = {}
      /\ stirs \in Seq(Stirs) /\ DOMAIN stirs = {}
  BY <1>3
<1>8. /\ 0 % Block = 0 /\ 0 \div Block = 0
      /\ 0 % Round = 0 /\ 0 \div Round = 0
  <2>1. Round \in Nat \ {0}
    BY <1>4, CountedFacts
  <2> QED BY <1>1, <2>1
<1>9. Laid(ctx, given)
  BY <1>4, <1>5, <1>6, <1>7, <1>8 DEF Laid, Maker
<1>10. Unstirred(ctx, given)
  <2>1. Third(x[3], 0) = x[3]
    BY <1>1, <1>4, <1>8 DEF Third
  <2> QED BY <2>1, <1>4, <1>5, <1>6, <1>7, <1>8 DEF Unstirred, Maker
<1>11. Stirred(ctx, given, stirs)
  BY <1>3, <1>7 DEF Stirred
<1> QED BY <1>9, <1>10, <1>11 DEF RandInv, Tape

(* A stir, after the bytes o. *)
Mixed(c, seed) == [c EXCEPT !.key = SymDiff(@, {seed}), !.words[3] = Mix(@, Nonce[seed])]

LEMMA StirKeeps ==
  ASSUME NEW c, NEW o, NEW t, Tape(c, o, t), NEW seed \in Seeds,
         NEW e, e = Mixed(c, seed),
         NEW u, u = Append(t, [after |-> Len(o), seeds |-> SymDiff(c.key, {seed})])
  PROVE  Tape(e, o, u)
<1> DEFINE key == SymDiff(c.key, {seed})
           words == [c.words EXCEPT ![3] = Mix(@, Nonce[seed])]
           stir == [after |-> Len(o), seeds |-> key]
           last == Len(t)
           n == Len(o)
<1>1. /\ Laid(c, o) /\ Stirred(c, o, t) /\ c \in Generators /\ o \in Seq(StreamBytes)
      /\ t \in Seq(Stirs) /\ n \in Nat /\ DOMAIN o = 1..n
  BY DEF Tape, Laid, Stirred
<1>2. Block \in Nat \ {0} /\ WordSize \in Nat \ {0, 1}
  BY RandAssumption
<1>3. words \in Counters /\ words[1] = c.words[1] /\ words[2] = c.words[2]
  <2> DEFINE m == Mix(c.words[3], Nonce[seed])
  <2>1. c.words \in Counters
    BY <1>1 DEF Generators
  <2>2. m \in 0..(WordSize - 1)
    <3> DEFINE f == c.words
               W == 0..(WordSize - 1)
    <3>1. f[3] \in W
      <4> HIDE DEF f, W
      <4>1. f \in [1..3 -> W]
        BY <2>1 DEF Counters, f, W
      <4> QED BY <4>1
    <3>2. Nonce[seed] \in W
      BY RandAssumption
    <3> QED BY <3>1, <3>2, RandAssumption
  <2>3. words = [c.words EXCEPT ![3] = m]
    OBVIOUS
  <2> HIDE DEF m, words
  <2> QED BY <2>1, <2>2, <2>3 DEF Counters
<1>4. key \in SUBSET Seeds
  BY <1>1 DEF Generators, SymDiff
<1>5. e = [c EXCEPT !.key = key, !.words = words]
  BY <1>1 DEF Generators, Mixed
<1> HIDE DEF key, words
<1>6. /\ e.key = key /\ e.words = words /\ e.partial = c.partial /\ e.buf = c.buf
      /\ e \in Generators
  BY <1>1, <1>3, <1>4, <1>5 DEF Generators
<1>7. Maker(e) = Maker(c) /\ Numbered(e.words) = Numbered(c.words)
  BY <1>3, <1>6 DEF Maker, Numbered
<1>8. Laid(e, o)
  BY <1>1, <1>6, <1>7 DEF Laid
<1>9. stir \in Stirs /\ u = Append(t, stir) /\ stir.after = n /\ stir.seeds = key
  BY <1>1, <1>4 DEF Stirs, key
<1> HIDE DEF stir
<1>10. /\ u \in Seq(Stirs) /\ u # <<>> /\ last \in Nat /\ Len(u) = last + 1
       /\ DOMAIN t = 1..last /\ DOMAIN u = 1..(last + 1)
       /\ \A s \in 1..last : u[s] = t[s]
       /\ u[last + 1] = stir
  <2>1. /\ u \in Seq(Stirs) /\ u # <<>> /\ Len(u) = Len(t) + 1
        /\ \A s \in 1..Len(t) : u[s] = t[s]
        /\ u[Len(t) + 1] = stir
    BY <1>1, <1>9, AppendProperties
  <2> QED BY <2>1, <1>1
<1> HIDE DEF last, n
<1>11. \A s \in 1..last : t[s].after <= n
  BY <1>1, <1>10 DEF Stirred, n
<1>12. Stirred(e, o, u)
  <2>1. \A s \in DOMAIN u : u[s].after <= n
    <3>1. ASSUME NEW s \in 1..(last + 1) PROVE u[s].after <= n
      <4>1. CASE s = last + 1
        BY <4>1, <1>1, <1>9, <1>10
      <4>2. CASE s # last + 1
        <5>1. s \in 1..last
          BY <4>2, <1>10
        <5> QED BY <5>1, <1>10, <1>11
      <4> QED BY <4>1, <4>2
    <3> QED BY <3>1, <1>10
  <2>2. e.key = u[last + 1].seeds /\ ~(n - e.partial > u[last + 1].after)
    <3>1. c.partial \in 0..(Block - 1)
      BY <1>1 DEF Generators
    <3>2. u[last + 1].after = n /\ u[last + 1].seeds = key
      BY <1>9, <1>10
    <3> DEFINE p == e.partial
    <3>3. p \in Nat
      BY <3>1, <1>2, <1>6
    <3> HIDE DEF p
    <3>4. ~(n - p > n)
      BY <3>3, <1>1
    <3> QED BY <3>2, <3>4, <1>6 DEF p
  <2>3. ASSUME NEW s \in 1..(last + 1), NEW k \in Due(u, s, o) PROVE o[k][1] = u[s].seeds
    <3>1. CASE s = last + 1
      <4>1. Until(u, s, o) = n /\ u[s].after = n
        BY <3>1, <1>9, <1>10 DEF Until, n
      <4>2. k \in (n + Block + 1)..n
        BY <4>1, <2>3 DEF Due
      <4> QED BY <4>2, <1>1, <1>2
    <3>2. CASE s \in 1..last
      <4>1. Until(u, s, o) = Until(t, s, o)
        <5>1. CASE s = last
          <6>1. s # last + 1 /\ s + 1 = last + 1
            BY <5>1, <1>10
          <6> QED BY <5>1, <6>1, <1>9, <1>10 DEF Until, last, n
        <5>2. CASE s # last
          <6>1. s # last + 1 /\ s + 1 \in 1..last
            BY <5>2, <3>2, <1>10
          <6> QED BY <5>2, <6>1, <1>10 DEF Until, last
        <5> QED BY <5>1, <5>2
      <4>2. u[s] = t[s] /\ k \in Due(t, s, o)
        BY <4>1, <3>2, <2>3, <1>10 DEF Due
      <4> QED BY <4>2, <3>2, <1>1, <1>10 DEF Stirred
    <3>3. s = last + 1 \/ s \in 1..last
      BY <1>10
    <3> QED BY <3>1, <3>2, <3>3
  <2> QED BY <2>1, <2>2, <2>3, <1>10 DEF Stirred, n
<1> QED BY <1>8, <1>10, <1>12 DEF Tape

LEMMA RandSteps == RandInv /\ [RandNext]_randVars => RandInv'
<1> SUFFICES ASSUME RandInv, [RandNext]_randVars PROVE Tape(ctx', given', stirs')
  BY DEF RandInv
<1>1. Tape(ctx, given, stirs)
  BY DEF RandInv
<1>2. CASE Bytes
  <2>1. PICK n \in 0..MaxAsk :
          /\ ctx' = Drawn(ctx, n).ctx
          /\ given' = given \o Drawn(ctx, n).out
          /\ stirs' = stirs
    BY <1>2 DEF Bytes
  <2>2. n \in Nat
    BY <2>1, RandAssumption
  <2>3. AtWork(given, stirs, Drawn(ctx, n))
    BY <1>1, <2>2, DrawnKeeps
  <2>4. Tape(Drawn(ctx, n).ctx, given \o Drawn(ctx, n).out, stirs)
    BY <2>3, Zenon DEF AtWork
  <2> QED BY <2>1, <2>4, Zenon
<1>3. CASE Stir
  <2>1. PICK seed \in Seeds :
          /\ ctx' = Mixed(ctx, seed)
          /\ stirs' = Append(stirs, [after |-> Len(given), seeds |-> SymDiff(ctx.key, {seed})])
    BY <1>3 DEF Stir, Mixed
  <2>2. given' = given
    BY <1>3 DEF Stir
  <2>3. Tape(ctx', given, stirs')
    BY <1>1, <2>1, StirKeeps, Zenon
  <2> QED BY <2>2, <2>3, Zenon
<1>4. CASE UNCHANGED randVars
  BY <1>1, <1>4, Zenon DEF randVars
<1> QED BY <1>2, <1>3, <1>4 DEF RandNext

(* No two bytes of a stream that is not too long are the same. *)
LEMMA TapeIsInjective ==
  ASSUME NEW c, NEW o, NEW t, Tape(c, o, t),
         Len(o) <= WordSize * WordSize * Block * (IF t = <<>> THEN WordSize ELSE 1)
  PROVE  IsInjective(o)
<1>1. Block \in Nat \ {0} /\ WordSize \in Nat \ {0, 1} /\ Round \in Nat \ {0}
  <2>1. c.words \in Counters
    BY DEF Tape, Laid, Generators
  <2> QED BY <2>1, RandAssumption, CountedFacts
<1> DEFINE n == Len(o)
           rounds == IF t = <<>> THEN WordSize ELSE 1
           limit == Round * rounds
<1>2. /\ Laid(c, o) /\ n \in Nat /\ DOMAIN o = 1..n
      /\ \A k \in 1..n : Fits(o[k], k)
  BY DEF Tape, Laid
<1>3. rounds \in Nat \ {0} /\ limit \in Nat /\ n <= Block * limit
  <2>1. rounds \in Nat \ {0}
    BY <1>1
  <2>2. n <= Round * Block * rounds
    BY DEF Round
  <2> HIDE DEF rounds, n
  <2>3. limit \in Nat /\ Round * Block * rounds = Block * limit
    BY <1>1, <2>1
  <2> QED BY <2>1, <2>2, <2>3
<1> HIDE DEF n, rounds
<1>4. ASSUME NEW k \in 1..n
      PROVE  /\ (k - 1) \div Block \in Nat /\ (k - 1) % Block \in 0..(Block - 1)
             /\ k - 1 = Block * ((k - 1) \div Block) + ((k - 1) % Block)
             /\ (k - 1) \div Block < limit
             /\ ((k - 1) \div Block) % Round \in 0..(Round - 1)
             /\ ((k - 1) \div Block) \div Round \in 0..(rounds - 1)
             /\ (k - 1) \div Block = Round * (((k - 1) \div Block) \div Round) + (((k - 1) \div Block) % Round)
  <2> DEFINE i == k - 1
             q == i \div Block
             r == i % Block
             a == q \div Round
             b == q % Round
  <2>1. i \in Nat /\ i < n
    BY <1>2
  <2> HIDE DEF i
  <2>2. q \in Nat /\ r \in 0..(Block - 1) /\ i = Block * q + r
    BY <1>1, <2>1, Divided
  <2> HIDE DEF q, r
  <2>3. a \in Nat /\ b \in 0..(Round - 1) /\ q = Round * a + b
    BY <1>1, <2>2, Divided
  <2>4. q < limit
    <3> HIDE DEF limit
    <3> SUFFICES ASSUME q >= limit PROVE FALSE
      BY <1>3, <2>2
    <3>1. Block * q >= Block * limit
      BY <1>1, <1>3, <2>2
    <3> QED BY <3>1, <1>1, <1>2, <1>3, <2>1, <2>2
  <2> HIDE DEF a, b
  <2>5. a < rounds
    <3> SUFFICES ASSUME a >= rounds PROVE FALSE
      BY <1>3, <2>3
    <3>1. Round * a >= Round * rounds
      BY <1>1, <1>3, <2>3
    <3> QED BY <3>1, <1>1, <1>3, <2>2, <2>3, <2>4
  <2>6. a \in 0..(rounds - 1)
    BY <2>3, <2>5, <1>3
  <2> QED BY <2>2, <2>3, <2>4, <2>6 DEF i, q, r, a, b
<1>5. ASSUME NEW j \in 1..n, NEW k \in 1..n, o[j] = o[k] PROVE j = k
  <2> DEFINE q(i) == (i - 1) \div Block
  <2>1. (j - 1) % Block = (k - 1) % Block
    <3>1. /\ o[j][3] = ((j - 1) % Block) + 1
          /\ o[k][3] = ((k - 1) % Block) + 1
      BY <1>2 DEF Fits
    <3>2. (j - 1) % Block \in Int /\ (k - 1) % Block \in Int
      BY <1>4
    <3> DEFINE x == (j - 1) % Block
               y == (k - 1) % Block
    <3> HIDE DEF x, y
    <3>3. x + 1 = y + 1 /\ x \in Int /\ y \in Int
      BY <3>1, <3>2, <1>5 DEF x, y
    <3>4. x = y
      BY <3>3
    <3> QED BY <3>4 DEF x, y
  <2>2. q(j) % Round = q(k) % Round
    BY <1>2, <1>5 DEF Fits
  <2>3. q(j) \div Round = q(k) \div Round
    <3>1. CASE t = <<>>
      <4>1. PICK first \in 0..(WordSize - 1) :
              \A i \in 1..n : o[i][2][3] = Third(first, (i - 1) \div Block)
        <5>1. Unstirred(c, o)
          BY <3>1, Zenon DEF Tape
        <5>2. \E first \in 0..(WordSize - 1) :
                \A i \in DOMAIN o : o[i][2][3] = Third(first, (i - 1) \div Block)
          BY <5>1, Zenon DEF Unstirred
        <5> QED BY <5>2, <1>2, Zenon
      <4> DEFINE a == q(j) \div Round
                 b == q(k) \div Round
      <4>2. a \in 0..(WordSize - 1) /\ b \in 0..(WordSize - 1)
        BY <3>1, <1>4 DEF rounds
      <4>3. (first + a) % WordSize = (first + b) % WordSize
        BY <4>1, <1>5 DEF Third
      <4> HIDE DEF a, b
      <4>4. a = b
        <5> DEFINE x == (first + a) \div WordSize
                   y == (first + b) \div WordSize
                   z == (first + a) % WordSize
        <5>1. first + a \in Nat /\ first + b \in Nat
          BY <4>2, <1>1
        <5>2. /\ x \in Nat /\ y \in Nat /\ z \in Nat
              /\ first + a = WordSize * x + z
              /\ first + b = WordSize * y + z
          <6> DEFINE u == first + a
                     v == first + b
          <6>0. u \in Nat /\ v \in Nat /\ WordSize \in Nat \ {0}
            BY <5>1, <1>1
          <6> HIDE DEF u, v
          <6>1. /\ u \div WordSize \in Nat /\ u % WordSize \in Nat
                /\ u = WordSize * (u \div WordSize) + (u % WordSize)
            BY <6>0
          <6>2. /\ v \div WordSize \in Nat
                /\ v = WordSize * (v \div WordSize) + (v % WordSize)
            BY <6>0
          <6>3. u % WordSize = v % WordSize
            BY <4>3 DEF u, v
          <6> HIDE DEF x, y
          <6> QED BY <6>1, <6>2, <6>3, Zenon DEF u, v, x, y, z
        <5> HIDE DEF x, y, z
        <5>3. a - b = WordSize * (x - y)
          BY <5>2, <4>2, <1>1
        <5>4. ~(x - y >= 1)
          <6> SUFFICES ASSUME x - y >= 1 PROVE FALSE
            OBVIOUS
          <6>1. WordSize * (x - y) >= WordSize
            BY <5>2, <1>1
          <6> QED BY <6>1, <5>2, <5>3, <4>2, <1>1
        <5>5. ~(x - y <= -1)
          <6> SUFFICES ASSUME x - y <= -1 PROVE FALSE
            OBVIOUS
          <6>1. WordSize * (x - y) <= -WordSize
            BY <5>2, <1>1
          <6> QED BY <6>1, <5>2, <5>3, <4>2, <1>1
        <5>6. x = y
          BY <5>2, <5>4, <5>5
        <5> QED BY <5>2, <5>6, <4>2, <1>1
      <4> QED BY <4>4 DEF a, b
    <3>2. CASE t # <<>>
      <4>1. q(j) \div Round \in 0..0 /\ q(k) \div Round \in 0..0
        BY <3>2, <1>4 DEF rounds
      <4> QED BY <4>1
    <3> QED BY <3>1, <3>2
  <2>4. q(j) = q(k)
    <3> HIDE DEF q
    <3>1. /\ q(j) = Round * (q(j) \div Round) + (q(j) % Round)
          /\ q(k) = Round * (q(k) \div Round) + (q(k) % Round)
      BY <1>4 DEF q
    <3> QED BY <3>1, <2>2, <2>3, Zenon
  <2>5. j - 1 = k - 1
    <3>1. /\ j - 1 = Block * q(j) + ((j - 1) % Block)
          /\ k - 1 = Block * q(k) + ((k - 1) % Block)
      BY <1>4
    <3> HIDE DEF q
    <3> QED BY <3>1, <2>1, <2>4, Zenon
  <2> QED BY <2>5
<1> QED BY <1>2, <1>5 DEF IsInjective

(* The invariant says what BytesInOrder says. *)
LEMMA RandInvOrders == RandInv => BytesInOrder
<1> SUFFICES ASSUME RandInv PROVE BytesInOrder
  OBVIOUS
<1>1. Tape(ctx, given, stirs) /\ Laid(ctx, given) /\ Stirred(ctx, given, stirs)
  BY DEF RandInv, Tape
<1>2. \A k \in DOMAIN given :
        /\ given[k][3] = ((k - 1) % Block) + 1
        /\ Numbered(given[k][2]) = ((k - 1) \div Block) % Round
  BY <1>1 DEF Laid, Fits
<1>3. Len(given) <= WordSize * WordSize * Block * (IF stirs = <<>> THEN WordSize ELSE 1)
        => IsInjective(given)
  BY <1>1, TapeIsInjective
<1>4. \A s \in DOMAIN stirs : \A k \in Due(stirs, s, given) : given[k][1] = stirs[s].seeds
  BY <1>1 DEF Stirred
<1> QED BY <1>2, <1>3, <1>4, Zenon DEF BytesInOrder, Numbered, Round, Due, Until

(* util_rand_bytes() hands out the key stream in the order of its counter and *)
(* without a gap, no byte twice before the counter has gone round, and what   *)
(* util_rand_stir() mixes in shows in each block begun after it: for calls    *)
(* and stirs of any size and in any order.                                    *)
THEOREM StreamInOrder == RandSpec => []BytesInOrder
<1>1. RandInit => RandInv
  BY RandInitially
<1>2. RandInv /\ [RandNext]_randVars => RandInv'
  BY RandSteps
<1>3. RandInv => BytesInOrder
  BY RandInvOrders
<1> QED BY <1>1, <1>2, <1>3, PTL DEF RandSpec
===============================================================================
