-------------------------------- MODULE Rand ---------------------------------
(***************************************************************************)
(* The random numbers of util-rand.c: a cipher makes blocks of key stream, *)
(* numbered by a counter of three words, and util_rand_bytes() hands out   *)
(* their bytes.  The cipher is abstract: a byte is where it comes from.    *)
(***************************************************************************)
EXTENDS Integers, SequencesExt

CONSTANTS
  Block,      \* the bytes of a block, 64 in the code
  WordSize,   \* the values of a word of the state, 2^32 in the code
  Seeds,      \* the seeds there are
  Nonce,      \* the word of a seed's hash that goes into the counter's last word
  Mix(_, _),  \* exclusive or, of two words
  MaxAsk, MaxGiven, MaxStirs   \* bounds: bytes of a call, of all of them, stirs

ASSUME RandAssumption ==
  /\ Block \in Nat \ {0} /\ WordSize \in Nat \ {0, 1}
  /\ Nonce \in [Seeds -> 0..(WordSize - 1)]
  /\ \A a, b \in 0..(WordSize - 1) : Mix(a, b) \in 0..(WordSize - 1)
  /\ MaxAsk \in Nat /\ MaxGiven \in Nat /\ MaxStirs \in Nat

VARIABLES
  ctx,        \* myrand_t: the key, words 12 to 14 of the state, buf and partial
  given,      \* the bytes handed out so far
  stirs       \* for the properties: after how many bytes each stir came, and the
              \* seeds that were mixed by then

randVars == <<ctx, given, stirs>>

------------------------------------------------------------------------------
(* chacha20_cryptomagic() *)
KeyStream(key, words) == [j \in 1..Block |-> <<key, words, j>>]

(* util_rand_seed().  The key is the set of seeds that are mixed into it, as  *)
(* mixing is by exclusive or.                                                 *)
RandInit ==
  /\ \E seed \in Seeds :
       LET words == <<0, 0, Nonce[seed]>>
       IN ctx = [key |-> {seed}, words |-> words, partial |-> 0, buf |-> KeyStream({seed}, words)]
  /\ given = <<>>
  /\ stirs = <<>>

Inc(word) == (word + 1) % WordSize

(* Mutant for BytesInOrder: the carry is taken from the word before its step. *)
CountedMutant(w) ==
  <<Inc(w[1]), IF w[1] = 0 THEN Inc(w[2]) ELSE w[2], w[3]>>

Counted(w) ==
  << Inc(w[1]),
     IF Inc(w[1]) = 0 THEN Inc(w[2]) ELSE w[2],
     IF Inc(w[1]) = 0 /\ Inc(w[2]) = 0 THEN Inc(w[3]) ELSE w[3] >>

NextBlock(c) ==
  LET words == Counted(c.words)
  IN [c EXCEPT !.words = words, !.buf = KeyStream(c.key, words), !.partial = 0]

(* One turn of the loop of util_rand_bytes(): what is left of the block, or   *)
(* as much of it as is still asked for.                                       *)
Draw(d) ==
  LET jlen == IF d.ctx.partial + d.left < Block THEN d.ctx.partial + d.left ELSE Block
      read == [d.ctx EXCEPT !.partial = jlen]
  IN [ ctx  |-> IF jlen >= Block THEN NextBlock(read) ELSE read,
       left |-> d.left - (jlen - d.ctx.partial),
       out  |-> d.out \o SubSeq(d.ctx.buf, d.ctx.partial + 1, jlen) ]

(* The loop, which takes a byte at least in each turn. *)
Drawn(c, n) ==
  LET after[k \in 0..n] ==
        IF k = 0 THEN [ctx |-> c, left |-> n, out |-> <<>>]
        ELSE LET d == after[k - 1] IN IF d.left = 0 THEN d ELSE Draw(d)
  IN after[n]

(* util_rand_bytes(), and util_rand(), util_rand32(), ... by their sizes *)
Bytes ==
  \E n \in 0..MaxAsk :
    LET drawn == Drawn(ctx, n)
    IN /\ Len(given) + n <= MaxGiven
       /\ ctx' = drawn.ctx
       /\ given' = given \o drawn.out
       /\ UNCHANGED stirs

(* util_rand_stir(): the state is mixed, and not the block that is being read. *)
Stir ==
  /\ Len(stirs) < MaxStirs
  /\ \E seed \in Seeds :
       /\ ctx' = [ctx EXCEPT !.key = SymDiff(@, {seed}), !.words[3] = Mix(@, Nonce[seed])]
       /\ stirs' = Append(stirs, [after |-> Len(given), seeds |-> SymDiff(ctx.key, {seed})])
  /\ UNCHANGED given

RandNext == Bytes \/ Stir

RandSpec == RandInit /\ [][RandNext]_randVars

------------------------------------------------------------------------------
(* However the calls cut the key stream, its blocks are read from their first *)
(* byte to their last, one after the other as the counter numbers them.  No   *)
(* byte of it is handed out twice, until the words that a stir leaves alone   *)
(* have gone round, or, when nothing is stirred, all three have.  And a byte  *)
(* depends on every seed stirred in before its block was made: at most the    *)
(* rest of one block comes without a new seed.                                *)
BytesInOrder ==
  LET Number(w) == w[1] + WordSize * w[2]
      Until(s) == IF s = Len(stirs) THEN Len(given) ELSE stirs[s + 1].after
  IN /\ \A k \in DOMAIN given :
          /\ given[k][3] = ((k - 1) % Block) + 1
          /\ Number(given[k][2]) = ((k - 1) \div Block) % (WordSize * WordSize)
     /\ Len(given) <= WordSize * WordSize * Block * (IF stirs = <<>> THEN WordSize ELSE 1)
          => IsInjective(given)
     /\ \A s \in DOMAIN stirs : \A k \in (stirs[s].after + Block + 1)..Until(s) :
          given[k][1] = stirs[s].seeds
==============================================================================
