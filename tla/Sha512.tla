------------------------------- MODULE Sha512 --------------------------------
(***************************************************************************)
(* The buffering and padding of util_sha512_update() and                   *)
(* util_sha512_final() of util-rand.c: what matters is the sequence of     *)
(* blocks that are compressed.  A byte of the message is its position.     *)
(***************************************************************************)
EXTENDS Integers, SequencesExt

CONSTANTS
  BlockSize,              \* 128 bytes in the code
  LengthSize,             \* the bytes the length is written into, 8 in the code
  MaxMessage, MaxPiece    \* bounds: the message, and a piece of it

ASSUME Sha512Assumption ==
  /\ LengthSize \in Nat \ {0} /\ BlockSize \in Nat /\ BlockSize > 2 * LengthSize
  /\ MaxMessage \in Nat /\ MaxPiece \in Nat

VARIABLES
  sha,        \* util_sha512_t: buf, partial, length in bytes, and the blocks that
              \* were compressed into the state, one after the other
  message,    \* the bytes hashed so far
  final       \* util_sha512_final() was called

shaVars == <<sha, message, final>>

One == "80"
Zero == "00"
Length(n) == [j \in 1..LengthSize |-> <<n, j>>]

ShaInit ==
  /\ sha = [buf |-> [j \in 1..BlockSize |-> Zero], partial |-> 0, length |-> 0, blocks |-> <<>>]
  /\ message = <<>>
  /\ final = FALSE

Compressed(c, block) == [c EXCEPT !.blocks = @ \o block]

(* memcpy() of bytes to buf + partial *)
Buffered(c, bytes) ==
  [c EXCEPT !.partial = @ + Len(bytes),
            !.buf = [j \in DOMAIN @ |-> IF j \in (c.partial + 1)..(c.partial + Len(bytes))
                                        THEN bytes[j - c.partial] ELSE @[j]]]

(* A whole buffer is compressed, one that is not waits. *)
Flushed(c) ==
  IF c.partial < BlockSize THEN c
  ELSE [Compressed(c, c.buf) EXCEPT !.length = @ + BlockSize, !.partial = 0]

MinOf(a, b) == IF a < b THEN a ELSE b

(* util_sha512_update() *)
Updated(c, piece) ==
  LET offset == IF c.partial = 0 THEN 0 ELSE MinOf(Len(piece), BlockSize - c.partial)
      filled == IF c.partial = 0 THEN c ELSE Flushed(Buffered(c, SubSeq(piece, 1, offset)))
      whole  == BlockSize * ((Len(piece) - offset) \div BlockSize)
      passed == [Compressed(filled, SubSeq(piece, offset + 1, offset + whole))
                   EXCEPT !.length = @ + whole]
      rest   == SubSeq(piece, offset + whole + 1, Len(piece))
  IN Buffered(passed, SubSeq(rest, 1, MinOf(Len(rest), BlockSize - passed.partial)))

Update ==
  /\ ~final
  /\ \E n \in 0..MaxPiece :
       LET piece == [j \in 1..n |-> Len(message) + j]
       IN /\ Len(message) + n <= MaxMessage
          /\ sha' = Updated(sha, piece)
          /\ message' = message \o piece
  /\ UNCHANGED final

Zeros(c, until) == Buffered(c, [j \in 1..(until - c.partial) |-> Zero])

(* Mutant for Padded: a block without room for the length is not closed. *)
FinishedMutant(c) ==
  LET marked == Buffered([c EXCEPT !.length = @ + c.partial], <<One>>)
      open   == IF marked.partial = BlockSize THEN [Compressed(marked, marked.buf) EXCEPT !.partial = 0]
                ELSE marked
      zeros  == Zeros(open, BlockSize - LengthSize)
  IN Compressed(zeros, SubSeq(zeros.buf, 1, BlockSize - LengthSize) \o Length(zeros.length))

(* util_sha512_final() *)
Finished(c) ==
  LET marked == Buffered([c EXCEPT !.length = @ + c.partial], <<One>>)
      closed == Zeros(marked, BlockSize)
      open   == IF marked.partial > BlockSize - 2 * LengthSize
                THEN [Compressed(closed, closed.buf) EXCEPT !.partial = 0] ELSE marked
      zeros  == Zeros(open, BlockSize - LengthSize)
  IN Compressed(zeros, SubSeq(zeros.buf, 1, BlockSize - LengthSize) \o Length(zeros.length))

Final ==
  /\ ~final
  /\ sha' = Finished(sha)
  /\ final' = TRUE
  /\ UNCHANGED message

ShaNext == Update \/ Final

ShaSpec == ShaInit /\ [][ShaNext]_shaVars

------------------------------------------------------------------------------
(* The padding of the standard: a one, the fewest zeros that leave room for a *)
(* length twice as wide as the one that is written, and the length.           *)
PaddedMessage(m) ==
  LET over == (Len(m) + 1 + 2 * LengthSize) % BlockSize
      fill == IF over = 0 THEN 0 ELSE BlockSize - over
  IN m \o <<One>> \o [j \in 1..(fill + LengthSize) |-> Zero] \o Length(Len(m))

(* However a message is cut into updates, what is compressed before the end   *)
(* is its whole blocks, and at the end all of it, padded as the standard      *)
(* says: no byte is lost, doubled, or left over from an earlier block.        *)
Padded ==
  sha.blocks = IF final THEN PaddedMessage(message)
               ELSE SubSeq(message, 1, BlockSize * (Len(message) \div BlockSize))
==============================================================================
