----------------------------- MODULE Conf_proofs -----------------------------
(***************************************************************************)
(* The command line and the request it makes: for any arguments, what the  *)
(* program starts with is what the last URL says; and however many edits   *)
(* there are, the request is the one they ask for.                         *)
(***************************************************************************)
EXTENDS Conf, Induction, SequenceTheorems

------------------------------------------------------------------------------
(* Sequences of tokens. *)

(* All of them are strings, which the provers do not know of a literal. *)
Token == STRING \cup Spaces \cup {":", "/", "GET", "HTTP/1.1", "url", "Host"}
Tokens == Seq(Token)

LEMMA Single ==
  ASSUME NEW S, NEW x \in S
  PROVE  <<x>> \in Seq(S) /\ Len(<<x>>) = 1 /\ <<x>>[1] = x
OBVIOUS

LEMMA Double ==
  ASSUME NEW S, NEW x \in S, NEW y \in S
  PROVE  <<x, y>> \in Seq(S) /\ Len(<<x, y>>) = 2 /\ <<x, y>>[1] = x /\ <<x, y>>[2] = y
OBVIOUS

Gap == " "
Mark == ":"
Blank == <<Gap>>
Colon == <<Mark, Gap>>

LEMMA Controls ==
  /\ CR # LF /\ CR # Gap /\ LF # Gap /\ Mark \notin Spaces
  /\ CR \in Spaces /\ LF \in Spaces /\ Gap \in Spaces
  /\ Eol \in Tokens /\ Len(Eol) = 2 /\ Eol[1] = CR /\ Eol[2] = LF
  /\ Blank \in Tokens /\ Len(Blank) = 1 /\ Blank[1] = Gap
  /\ Colon \in Tokens /\ Len(Colon) = 2 /\ Colon[1] = Mark /\ Colon[2] = Gap
<1>1. CR # LF /\ CR # Gap /\ LF # Gap /\ Mark \notin Spaces
  BY DEF CR, LF, Gap, Mark, Spaces
<1>2. CR \in Spaces /\ LF \in Spaces /\ Gap \in Spaces
  BY DEF Spaces, Gap
<1>3. CR \in Token /\ LF \in Token /\ Gap \in Token /\ Mark \in Token
  BY <1>2 DEF Token, Mark
<1>4. Eol \in Tokens /\ Len(Eol) = 2 /\ Eol[1] = CR /\ Eol[2] = LF
  BY <1>3, Double DEF Eol, Tokens
<1>5. Blank \in Tokens /\ Len(Blank) = 1 /\ Blank[1] = Gap
  BY <1>3, Single DEF Blank, Tokens
<1>6. Colon \in Tokens /\ Len(Colon) = 2 /\ Colon[1] = Mark /\ Colon[2] = Gap
  BY <1>3, Double DEF Colon, Tokens
<1> QED BY <1>1, <1>2, <1>4, <1>5, <1>6

IsJoin(u, s, t) ==
  /\ u \in Tokens /\ Len(u) = Len(s) + Len(t)
  /\ \A k \in 1..Len(s) : u[k] = s[k]
  /\ \A i \in 1..Len(t) : u[Len(s) + i] = t[i]

LEMMA Joined ==
  ASSUME NEW s \in Tokens, NEW t \in Tokens
  PROVE  IsJoin(s \o t, s, t)
<1>1. s \o t \in Tokens /\ Len(s \o t) = Len(s) + Len(t)
  BY ConcatProperties DEF Tokens
<1>2. \A k \in 1..Len(s) : (s \o t)[k] = s[k]
  BY ConcatProperties DEF Tokens
<1>3. ASSUME NEW i \in 1..Len(t) PROVE (s \o t)[Len(s) + i] = t[i]
  <2>1. Len(s) + i \in 1..(Len(s) + Len(t)) /\ ~(Len(s) + i <= Len(s)) /\ (Len(s) + i) - Len(s) = i
    BY DEF Tokens
  <2> QED BY <2>1, ConcatProperties DEF Tokens
<1> QED BY <1>1, <1>2, <1>3 DEF IsJoin

LEMMA Regroup ==
  ASSUME NEW s \in Tokens, NEW t \in Tokens, NEW u \in Tokens
  PROVE  (s \o t) \o u = s \o (t \o u)
BY ConcatAssociative DEF Tokens

Regroups(s, t, u) == (s \o t) \o u = s \o (t \o u)

LEMMA Regrouped ==
  ASSUME NEW s \in Tokens, NEW t \in Tokens, NEW u \in Tokens
  PROVE  Regroups(s, t, u)
BY Regroup DEF Regroups

LEMMA WithNothing ==
  ASSUME NEW s \in Tokens
  PROVE  s \o <<>> = s /\ <<>> \o s = s /\ <<>> \in Tokens /\ Len(<<>>) = 0
BY ConcatEmptySeq, EmptySeq DEF Tokens

LEMMA Piece ==
  ASSUME NEW s \in Tokens
  PROVE  /\ Len(s) \in Nat /\ DOMAIN s = 1..Len(s) /\ \A k \in 1..Len(s) : s[k] \in Token
         /\ (s = <<>> <=> Len(s) = 0)
BY LenProperties, EmptySeq DEF Tokens

(* The three pieces of a sequence a, w, b. *)
IsThree(h, a, w, b) ==
  /\ h \in Tokens
  /\ Len(h) = Len(a) + Len(w) + Len(b)
  /\ \A k \in 1..Len(a) : h[k] = a[k]
  /\ \A i \in 1..Len(w) : h[Len(a) + i] = w[i]
  /\ \A j \in 1..Len(b) : h[Len(a) + Len(w) + j] = b[j]

LEMMA Three ==
  ASSUME NEW a \in Tokens, NEW w \in Tokens, NEW b \in Tokens
  PROVE  IsThree(a \o (w \o b), a, w, b)
<1> DEFINE wb == w \o b
           h == a \o wb
<1>1. IsJoin(wb, w, b)
  BY Joined
<1>2. wb \in Tokens
  BY <1>1 DEF IsJoin
<1> HIDE DEF wb
<1>3. IsJoin(h, a, wb)
  BY <1>2, Joined
<1> HIDE DEF h
<1>4. Len(a) \in Nat /\ Len(w) \in Nat /\ Len(b) \in Nat
  BY Piece
<1>5. h \in Tokens /\ Len(h) = Len(a) + Len(w) + Len(b)
  BY <1>1, <1>3, <1>4 DEF IsJoin
<1>6. \A k \in 1..Len(a) : h[k] = a[k]
  BY <1>3 DEF IsJoin
<1>7. ASSUME NEW i \in 1..Len(w) PROVE h[Len(a) + i] = w[i]
  BY <1>1, <1>3, <1>4 DEF IsJoin
<1>8. ASSUME NEW j \in 1..Len(b) PROVE h[Len(a) + Len(w) + j] = b[j]
  <2>1. Len(w) + j \in 1..Len(wb) /\ Len(a) + Len(w) + j = Len(a) + (Len(w) + j)
    BY <1>1, <1>4 DEF IsJoin
  <2>2. wb[Len(w) + j] = b[j]
    BY <1>1 DEF IsJoin
  <2>3. h[Len(a) + (Len(w) + j)] = wb[Len(w) + j]
    BY <2>1, <1>3 DEF IsJoin
  <2> QED BY <2>1, <2>2, <2>3
<1> QED BY <1>5, <1>6, <1>7, <1>8 DEF h, wb, IsThree

LEMMA SameTokens ==
  ASSUME NEW s \in Tokens, NEW t \in Tokens, Len(s) = Len(t), \A k \in 1..Len(s) : s[k] = t[k]
  PROVE  s = t
BY SeqEqual DEF Tokens

(* What _http_insert() makes of three pieces. *)
Replaces(a, w, b, v) == Insert(a \o (w \o b), Len(a), Len(a) + Len(w), v) = a \o (v \o b)

LEMMA Inserted ==
  ASSUME NEW a \in Tokens, NEW w \in Tokens, NEW b \in Tokens, NEW v \in Tokens
  PROVE  Replaces(a, w, b, v)
<1> DEFINE h == a \o (w \o b)
           x == SubSeq(h, 1, Len(a))
           z == SubSeq(h, Len(a) + Len(w) + 1, Len(h))
<1>1. /\ h \in Tokens
      /\ Len(h) = Len(a) + Len(w) + Len(b)
      /\ \A k \in 1..Len(a) : h[k] = a[k]
      /\ \A j \in 1..Len(b) : h[Len(a) + Len(w) + j] = b[j]
  <2>1. IsThree(h, a, w, b)
    BY Three
  <2> HIDE DEF h
  <2> QED BY <2>1 DEF IsThree
<1>2. Len(a) \in Nat /\ Len(w) \in Nat /\ Len(b) \in Nat
  BY Piece
<1> HIDE DEF h
<1>3. \A k \in 1..Len(h) : h[k] \in Token
  BY <1>1, Piece
<1>4. x = a
  <2>1. x \in Tokens /\ Len(x) = Len(a) /\ \A k \in 1..Len(a) : x[k] = h[k]
    <3>1. \A k \in 1..Len(a) : h[k] \in Token
      BY <1>1, <1>2, <1>3
    <3>2. /\ x \in Seq(Token)
          /\ Len(x) = IF 1 <= Len(a) THEN Len(a) - 1 + 1 ELSE 0
          /\ \A k \in 1..(Len(a) - 1 + 1) : x[k] = h[1 + k - 1]
      BY <1>2, <3>1, SubSeqProperties
    <3> QED BY <1>2, <3>2 DEF Tokens
  <2> HIDE DEF x
  <2> QED BY <1>1, <2>1, SameTokens
<1>5. z = b
  <2> DEFINE m == Len(a) + Len(w) + 1
             n == Len(h)
  <2>1. m \in Int /\ n \in Int /\ n - m + 1 = Len(b) /\ m >= 1
    BY <1>1, <1>2
  <2>2. \A k \in m..n : h[k] \in Token
    BY <2>1, <1>3
  <2>3. /\ z \in Tokens
        /\ Len(z) = IF m <= n THEN n - m + 1 ELSE 0
        /\ \A k \in 1..(n - m + 1) : z[k] = h[m + k - 1]
    BY <2>1, <2>2, SubSeqProperties DEF Tokens
  <2>4. Len(z) = Len(b)
    BY <1>1, <1>2, <2>1, <2>3
  <2>5. \A k \in 1..Len(b) : z[k] = b[k]
    <3> SUFFICES ASSUME NEW k \in 1..Len(b) PROVE z[k] = b[k]
      OBVIOUS
    <3>1. z[k] = h[m + k - 1] /\ m + k - 1 = Len(a) + Len(w) + k
      BY <1>2, <2>1, <2>3
    <3> QED BY <3>1, <1>1
  <2> HIDE DEF z, m, n
  <2> QED BY <2>3, <2>4, <2>5, SameTokens
<1>6. Insert(h, Len(a), Len(a) + Len(w), v) = (x \o v) \o z
  BY DEF Insert
<1> HIDE DEF x, z
<1>7. (a \o v) \o b = a \o (v \o b)
  BY Regroup
<1> QED BY <1>4, <1>5, <1>6, <1>7 DEF h, Replaces

------------------------------------------------------------------------------
(* What _skip() and its kind skip. *)

Plain == {w \in Tokens : \A i \in 1..Len(w) : w[i] \notin Spaces}
Name == {w \in Plain : w # <<>> /\ \A i \in 1..Len(w) : w[i] # Mark}
OneLine == {w \in Tokens : \A i \in 1..Len(w) : w[i] # LF}

LEMMA OverIs ==
  ASSUME NEW h, Len(h) \in Nat, NEW T, NEW o \in Nat, NEW k \in o..Len(h),
         k = Len(h) \/ h[k + 1] \notin T, \A j \in o..(k - 1) : h[j + 1] \in T
  PROVE  Over(h, o, T) = k
<1> DEFINE Stops(i) == /\ i = Len(h) \/ h[i + 1] \notin T
                       /\ \A j \in o..(i - 1) : h[j + 1] \in T
<1>1. Stops(k)
  OBVIOUS
<1>2. ASSUME NEW i \in o..Len(h), Stops(i) PROVE i = k
  <2>1. ~(i < k)
    <3> SUFFICES ASSUME i < k PROVE FALSE
      OBVIOUS
    <3>1. i \in o..(k - 1) /\ i # Len(h)
      OBVIOUS
    <3> QED BY <3>1, <1>2
  <2>2. ~(k < i)
    <3> SUFFICES ASSUME k < i PROVE FALSE
      OBVIOUS
    <3>1. k \in o..(i - 1) /\ k # Len(h)
      OBVIOUS
    <3> QED BY <3>1, <1>2
  <2> QED BY <2>1, <2>2
<1>3. Over(h, o, T) = CHOOSE i \in o..Len(h) : Stops(i)
  BY DEF Over
<1> HIDE DEF Stops
<1> QED BY <1>1, <1>2, <1>3

(* A piece of tokens of the set, up to one that is not. *)
LEMMA OverPiece ==
  ASSUME NEW a \in Tokens, NEW w \in Tokens, NEW b \in Tokens, NEW T,
         \A i \in 1..Len(w) : w[i] \in T, b = <<>> \/ b[1] \notin T
  PROVE  Over(a \o (w \o b), Len(a), T) = Len(a) + Len(w)
<1> DEFINE h == a \o (w \o b)
           k == Len(a) + Len(w)
<1>1. /\ Len(h) = Len(a) + Len(w) + Len(b)
      /\ \A i \in 1..Len(w) : h[Len(a) + i] = w[i]
      /\ \A j \in 1..Len(b) : h[Len(a) + Len(w) + j] = b[j]
  <2>1. IsThree(h, a, w, b)
    BY Three
  <2> HIDE DEF h
  <2> QED BY <2>1 DEF IsThree
<1>2. Len(a) \in Nat /\ Len(w) \in Nat /\ Len(b) \in Nat /\ (b = <<>> <=> Len(b) = 0)
  BY Piece
<1> HIDE DEF h
<1>3. Len(h) \in Nat /\ k \in Len(a)..Len(h)
  BY <1>1, <1>2
<1>4. k = Len(h) \/ h[k + 1] \notin T
  <2>1. CASE Len(b) = 0
    BY <2>1, <1>1, <1>2
  <2>2. CASE Len(b) # 0
    <3>1. 1 \in 1..Len(b)
      BY <2>2, <1>2
    <3> QED BY <3>1, <2>2, <1>1, <1>2
  <2> QED BY <2>1, <2>2
<1>5. ASSUME NEW j \in Len(a)..(k - 1) PROVE h[j + 1] \in T
  <2>1. j + 1 - Len(a) \in 1..Len(w) /\ j + 1 = Len(a) + (j + 1 - Len(a))
    BY <1>2
  <2>2. h[Len(a) + (j + 1 - Len(a))] = w[j + 1 - Len(a)]
    BY <2>1, <1>1
  <2> QED BY <2>1, <2>2
<1> HIDE DEF k
<1>6. Over(h, Len(a), T) = k
  BY <1>2, <1>3, <1>4, <1>5, OverIs
<1> QED BY <1>6 DEF h, k

LEMMA WordsIn ==
  ASSUME NEW a \in Tokens, NEW w \in Tokens, NEW b \in Tokens
  PROVE  LET h == a \o (w \o b)
         IN \A i \in 1..Len(w) : w[i] \in ToSet(h)
<1> DEFINE h == a \o (w \o b)
<1>1. /\ h \in Tokens
      /\ Len(h) = Len(a) + Len(w) + Len(b)
      /\ \A i \in 1..Len(w) : h[Len(a) + i] = w[i]
  <2>1. IsThree(h, a, w, b)
    BY Three
  <2> HIDE DEF h
  <2> QED BY <2>1 DEF IsThree
<1>2. Len(a) \in Nat /\ Len(w) \in Nat /\ Len(b) \in Nat
  BY Piece
<1> HIDE DEF h
<1>3. DOMAIN h = 1..Len(h)
  BY <1>1, Piece
<1>4. ASSUME NEW i \in 1..Len(w) PROVE w[i] \in ToSet(h)
  <2>1. Len(a) + i \in DOMAIN h /\ h[Len(a) + i] = w[i]
    BY <1>1, <1>2, <1>3
  <2> QED BY <2>1 DEF ToSet
<1> QED BY <1>4 DEF h

LEMMA SkipsWord ==
  ASSUME NEW a \in Tokens, NEW w \in Plain, NEW b \in Tokens, b = <<>> \/ b[1] \in Spaces
  PROVE  SkipWord(a \o (w \o b), Len(a)) = Len(a) + Len(w)
<1> DEFINE h == a \o (w \o b)
           T == Words(h)
<1>1. w \in Tokens
  BY DEF Plain
<1>2. \A i \in 1..Len(w) : w[i] \in T
  BY <1>1, WordsIn DEF Plain, Words
<1>3. b = <<>> \/ b[1] \notin T
  BY DEF Words
<1>4. SkipWord(h, Len(a)) = Over(h, Len(a), T)
  BY DEF SkipWord
<1> HIDE DEF T
<1>5. Over(h, Len(a), T) = Len(a) + Len(w)
  BY <1>1, <1>2, <1>3, OverPiece
<1> QED BY <1>4, <1>5

LEMMA SkipsName ==
  ASSUME NEW a \in Tokens, NEW w \in Tokens, NEW b \in Tokens, w = <<>> \/ w \in Name,
         b # <<>>, b[1] \in Spaces \cup {Mark}
  PROVE  SkipName(a \o (w \o b), Len(a)) = Len(a) + Len(w)
<1> DEFINE h == a \o (w \o b)
           T == Words(h) \ {Mark}
<1>1. \A i \in 1..Len(w) : w[i] \in T
  <2>1. CASE w = <<>>
    BY <2>1
  <2>2. CASE w \in Name
    BY <2>2, WordsIn DEF Name, Plain, Words
  <2> QED BY <2>1, <2>2
<1>2. b = <<>> \/ b[1] \notin T
  BY DEF Words
<1>3. SkipName(h, Len(a)) = Over(h, Len(a), T)
  BY DEF SkipName, Mark
<1> HIDE DEF T
<1>4. Over(h, Len(a), T) = Len(a) + Len(w)
  BY <1>1, <1>2, OverPiece
<1> QED BY <1>3, <1>4

(* A line and its end are skipped. *)
LEMMA SkipsLine ==
  ASSUME NEW a \in Tokens, NEW x \in OneLine, NEW b \in Tokens, b # <<>>, b[1] = LF
  PROVE  SkipLine(a \o (x \o b), Len(a)) = Len(a) + Len(x) + 1
<1> DEFINE h == a \o (x \o b)
           T == ToSet(h) \ {LF}
           k == Over(h, Len(a), T)
<1>1. x \in Tokens
  BY DEF OneLine
<1>2. \A i \in 1..Len(x) : x[i] \in T
  BY <1>1, WordsIn DEF OneLine
<1>3. b = <<>> \/ b[1] \notin T
  OBVIOUS
<1>4. SkipLine(h, Len(a)) = IF k < Len(h) THEN k + 1 ELSE k
  BY DEF SkipLine
<1>5. k = Len(a) + Len(x)
  <2> HIDE DEF T
  <2> QED BY <1>1, <1>2, <1>3, OverPiece
<1> HIDE DEF T, k
<1>6. Len(h) = Len(a) + Len(x) + Len(b)
  BY <1>1, Three DEF IsThree
<1>7. Len(a) \in Nat /\ Len(x) \in Nat /\ Len(b) \in Nat /\ Len(b) # 0
  BY <1>1, Piece
<1> HIDE DEF h
<1>8. k < Len(h)
  BY <1>5, <1>6, <1>7
<1>9. SkipLine(h, Len(a)) = Len(a) + Len(x) + 1
  BY <1>4, <1>5, <1>8
<1> QED BY <1>9 DEF h

(* Spaces before a word are skipped. *)
LEMMA SkipsSpaces ==
  ASSUME NEW a \in Tokens, NEW x \in Tokens, NEW b \in Tokens,
         \A i \in 1..Len(x) : x[i] = Gap, b = <<>> \/ b[1] \notin Spaces
  PROVE  SkipSpaces(a \o (x \o b), Len(a)) = Len(a) + Len(x)
<1> DEFINE h == a \o (x \o b)
           T == Spaces \ {LF}
           k == Over(h, Len(a), T)
           back == CHOOSE j \in 0..k : /\ \A i \in (j + 1)..k : h[i] = CR
                                       /\ j = 0 \/ h[j] # CR
<1>1. \A i \in 1..Len(x) : x[i] \in T
  BY Controls
<1>2. b = <<>> \/ b[1] \notin T
  OBVIOUS
<1>3. SkipSpaces(h, Len(a)) = IF k = Len(h) \/ h[k + 1] # LF THEN k ELSE back
  BY DEF SkipSpaces
<1>4. k = Len(a) + Len(x)
  <2> HIDE DEF T
  <2> QED BY <1>1, <1>2, OverPiece
<1>5. /\ Len(h) = Len(a) + Len(x) + Len(b)
      /\ \A j \in 1..Len(b) : h[Len(a) + Len(x) + j] = b[j]
  <2>1. IsThree(h, a, x, b)
    BY Three
  <2> HIDE DEF h
  <2> QED BY <2>1 DEF IsThree
<1>6. Len(a) \in Nat /\ Len(x) \in Nat /\ Len(b) \in Nat /\ (b = <<>> <=> Len(b) = 0)
  BY Piece
<1> HIDE DEF T, k, back, h
<1>7. k = Len(h) \/ h[k + 1] # LF
  <2> DEFINE m == Len(b)
             first == b[1]
  <2>1. m \in Nat /\ k \in Nat /\ Len(h) = k + m /\ (m # 0 => h[k + 1] = first)
    BY <1>4, <1>5, <1>6
  <2>2. m = 0 \/ first # LF
    BY <1>6, Controls
  <2> HIDE DEF m, first
  <2> QED BY <2>1, <2>2
<1>8. SkipSpaces(h, Len(a)) = Len(a) + Len(x)
  BY <1>3, <1>4, <1>7
<1> QED BY <1>8 DEF h

(* The end of the line is not a space. *)
LEMMA SkipsNoEol ==
  ASSUME NEW a \in Tokens, NEW b \in Tokens, a # <<>>, a[Len(a)] # CR
  PROVE  SkipSpaces(a \o (Eol \o b), Len(a)) = Len(a)
<1> DEFINE h == a \o (Eol \o b)
           T == Spaces \ {LF}
           k == Over(h, Len(a), T)
           n == Len(a)
           Back(j) == /\ \A i \in (j + 1)..k : h[i] = CR
                      /\ j = 0 \/ h[j] # CR
<1>1. IsThree(h, a, Eol, b)
  BY Controls, Three
<1>2. n \in Nat /\ n # 0 /\ Len(b) \in Nat
  BY Piece
<1>3. SkipSpaces(h, n) = IF k = Len(h) \/ h[k + 1] # LF THEN k ELSE CHOOSE j \in 0..k : Back(j)
  BY DEF SkipSpaces
<1>4. k = Over(h, n, T)
  OBVIOUS
<1> HIDE DEF h, n, k
<1>5. /\ Len(h) = n + 2 + Len(b) /\ h[n + 1] = CR /\ h[n + 2] = LF /\ h[n] # CR
  <2>1. h[n + 1] = Eol[1] /\ h[n + 2] = Eol[2] /\ Len(h) = n + 2 + Len(b)
    <3>1. 1 \in 1..Len(Eol) /\ 2 \in 1..Len(Eol) /\ Len(Eol) = 2
      BY Controls
    <3> QED BY <3>1, <1>1 DEF IsThree, n
  <2>2. h[n] = a[n]
    BY <1>1, <1>2 DEF IsThree, n
  <2> QED BY <2>1, <2>2, Controls DEF n
<1>6. k = n + 1
  <2>1. Len(h) \in Nat /\ n + 1 \in n..Len(h)
    BY <1>2, <1>5
  <2>2. h[(n + 1) + 1] \notin T
    <3>1. (n + 1) + 1 = n + 2
      BY <1>2
    <3> QED BY <3>1, <1>5
  <2>3. \A j \in n..((n + 1) - 1) : h[j + 1] \in T
    <3>1. \A j \in n..((n + 1) - 1) : j = n
      BY <1>2
    <3> QED BY <3>1, <1>5, Controls
  <2> HIDE DEF T
  <2>4. Over(h, n, T) = n + 1
    BY <1>2, <2>1, <2>2, <2>3, OverIs
  <2> QED BY <2>4, <1>4
<1>7. k # Len(h) /\ h[k + 1] = LF
  <2>1. k + 1 = n + 2
    BY <1>2, <1>6
  <2> QED BY <2>1, <1>2, <1>5, <1>6
<1>8. n \in 0..k /\ Back(n)
  BY <1>2, <1>5, <1>6
<1>9. ASSUME NEW j \in 0..k, Back(j) PROVE j = n
  <2>1. ~(j < n)
    <3> SUFFICES ASSUME j < n PROVE FALSE
      OBVIOUS
    <3>1. n \in (j + 1)..k
      BY <1>2, <1>6
    <3> QED BY <3>1, <1>5, <1>9
  <2>2. j # k
    <3>1. k # 0 /\ h[k] = CR
      BY <1>2, <1>5, <1>6
    <3> QED BY <3>1, <1>9
  <2> QED BY <2>1, <2>2, <1>2, <1>6
<1> HIDE DEF Back
<1>10. SkipSpaces(h, n) = n
  BY <1>3, <1>7, <1>8, <1>9
<1> QED BY <1>10 DEF h, n

------------------------------------------------------------------------------
(* The three words of the first line. *)

PartIs(s, k, name, value, spaced, o, h) ==
  /\ spaced = IF k = 1 THEN s.h ELSE Default(s.h, s.o, {}, Gap)
  /\ o = SkipSpaces(spaced, s.o)
  /\ h = Word(spaced, o, {}, Defaults[k], Same(name, <<Names[k]>>), value)
  /\ Part(s, k, name, value, {}) = [h |-> h, o |-> SkipWord(h, o)]

LEMMA PartSteps ==
  ASSUME NEW s, NEW k, NEW name, NEW value
  PROVE  \E spaced, o, h : PartIs(s, k, name, value, spaced, o, h)
<1> DEFINE spaced == IF k = 1 THEN s.h ELSE Default(s.h, s.o, {}, Gap)
           o == SkipSpaces(spaced, s.o)
           h == Word(spaced, o, {}, Defaults[k], Same(name, <<Names[k]>>), value)
<1>1. PartIs(s, k, name, value, spaced, o, h)
  BY Zenon DEF PartIs, Part, Gap
<1> QED BY <1>1

NewWord(k, name, value, old) == IF Same(name, <<Names[k]>>) THEN value ELSE old

(* A word the header has. *)
OldYields(a, x, w, b, k, name, value) ==
  Part([h |-> a \o (x \o (w \o b)), o |-> Len(a)], k, name, value, {})
    = [h |-> a \o (x \o (NewWord(k, name, value, w) \o b)),
       o |-> Len(a) + Len(x) + Len(NewWord(k, name, value, w))]

LEMMA OldPart ==
  ASSUME NEW a \in Tokens, NEW x \in Tokens, \A i \in 1..Len(x) : x[i] = Gap,
         NEW w \in Plain, w # <<>>, NEW b \in Tokens, b # <<>>, b[1] \in Spaces,
         NEW k, NEW name, NEW value, NewWord(k, name, value, w) \in Plain
  PROVE  OldYields(a, x, w, b, k, name, value)
<1> DEFINE wb == w \o b
           old == a \o (x \o wb)
           s == [h |-> old, o |-> Len(a)]
           new == NewWord(k, name, value, w)
           ax == a \o x
           edited == Same(name, <<Names[k]>>)
<1>1. PICK spaced, o, h : PartIs(s, k, name, value, spaced, o, h)
  BY PartSteps
<1>2. w \in Tokens /\ (edited => value \in Tokens)
  BY DEF Plain, NewWord
<1>3. Len(a) \in Nat /\ Len(x) \in Nat /\ Len(w) \in Nat /\ Len(w) # 0 /\ Len(b) \in Nat
  BY <1>2, Piece
<1>4. IsJoin(wb, w, b)
  BY <1>2, Joined
<1>5. wb \in Tokens
  BY <1>4 DEF IsJoin
<1>6. Len(old) = Len(a) + Len(x) + Len(wb) /\ old \in Tokens
  <2> HIDE DEF wb
  <2>1. IsThree(a \o (x \o wb), a, x, wb)
    BY <1>5, Three
  <2> QED BY <2>1 DEF IsThree, wb
<1>7. IsJoin(ax, a, x)
  BY Joined
<1>8. ax \in Tokens /\ Len(ax) = Len(a) + Len(x)
  BY <1>7 DEF IsJoin
<1>9. \A y \in Tokens : a \o (x \o y) = ax \o y
  BY Regroup
<1>10. old = ax \o wb
  <2> HIDE DEF ax, wb
  <2> QED BY <1>5, <1>9, Zenon DEF old
<1>11. spaced = old
  <2>1. s.h = old /\ s.o = Len(a)
    OBVIOUS
  <2>2. Len(a) # Len(old)
    BY <1>3, <1>4, <1>6 DEF IsJoin
  <2> HIDE DEF s, old
  <2> QED BY <1>1, <2>1, <2>2 DEF PartIs, Default
<1>12. o = Len(ax)
  <2>1. wb = <<>> \/ wb[1] \notin Spaces
    <3>1. wb[1] = w[1] /\ 1 \in 1..Len(w)
      BY <1>3, <1>4 DEF IsJoin
    <3>2. w[1] \notin Spaces
      BY <3>1 DEF Plain
    <3> QED BY <3>1, <3>2
  <2>2. SkipSpaces(a \o (x \o wb), Len(a)) = Len(a) + Len(x)
    <3> HIDE DEF wb
    <3> QED BY <1>5, <2>1, SkipsSpaces
  <2>3. o = SkipSpaces(spaced, s.o) /\ s.o = Len(a)
    BY <1>1 DEF PartIs
  <2> QED BY <1>8, <1>11, <2>2, <2>3
<1>13. Default(spaced, o, {}, Defaults[k]) = old
  <2>1. Len(ax) # Len(old)
    BY <1>3, <1>4, <1>6, <1>8 DEF IsJoin
  <2> HIDE DEF ax, old
  <2> QED BY <2>1, <1>11, <1>12 DEF Default
<1>14. SkipWord(old, o) = Len(ax) + Len(w)
  <2> HIDE DEF ax, old
  <2>1. SkipWord(ax \o (w \o b), Len(ax)) = Len(ax) + Len(w)
    BY <1>8, SkipsWord
  <2> QED BY <2>1, <1>10, <1>12 DEF wb
<1>15. h = ax \o (new \o b)
  <2> HIDE DEF ax, old, edited
  <2>1. h = IF edited THEN Insert(old, o, SkipWord(old, o), value) ELSE old
    BY <1>1, <1>13 DEF PartIs, Word, edited
  <2>3. CASE edited
    <3>1. new = value
      BY <2>3 DEF NewWord, edited
    <3> HIDE DEF new
    <3>2. Replaces(ax, w, b, value)
      BY <1>2, <1>8, <2>3, Inserted
    <3>3. Insert(ax \o (w \o b), Len(ax), Len(ax) + Len(w), value) = ax \o (value \o b)
      BY <3>2 DEF Replaces
    <3> QED BY <2>1, <3>3, <2>3, <3>1, <1>10, <1>12, <1>14 DEF wb
  <2>4. CASE ~edited
    <3>1. new = w
      BY <2>4 DEF NewWord, edited
    <3> HIDE DEF new
    <3> QED BY <2>1, <2>4, <3>1, <1>10 DEF wb
  <2> QED BY <2>3, <2>4
<1>16. new \in Plain /\ new \in Tokens
  BY DEF Plain
<1> HIDE DEF new
<1>17. SkipWord(h, o) = Len(ax) + Len(new)
  <2> HIDE DEF ax
  <2>1. SkipWord(ax \o (new \o b), Len(ax)) = Len(ax) + Len(new)
    BY <1>8, <1>16, SkipsWord
  <2> QED BY <2>1, <1>12, <1>15
<1>18. h = a \o (x \o (new \o b))
  <2>1. new \o b \in Tokens
    <3>1. IsJoin(new \o b, new, b)
      BY <1>16, Joined
    <3> QED BY <3>1 DEF IsJoin
  <2> QED BY <2>1, <1>9, <1>15
<1>19. Part(s, k, name, value, {}) = [h |-> h, o |-> SkipWord(h, o)]
  BY <1>1 DEF PartIs
<1>20. SkipWord(h, o) = Len(a) + Len(x) + Len(new)
  BY <1>8, <1>17
<1> QED BY <1>18, <1>19, <1>20 DEF s, old, new, wb, OldYields

(* A word the header does not have yet. *)
NewYields(a, x, w, k, name, value) ==
  Part([h |-> a, o |-> Len(a)], k, name, value, {})
    = [h |-> a \o (x \o NewWord(k, name, value, w)),
       o |-> Len(a) + Len(x) + Len(NewWord(k, name, value, w))]

LEMMA NewPart ==
  ASSUME NEW a \in Tokens, NEW k \in 1..3, NEW name, NEW value, <<Defaults[k]>> \in Plain,
         NewWord(k, name, value, <<Defaults[k]>>) \in Plain
  PROVE  NewYields(a, IF k = 1 THEN <<>> ELSE Blank, <<Defaults[k]>>, k, name, value)
<1> DEFINE x == IF k = 1 THEN <<>> ELSE Blank
           w == <<Defaults[k]>>
           s == [h |-> a, o |-> Len(a)]
           new == NewWord(k, name, value, w)
           ax == a \o x
           edited == Same(name, <<Names[k]>>)
           N == <<>>
<1>1. PICK spaced, o, h : PartIs(s, k, name, value, spaced, o, h)
  BY PartSteps
<1>2. w \in Tokens /\ (edited => value \in Tokens)
  BY DEF Plain, NewWord
<1>3. N \in Tokens /\ Len(N) = 0 /\ \A y \in Tokens : y \o N = y /\ N \o y = y
  BY WithNothing
<1>4. x \in Tokens /\ \A i \in 1..Len(x) : x[i] = Gap
  <2>1. CASE k = 1
    BY <2>1, <1>3
  <2>2. CASE k # 1
    <3>1. x = Blank
      BY <2>2
    <3> HIDE DEF x
    <3>2. \A i \in 1..1 : i = 1
      OBVIOUS
    <3> QED BY <3>1, <3>2, Controls
  <2> QED BY <2>1, <2>2
<1>5. IsJoin(ax, a, x)
  <2> HIDE DEF x
  <2> QED BY <1>4, Joined
<1>6. ax \in Tokens /\ Len(ax) = Len(a) + Len(x) /\ Len(a) \in Nat /\ Len(x) \in Nat
  BY <1>4, <1>5, Piece DEF IsJoin
<1>7. spaced = ax
  <2>1. CASE k = 1
    <3>1. x = N /\ spaced = a
      BY <1>1, <2>1 DEF PartIs
    <3> HIDE DEF x, N
    <3> QED BY <3>1, <1>3
  <2>2. CASE k # 1
    <3>1. x = Blank
      BY <2>2
    <3>2. spaced = Default(a, Len(a), {}, Gap)
      BY <1>1, <2>2 DEF PartIs
    <3> HIDE DEF x, N
    <3>3. spaced = Insert(a, Len(a), Len(a), Blank)
      BY <3>2 DEF Default, Blank
    <3>4. Replaces(a, N, N, Blank)
      BY <1>3, Inserted, Controls
    <3>5. N \o N = N /\ a \o N = a /\ Blank \o N = Blank /\ Len(a) + Len(N) = Len(a)
      <4>1. Blank \in Tokens
        BY Controls
      <4>2. Len(a) + Len(N) = Len(a)
        BY <1>3, <1>6
      <4> QED BY <1>3, <4>1, <4>2, Zenon
    <3> QED BY <3>1, <3>3, <3>4, <3>5 DEF Replaces
  <2> QED BY <2>1, <2>2
<1> HIDE DEF x, N, w, edited
<1>8. o = Len(ax)
  <2>1. SkipSpaces(a \o (x \o N), Len(a)) = Len(a) + Len(x)
    <3>1. N = <<>>
      BY DEF N
    <3> QED BY <1>3, <1>4, <3>1, SkipsSpaces
  <2>2. x \o N = x
    BY <1>3, <1>4
  <2>3. o = SkipSpaces(spaced, Len(a))
    BY <1>1 DEF PartIs
  <2> QED BY <2>1, <2>2, <2>3, <1>6, <1>7
<1> HIDE DEF ax
<1>9. ASSUME NEW y \in Tokens PROVE Insert(ax, Len(ax), Len(ax), y) = ax \o y
  <2>1. Replaces(ax, N, N, y)
    BY <1>3, <1>6, Inserted
  <2>2. N \o N = N /\ ax \o N = ax /\ y \o N = y /\ Len(ax) + Len(N) = Len(ax)
    BY <1>3, <1>6
  <2> QED BY <2>1, <2>2 DEF Replaces
<1>10. Default(spaced, o, {}, Defaults[k]) = ax \o w
  <2>1. Insert(ax, Len(ax), Len(ax), w) = ax \o w
    BY <1>2, <1>9
  <2>2. w = <<Defaults[k]>>
    BY DEF w
  <2> QED BY <2>1, <2>2, <1>7, <1>8 DEF Default
<1>11. ASSUME NEW y \in Plain PROVE SkipWord(ax \o y, Len(ax)) = Len(ax) + Len(y)
  <2>1. N = <<>> /\ y \in Tokens
    BY DEF N, Plain
  <2>2. SkipWord(ax \o (y \o N), Len(ax)) = Len(ax) + Len(y)
    BY <1>3, <1>6, <2>1, SkipsWord
  <2>3. y \o N = y
    BY <1>3, <2>1
  <2> QED BY <2>2, <2>3
<1>12. ASSUME edited PROVE Insert(ax \o w, Len(ax), Len(ax) + Len(w), value) = ax \o value
  <2>1. Replaces(ax, w, N, value)
    BY <1>2, <1>3, <1>6, <1>12, Inserted
  <2>2. w \o N = w /\ value \o N = value
    BY <1>2, <1>3, <1>12
  <2> QED BY <2>1, <2>2 DEF Replaces
<1>13. w \in Plain
  BY DEF w
<1>14. h = ax \o new
  <2>1. SkipWord(ax \o w, Len(ax)) = Len(ax) + Len(w)
    BY <1>11, <1>13
  <2>2. h = IF edited THEN Insert(ax \o w, o, SkipWord(ax \o w, o), value) ELSE ax \o w
    BY <1>1, <1>10 DEF PartIs, Word, edited
  <2>3. new = IF edited THEN value ELSE w
    BY DEF NewWord, edited, w
  <2> HIDE DEF edited, new
  <2> QED BY <2>1, <2>2, <2>3, <1>8, <1>12
<1>15. new \in Plain /\ new \in Tokens
  BY DEF Plain, w
<1> HIDE DEF new
<1>16. SkipWord(h, o) = Len(a) + Len(x) + Len(new)
  BY <1>6, <1>8, <1>11, <1>14, <1>15
<1>17. ax \o new = a \o (x \o new)
  BY <1>4, <1>15, Regroup DEF ax
<1>18. Part(s, k, name, value, {}) = [h |-> h, o |-> SkipWord(h, o)]
  BY <1>1 DEF PartIs
<1> QED BY <1>14, <1>16, <1>17, <1>18 DEF s, new, w, x, NewYields

LEMMA StartsWith ==
  ASSUME NEW s \in Tokens, NEW t \in Tokens
  PROVE  /\ s \o t \in Tokens /\ Len(s \o t) = Len(s) + Len(t)
         /\ s # <<>> => s \o t # <<>> /\ (s \o t)[1] = s[1]
<1> DEFINE u == s \o t
<1>1. IsJoin(u, s, t)
  BY Joined
<1>2. Len(s) \in Nat /\ Len(t) \in Nat /\ (s = <<>> <=> Len(s) = 0)
  BY Piece
<1> HIDE DEF u
<1>3. u \in Tokens /\ Len(u) = Len(s) + Len(t)
  BY <1>1 DEF IsJoin
<1>4. u = <<>> <=> Len(u) = 0
  BY <1>3, Piece
<1>5. ASSUME s # <<>> PROVE u # <<>> /\ u[1] = s[1]
  <2>1. Len(s) # 0 /\ Len(u) # 0 /\ 1 \in 1..Len(s)
    BY <1>2, <1>3, <1>5
  <2> QED BY <2>1, <1>1, <1>4 DEF IsJoin
<1> QED BY <1>3, <1>5 DEF u

LEMMA BlankNext ==
  ASSUME NEW t \in Tokens
  PROVE  /\ Blank \o t \in Tokens /\ Blank \o t # <<>> /\ (Blank \o t)[1] \in Spaces
         /\ Len(Blank \o t) = 1 + Len(t)
<1>1. Blank \in Tokens /\ Blank # <<>> /\ Blank[1] \in Spaces /\ Len(Blank) = 1
  BY Controls, Piece
<1> QED BY <1>1, StartsWith

FirstLine(m, u, v) == (m \o (Blank \o u)) \o (Blank \o v)

AfterWords(h, name, value) ==
  Part(Part(Part([h |-> h, o |-> 0], 1, name, value, {}), 2, name, value, {}), 3, name, value, {})

(* The words of the request with one of them edited. *)
WordsEdited(line, m, u, v, name, value) ==
  line = FirstLine(NewWord(1, name, value, m), NewWord(2, name, value, u), NewWord(3, name, value, v))

LineParts(m, u, v, E) == FirstLine(m, u, v) \o E = m \o (Blank \o (u \o (Blank \o (v \o E))))

LEMMA FirstLineType ==
  ASSUME NEW m \in Tokens, NEW u \in Tokens, NEW v \in Tokens
  PROVE  /\ FirstLine(m, u, v) \in Tokens
         /\ Len(FirstLine(m, u, v)) = Len(m) + 1 + Len(u) + 1 + Len(v)
         /\ m \o (Blank \o u) \in Tokens /\ Len(m \o (Blank \o u)) = Len(m) + 1 + Len(u)
         /\ \A E \in Tokens : LineParts(m, u, v, E)
<1> DEFINE bu == Blank \o u
           bv == Blank \o v
           a == m \o bu
           line == a \o bv
<1>1. Len(m) \in Nat /\ Len(u) \in Nat /\ Len(v) \in Nat
  BY Piece
<1>2. bu \in Tokens /\ bv \in Tokens /\ Len(bu) = 1 + Len(u) /\ Len(bv) = 1 + Len(v)
  BY BlankNext
<1> HIDE DEF bu, bv
<1>3. a \in Tokens /\ Len(a) = Len(m) + Len(bu)
  BY <1>2, StartsWith
<1> HIDE DEF a
<1>4. line \in Tokens /\ Len(line) = Len(a) + Len(bv)
  BY <1>2, <1>3, StartsWith
<1>5. Len(line) = Len(m) + 1 + Len(u) + 1 + Len(v) /\ Len(a) = Len(m) + 1 + Len(u)
  <2> HIDE DEF line
  <2> QED BY <1>1, <1>2, <1>3, <1>4
<1>6. ASSUME NEW E \in Tokens PROVE line \o E = m \o (Blank \o (u \o (Blank \o (v \o E))))
  <2> DEFINE vE == v \o E
             bvE == Blank \o vE
             ubvE == u \o bvE
  <2>1. vE \in Tokens /\ Blank \in Tokens
    BY StartsWith, Controls
  <2> HIDE DEF vE
  <2>2. bvE \in Tokens
    BY <2>1, StartsWith
  <2>3. bv \o E = bvE
    <3>1. Regroups(Blank, v, E)
      BY <2>1, Regrouped
    <3> QED BY <3>1, Zenon DEF Regroups, bv, vE
  <2> HIDE DEF bvE
  <2>4. line \o E = a \o bvE
    <3>1. Regroups(a, bv, E)
      BY <1>2, <1>3, Regrouped
    <3>2. (a \o bv) \o E = a \o (bv \o E)
      BY <3>1, Zenon DEF Regroups
    <3> QED BY <3>2, <2>3, Zenon
  <2>5. a \o bvE = m \o (bu \o bvE)
    <3>1. Regroups(m, bu, bvE)
      BY <1>2, <2>2, Regrouped
    <3> QED BY <3>1 DEF Regroups, a
  <2>6. bu \o bvE = Blank \o (u \o bvE)
    <3>1. Regroups(Blank, u, bvE)
      BY <2>1, <2>2, Regrouped
    <3> QED BY <3>1, Zenon DEF Regroups, bu
  <2> HIDE DEF line
  <2>7. line \o E = m \o (Blank \o (u \o bvE))
    BY <2>4, <2>5, <2>6, Zenon
  <2>8. bvE = Blank \o (v \o E)
    BY Zenon DEF bvE, vE
  <2> QED BY <2>7, <2>8, Zenon
<1> QED BY <1>3, <1>4, <1>5, <1>6 DEF line, a, bu, bv, FirstLine, LineParts

LEMMA OldLine ==
  ASSUME NEW m \in Plain, m # <<>>, NEW u \in Plain, u # <<>>, NEW v \in Plain, v # <<>>,
         NEW E \in Tokens, E # <<>>, E[1] \in Spaces, NEW name, NEW value,
         NewWord(1, name, value, m) \in Plain, NewWord(2, name, value, u) \in Plain,
         NewWord(3, name, value, v) \in Plain, NEW line, WordsEdited(line, m, u, v, name, value)
  PROVE  AfterWords(FirstLine(m, u, v) \o E, name, value) = [h |-> line \o E, o |-> Len(line)]
<1> DEFINE N == <<>>
           h == FirstLine(m, u, v) \o E
           m1 == NewWord(1, name, value, m)
           u1 == NewWord(2, name, value, u)
           v1 == NewWord(3, name, value, v)
           b2 == Blank \o (v \o E)
           b1 == Blank \o (u \o b2)
           a3 == m1 \o (Blank \o u1)
           s1 == Part([h |-> h, o |-> 0], 1, name, value, {})
           s2 == Part(s1, 2, name, value, {})
           s3 == Part(s2, 3, name, value, {})
<1>1. /\ m \in Tokens /\ u \in Tokens /\ v \in Tokens /\ m1 \in Tokens /\ u1 \in Tokens /\ v1 \in Tokens
      /\ N \in Tokens /\ Blank \in Tokens /\ Len(N) = 0 /\ Len(Blank) = 1
  BY WithNothing, Controls DEF Plain
<1>2. m1 \in Plain /\ u1 \in Plain /\ v1 \in Plain
  OBVIOUS
<1>3. line = FirstLine(m1, u1, v1)
  BY DEF WordsEdited
<1>4. v \o E \in Tokens
  BY <1>1, StartsWith
<1>5. b2 \in Tokens /\ b2 # <<>> /\ b2[1] \in Spaces
  BY <1>4, BlankNext
<1>6. h = m \o b1
  <2>1. LineParts(m, u, v, E)
    BY <1>1, FirstLineType
  <2> QED BY <2>1, Zenon DEF LineParts
<1> HIDE DEF b2, h, m1, u1, v1
<1>7. u \o b2 \in Tokens
  BY <1>1, <1>5, StartsWith
<1>8. b1 \in Tokens /\ b1 # <<>> /\ b1[1] \in Spaces
  BY <1>7, BlankNext
<1>9. b1 = Blank \o (u \o b2)
  OBVIOUS
<1> HIDE DEF b1, N
<1>10. s1 = [h |-> m1 \o b1, o |-> Len(m1)]
  <2>1. OldYields(N, N, m, b1, 1, name, value)
    <3>1. \A i \in 1..Len(N) : N[i] = Gap
      BY <1>1
    <3> QED BY <1>1, <1>8, <1>2, <3>1, OldPart DEF m1
  <2>2. Part([h |-> N \o (N \o (m \o b1)), o |-> Len(N)], 1, name, value, {})
          = [h |-> N \o (N \o (m1 \o b1)), o |-> Len(N) + Len(N) + Len(m1)]
    BY <2>1 DEF OldYields, m1
  <2>3. N \o (N \o (m \o b1)) = m \o b1 /\ N \o (N \o (m1 \o b1)) = m1 \o b1
    <3>1. m \o b1 \in Tokens /\ m1 \o b1 \in Tokens
      BY <1>1, <1>8, StartsWith
    <3>2. \A y \in Tokens : N \o y = y
      BY WithNothing DEF N
    <3> QED BY <3>1, <3>2, Zenon
  <2>4. Len(N) + Len(N) + Len(m1) = Len(m1)
    BY <1>1, Piece
  <2> QED BY <2>2, <2>3, <2>4, <1>1, <1>6
<1>11. s2 = [h |-> m1 \o (Blank \o (u1 \o b2)), o |-> Len(m1) + 1 + Len(u1)]
  <2>1. \A i \in 1..Len(Blank) : Blank[i] = Gap
    <3>1. \A i \in 1..1 : i = 1
      OBVIOUS
    <3> QED BY <3>1, Controls
  <2>2. OldYields(m1, Blank, u, b2, 2, name, value)
    BY <1>1, <1>2, <1>5, <2>1, OldPart DEF u1
  <2>3. Part([h |-> m1 \o (Blank \o (u \o b2)), o |-> Len(m1)], 2, name, value, {})
          = [h |-> m1 \o (Blank \o (u1 \o b2)), o |-> Len(m1) + Len(Blank) + Len(u1)]
    BY <2>2, Zenon DEF OldYields, u1
  <2>4. Len(Blank) = 1
    BY <1>1
  <2> HIDE DEF s1
  <2> QED BY <2>3, <2>4, <1>9, <1>10, Zenon
<1>12. a3 \in Tokens /\ Len(a3) = Len(m1) + 1 + Len(u1) /\ m1 \o (Blank \o (u1 \o b2)) = a3 \o b2
  <2>1. Blank \o u1 \in Tokens /\ Len(Blank \o u1) = 1 + Len(u1)
    BY <1>1, BlankNext
  <2>2. a3 \in Tokens /\ Len(a3) = Len(m1) + 1 + Len(u1)
    <3>1. Len(m1) \in Nat /\ Len(u1) \in Nat
      BY <1>1, Piece
    <3>2. a3 \in Tokens /\ Len(a3) = Len(m1) + Len(Blank \o u1)
      BY <1>1, <2>1, StartsWith
    <3> HIDE DEF a3
    <3> QED BY <2>1, <3>1, <3>2
  <2>3. (m1 \o (Blank \o u1)) \o b2 = m1 \o ((Blank \o u1) \o b2)
    <3>1. Regroups(m1, Blank \o u1, b2)
      BY <1>1, <1>5, <2>1, Regrouped
    <3> QED BY <3>1 DEF Regroups
  <2>4. (Blank \o u1) \o b2 = Blank \o (u1 \o b2)
    <3>1. Regroups(Blank, u1, b2)
      BY <1>1, <1>5, Regrouped
    <3> QED BY <3>1 DEF Regroups
  <2> QED BY <2>2, <2>3, <2>4
<1> HIDE DEF a3
<1>13. s3 = [h |-> a3 \o (Blank \o (v1 \o E)), o |-> Len(a3) + 1 + Len(v1)]
  <2>1. \A i \in 1..Len(Blank) : Blank[i] = Gap
    <3>1. \A i \in 1..1 : i = 1
      OBVIOUS
    <3> QED BY <3>1, Controls
  <2>2. OldYields(a3, Blank, v, E, 3, name, value)
    BY <1>1, <1>2, <1>12, <2>1, OldPart DEF v1
  <2>3. Part([h |-> a3 \o (Blank \o (v \o E)), o |-> Len(a3)], 3, name, value, {})
          = [h |-> a3 \o (Blank \o (v1 \o E)), o |-> Len(a3) + Len(Blank) + Len(v1)]
    BY <2>2, Zenon DEF OldYields, v1
  <2>4. Len(Blank) = 1
    BY <1>1
  <2>5. s2 = [h |-> a3 \o (Blank \o (v \o E)), o |-> Len(a3)]
    <3> HIDE DEF s2
    <3>1. b2 = Blank \o (v \o E)
      BY DEF b2
    <3> QED BY <3>1, <1>11, <1>12, Zenon
  <2> HIDE DEF s2
  <2> QED BY <2>3, <2>4, <2>5, Zenon
<1>14. line = a3 \o (Blank \o v1)
  BY <1>3 DEF FirstLine, a3
<1>15. line \o E = a3 \o (Blank \o (v1 \o E)) /\ Len(line) = Len(a3) + 1 + Len(v1)
  <2>1. Blank \o v1 \in Tokens /\ Len(Blank \o v1) = 1 + Len(v1) /\ Len(a3) \in Nat /\ Len(v1) \in Nat
    BY <1>1, <1>12, BlankNext, Piece
  <2>2. (a3 \o (Blank \o v1)) \o E = a3 \o ((Blank \o v1) \o E)
    <3>1. Regroups(a3, Blank \o v1, E)
      BY <1>12, <2>1, Regrouped
    <3> QED BY <3>1 DEF Regroups
  <2>3. (Blank \o v1) \o E = Blank \o (v1 \o E)
    <3>1. Regroups(Blank, v1, E)
      BY <1>1, Regrouped
    <3> QED BY <3>1 DEF Regroups
  <2>4. Len(line) = Len(a3) + Len(Blank \o v1)
    BY <1>12, <1>14, <2>1, StartsWith
  <2>5. Len(line) = Len(a3) + 1 + Len(v1)
    BY <2>1, <2>4
  <2> QED BY <1>14, <2>2, <2>3, <2>5
<1>16. s3 = [h |-> line \o E, o |-> Len(line)]
  <2> HIDE DEF s3
  <2> QED BY <1>13, <1>15
<1> QED BY <1>16 DEF AfterWords, h

LEMMA DefaultWords ==
  /\ <<"GET">> \in Plain /\ <<"/">> \in Plain /\ <<"HTTP/1.1">> \in Plain
  /\ Defaults[1] = "GET" /\ Defaults[2] = "/" /\ Defaults[3] = "HTTP/1.1"
<1>1. Defaults[1] = "GET" /\ Defaults[2] = "/" /\ Defaults[3] = "HTTP/1.1"
  BY DEF Defaults
<1>2. ASSUME NEW x \in {"GET", "/", "HTTP/1.1"} PROVE <<x>> \in Plain
  <2>1. x \in Token
    BY DEF Token
  <2>2. x \notin Spaces
    BY DEF Spaces, CR, LF
  <2> DEFINE w == <<x>>
  <2>3. w \in Tokens /\ Len(w) = 1 /\ w[1] = x
    BY <2>1, Single DEF Tokens
  <2> HIDE DEF w
  <2>4. \A i \in 1..1 : i = 1
    OBVIOUS
  <2>5. w \in Plain
    BY <2>2, <2>3, <2>4 DEF Plain
  <2> QED BY <2>5 DEF w
<1> QED BY <1>1, <1>2

(* From an empty header the whole line is built. *)
LEMMA NewLine ==
  ASSUME NEW name, NEW value, NewWord(1, name, value, <<"GET">>) \in Plain,
         NewWord(2, name, value, <<"/">>) \in Plain, NewWord(3, name, value, <<"HTTP/1.1">>) \in Plain,
         NEW line, WordsEdited(line, <<"GET">>, <<"/">>, <<"HTTP/1.1">>, name, value)
  PROVE  AfterWords(<<>>, name, value) = [h |-> line, o |-> Len(line)]
<1> DEFINE N == <<>>
           m == <<"GET">>
           u == <<"/">>
           v == <<"HTTP/1.1">>
           m1 == NewWord(1, name, value, m)
           u1 == NewWord(2, name, value, u)
           v1 == NewWord(3, name, value, v)
           a3 == m1 \o (Blank \o u1)
           s1 == Part([h |-> N, o |-> 0], 1, name, value, {})
           s2 == Part(s1, 2, name, value, {})
           s3 == Part(s2, 3, name, value, {})
<1>1. /\ m1 \in Tokens /\ u1 \in Tokens /\ v1 \in Tokens /\ N \in Tokens /\ Blank \in Tokens
      /\ Len(N) = 0 /\ Len(Blank) = 1
  BY WithNothing, Controls DEF Plain
<1>2. line = FirstLine(m1, u1, v1)
  BY DEF WordsEdited
<1>3. /\ m = <<Defaults[1]>> /\ u = <<Defaults[2]>> /\ v = <<Defaults[3]>>
      /\ m \in Plain /\ u \in Plain /\ v \in Plain /\ m1 \in Plain /\ u1 \in Plain /\ v1 \in Plain
  BY DefaultWords
<1> HIDE DEF m, u, v
<1>4. s1 = [h |-> m1, o |-> Len(m1)]
  <2>1. NewYields(N, IF 1 = 1 THEN <<>> ELSE Blank, <<Defaults[1]>>, 1, name, value)
    BY <1>1, <1>3, NewPart DEF m1
  <2>2. NewYields(N, N, m, 1, name, value)
    BY <2>1, <1>3
  <2>3. Part([h |-> N, o |-> Len(N)], 1, name, value, {}) = [h |-> N \o (N \o m1), o |-> Len(N) + Len(N) + Len(m1)]
    BY <2>2, Zenon DEF NewYields, m1
  <2> HIDE DEF m1
  <2>4. N \o (N \o m1) = m1
    BY <1>1, WithNothing
  <2>5. Len(N) + Len(N) + Len(m1) = Len(m1)
    BY <1>1, Piece
  <2> QED BY <2>3, <2>4, <2>5, <1>1
<1>5. s2 = [h |-> a3, o |-> Len(m1) + 1 + Len(u1)]
  <2>1. NewYields(m1, IF 2 = 1 THEN <<>> ELSE Blank, <<Defaults[2]>>, 2, name, value)
    BY <1>1, <1>3, NewPart DEF u1
  <2>2. NewYields(m1, Blank, u, 2, name, value)
    BY <2>1, <1>3
  <2>3. Part([h |-> m1, o |-> Len(m1)], 2, name, value, {})
          = [h |-> m1 \o (Blank \o u1), o |-> Len(m1) + Len(Blank) + Len(u1)]
    BY <2>2, Zenon DEF NewYields, u1
  <2> HIDE DEF s1
  <2> QED BY <2>3, <1>1, <1>4
<1>6. a3 \in Tokens /\ Len(a3) = Len(m1) + 1 + Len(u1)
  <2> HIDE DEF m1, u1
  <2> QED BY <1>1, FirstLineType
<1> HIDE DEF a3
<1>7. s3 = [h |-> a3 \o (Blank \o v1), o |-> Len(a3) + 1 + Len(v1)]
  <2>1. NewYields(a3, IF 3 = 1 THEN <<>> ELSE Blank, <<Defaults[3]>>, 3, name, value)
    BY <1>1, <1>3, <1>6, NewPart DEF v1
  <2>2. NewYields(a3, Blank, v, 3, name, value)
    BY <2>1, <1>3
  <2>3. Part([h |-> a3, o |-> Len(a3)], 3, name, value, {})
          = [h |-> a3 \o (Blank \o v1), o |-> Len(a3) + Len(Blank) + Len(v1)]
    BY <2>2, Zenon DEF NewYields, v1
  <2> HIDE DEF s2
  <2> QED BY <2>3, <1>1, <1>5, <1>6
<1>8. line = a3 \o (Blank \o v1)
  BY <1>2 DEF FirstLine, a3
<1>9. Len(line) = Len(a3) + 1 + Len(v1)
  <2> DEFINE bv == Blank \o v1
  <2>1. bv \in Tokens /\ Len(bv) = 1 + Len(v1) /\ Len(a3) \in Nat /\ Len(v1) \in Nat
    BY <1>1, <1>6, BlankNext, Piece
  <2> HIDE DEF bv
  <2>2. Len(a3 \o bv) = Len(a3) + Len(bv)
    BY <1>6, <2>1, StartsWith
  <2> QED BY <2>1, <2>2, <1>8 DEF bv
<1>10. s3 = [h |-> line, o |-> Len(line)]
  <2> HIDE DEF s3
  <2> QED BY <1>7, <1>8, <1>9
<1> QED BY <1>10 DEF AfterWords, N

(* The line does not end with a CR. *)
LEMMA LineEndsInWord ==
  ASSUME NEW m \in Plain, NEW u \in Plain, NEW v \in Plain
  PROVE  LET line == FirstLine(m, u, v)
         IN line \in Tokens /\ line # <<>> /\ line[Len(line)] # CR
<1> DEFINE a == m \o (Blank \o u)
           bv == Blank \o v
           line == FirstLine(m, u, v)
<1>1. m \in Tokens /\ u \in Tokens /\ v \in Tokens
  BY DEF Plain
<1>2. a \in Tokens /\ line \in Tokens
  BY <1>1, FirstLineType
<1>3. line = a \o (Blank \o v)
  BY DEF FirstLine
<1> HIDE DEF a
<1>4. IsThree(a \o (Blank \o v), a, Blank, v)
  BY <1>1, <1>2, Three, Controls
<1> HIDE DEF line
<1>5. IsThree(line, a, Blank, v)
  BY <1>3, <1>4
<1>6. Len(line) = Len(a) + 1 + Len(v) /\ Len(a) \in Nat /\ Len(v) \in Nat /\ line[Len(a) + 1] = Gap
  <2>1. Len(Blank) = 1 /\ Blank[1] = Gap
    BY Controls
  <2> QED BY <2>1, <1>1, <1>2, <1>5, Piece DEF IsThree
<1>7. line # <<>>
  BY <1>2, <1>6, Piece
<1>8. line[Len(line)] # CR
  <2>1. CASE Len(v) = 0
    BY <2>1, <1>6, Controls
  <2>2. CASE Len(v) # 0
    <3> DEFINE n == Len(v)
    <3>1. n \in 1..n /\ Len(line) = Len(a) + 1 + n
      BY <1>6, <2>2
    <3>2. line[Len(a) + 1 + n] = v[n]
      <4>1. Len(Blank) = 1
        BY Controls
      <4> QED BY <4>1, <3>1, <1>5 DEF IsThree
    <3>3. v[n] \notin Spaces
      BY <3>1 DEF Plain
    <3> QED BY <3>1, <3>2, <3>3, Controls
  <2> QED BY <2>1, <2>2
<1> QED BY <1>2, <1>7, <1>8 DEF line

------------------------------------------------------------------------------
(* The end of the first line, and of the header. *)

AfterLine(s) == Ended(NextLine(Ended(s)))

Return == <<CR>>
Feed == <<LF>>

LEMMA EolParts ==
  /\ Return \in OneLine /\ Return \in Tokens /\ Len(Return) = 1
  /\ Feed \in Tokens /\ Len(Feed) = 1 /\ Feed[1] = LF /\ Feed # <<>>
  /\ Eol = Return \o Feed
<1> DEFINE c == Return
           l == Feed
           cl == c \o l
<1>1. CR \in Token /\ LF \in Token
  BY Controls DEF Token
<1>2. c \in Tokens /\ Len(c) = 1 /\ c[1] = CR /\ l \in Tokens /\ Len(l) = 1 /\ l[1] = LF
  BY <1>1, Single DEF Tokens, Return, Feed
<1>3. IsJoin(cl, c, l)
  <2> HIDE DEF c, l
  <2> QED BY <1>2, Joined
<1> HIDE DEF cl, c, l
<1>4. cl \in Tokens /\ Len(cl) = 2 /\ cl[1] = CR /\ cl[1 + 1] = LF
  BY <1>2, <1>3 DEF IsJoin
<1>5. \A i \in 1..2 : i = 1 \/ i = 1 + 1
  OBVIOUS
<1>6. \A i \in 1..Len(Eol) : Eol[i] = cl[i]
  BY <1>4, <1>5, Controls
<1>7. Eol = cl
  BY <1>4, <1>6, Controls, SameTokens
<1>8. c \in OneLine
  <2>1. \A i \in 1..1 : i = 1
    OBVIOUS
  <2> QED BY <2>1, <1>2, Controls DEF OneLine
<1>9. l # <<>>
  <2>1. l = <<>> <=> Len(l) = 0
    BY <1>2, Piece
  <2> QED BY <2>1, <1>2
<1> QED BY <1>2, <1>7, <1>8, <1>9 DEF cl, c, l

LEMMA SkipsEol ==
  ASSUME NEW line \in Tokens, line # <<>>, line[Len(line)] # CR, NEW R \in Tokens, NEW h,
         h = line \o (Eol \o R)
  PROVE  SkipLine(h, SkipSpaces(h, Len(line))) = Len(line) + 2
<1> DEFINE b == Feed \o R
<1>1. SkipSpaces(h, Len(line)) = Len(line)
  BY SkipsNoEol
<1>2. Eol \o R = Return \o b
  <2>1. Regroups(Return, Feed, R)
    BY EolParts, Regrouped
  <2> QED BY <2>1, EolParts DEF Regroups
<1>3. b \in Tokens /\ b # <<>> /\ b[1] = LF
  BY EolParts, StartsWith
<1> HIDE DEF b
<1>4. SkipLine(line \o (Return \o b), Len(line)) = Len(line) + Len(Return) + 1
  BY <1>3, EolParts, SkipsLine
<1>5. Len(line) + Len(Return) + 1 = Len(line) + 2
  BY EolParts, Piece
<1> QED BY <1>1, <1>2, <1>4, <1>5

LEMMA OldEnd ==
  ASSUME NEW line \in Tokens, line # <<>>, line[Len(line)] # CR, NEW R \in Tokens, R # <<>>
  PROVE  AfterLine([h |-> line \o (Eol \o R), o |-> Len(line)])
           = [h |-> (line \o Eol) \o R, o |-> Len(line \o Eol)]
<1> DEFINE h == line \o (Eol \o R)
           s == [h |-> h, o |-> Len(line)]
           t == [h |-> h, o |-> Len(line) + 2]
<1>1. Eol \in Tokens /\ Len(Eol) = 2
  BY Controls
<1>2. Len(h) = Len(line) + 2 + Len(R) /\ Len(line) \in Nat /\ Len(R) \in Nat /\ Len(R) # 0
  <2>1. IsThree(h, line, Eol, R)
    BY <1>1, Three
  <2> HIDE DEF h
  <2> QED BY <1>1, <2>1, Piece DEF IsThree
<1>3. SkipLine(h, SkipSpaces(h, Len(line))) = Len(line) + 2
  BY SkipsEol
<1>4. (line \o Eol) \o R = h
  <2>1. Regroups(line, Eol, R)
    BY <1>1, Regrouped
  <2> QED BY <2>1 DEF Regroups
<1>5. Len(line \o Eol) = Len(line) + 2
  <2>1. Len(line \o Eol) = Len(line) + Len(Eol)
    BY <1>1, StartsWith
  <2> QED BY <2>1, <1>1
<1> HIDE DEF h
<1>6. Ended(s) = s
  BY <1>2 DEF Ended
<1>7. NextLine(s) = t
  BY <1>3 DEF NextLine
<1>8. Ended(t) = t
  BY <1>2 DEF Ended
<1>9. AfterLine(s) = t
  <2> HIDE DEF s, t
  <2> QED BY <1>6, <1>7, <1>8 DEF AfterLine
<1> QED BY <1>4, <1>5, <1>9 DEF h

LEMMA NewEnd ==
  ASSUME NEW line \in Tokens, line # <<>>, line[Len(line)] # CR
  PROVE  AfterLine([h |-> line, o |-> Len(line)]) = [h |-> (line \o Eol) \o Eol, o |-> Len(line \o Eol)]
<1> DEFINE s == [h |-> line, o |-> Len(line)]
           h == line \o Eol
           hh == h \o Eol
           t == [h |-> h, o |-> Len(line)]
           u == [h |-> h, o |-> Len(line) + 2]
           v == [h |-> hh, o |-> Len(line) + 2]
           N == <<>>
<1>1. Eol \in Tokens /\ Len(Eol) = 2 /\ N \in Tokens /\ Eol \o N = Eol /\ Len(line) \in Nat
  BY Controls, WithNothing, Piece
<1>2. h \in Tokens /\ Len(h) = Len(line) + 2
  <2>1. h \in Tokens /\ Len(h) = Len(line) + Len(Eol)
    BY <1>1, StartsWith
  <2> HIDE DEF h
  <2> QED BY <2>1, <1>1
<1>3. SkipLine(h, SkipSpaces(h, Len(line))) = Len(line) + 2
  <2>1. h = line \o (Eol \o N)
    BY <1>1
  <2> HIDE DEF h, N
  <2> QED BY <1>1, <2>1, SkipsEol
<1>4. Ended(s) = t
  <2> HIDE DEF h
  <2>1. s.h = line /\ s.o = Len(s.h)
    OBVIOUS
  <2>2. Ended(s) = [s EXCEPT !.h = s.h \o Eol]
    <3> HIDE DEF s
    <3> QED BY <2>1 DEF Ended
  <2>3. s.h \o Eol = h
    <3> HIDE DEF s
    <3> QED BY <2>1 DEF h
  <2>4. [s EXCEPT !.h = h] = t
    OBVIOUS
  <2> QED BY <2>2, <2>3, <2>4
<1> HIDE DEF h
<1>5. NextLine(t) = u
  BY <1>3 DEF NextLine
<1>6. Ended(u) = v
  <2> HIDE DEF hh
  <2>1. u.h = h /\ u.o = Len(u.h)
    BY <1>2
  <2>2. Ended(u) = [u EXCEPT !.h = u.h \o Eol]
    <3> HIDE DEF u
    <3> QED BY <2>1 DEF Ended
  <2>3. u.h \o Eol = hh
    <3> HIDE DEF u
    <3> QED BY <2>1 DEF hh
  <2>4. [u EXCEPT !.h = hh] = v
    OBVIOUS
  <2> QED BY <2>2, <2>3, <2>4
<1>7. AfterLine(s) = v
  <2> HIDE DEF s, t, u, v
  <2> QED BY <1>4, <1>5, <1>6 DEF AfterLine
<1> QED BY <1>2, <1>7 DEF h

------------------------------------------------------------------------------
(* A sequence of texts and what its first ones make. *)
Flat(texts, f) ==
  /\ f \in [0..Len(texts) -> Tokens] /\ f[0] = <<>>
  /\ \A k \in 1..Len(texts) : f[k] = f[k - 1] \o texts[k]

LEMMA Flattened ==
  ASSUME NEW texts \in Seq(Tokens)
  PROVE  \E f : Flat(texts, f) /\ FlattenSeq(texts) = f[Len(texts)]
<1> DEFINE n == Len(texts)
           F == [k \in Nat |-> [v \in Tokens |-> IF k \in 1..n THEN v \o texts[k] ELSE v]]
<1>1. n \in Nat /\ \A k \in 1..n : texts[k] \in Tokens
  OBVIOUS
<1>2. F \in [Nat -> [Tokens -> Tokens]]
  <2>1. ASSUME NEW k \in Nat, NEW v \in Tokens
        PROVE  (IF k \in 1..n THEN v \o texts[k] ELSE v) \in Tokens
    <3> HIDE DEF n
    <3>1. k \in 1..n => v \o texts[k] \in Tokens
      BY <1>1, StartsWith
    <3> QED BY <3>1
  <2> HIDE DEF n
  <2> QED BY <2>1
<1>3. <<>> \in Tokens /\ \A t \in Tokens : <<>> \o t = t
  <2>1. <<>> \in Tokens
    BY EmptySeq DEF Tokens
  <2> QED BY <2>1, WithNothing
<1>4. \E f \in [0..n -> Tokens] : f[0] = <<>> /\ \A k \in 1..n : f[k] = F[k][f[k - 1]]
  <2> DEFINE N == <<>>
  <2>1. N \in Tokens
    BY <1>3
  <2> HIDE DEF F, n, N
  <2>2. \E f \in [0..n -> Tokens] : f[0] = N /\ \A k \in 1..n : f[k] = F[k][f[k - 1]]
    <3>1. HasRun(Tokens, N, F, n)
      BY <1>1, <1>2, <2>1, Recursion
    <3> QED BY <3>1 DEF HasRun
  <2> QED BY <2>2 DEF N
<1>5. PICK f \in [0..n -> Tokens] : f[0] = <<>> /\ \A k \in 1..n : f[k] = F[k][f[k - 1]]
  BY <1>4
<1>6. \A k \in 1..n : f[k] = f[k - 1] \o texts[k]
  <2> SUFFICES ASSUME NEW k \in 1..n PROVE f[k] = f[k - 1] \o texts[k]
    OBVIOUS
  <2>1. f[k - 1] \in Tokens /\ k \in Nat
    BY <1>1
  <2>2. F[k][f[k - 1]] = f[k - 1] \o texts[k]
    <3> HIDE DEF n
    <3> QED BY <2>1
  <2> HIDE DEF F, n
  <2> QED BY <1>5, <2>2
<1>7. Flat(texts, f)
  BY <1>5, <1>6 DEF Flat
<1> HIDE DEF F
<1>8. FlattenSeq(texts) = f[n]
  <2>1. CASE n = 0
    <3>1. texts = <<>> /\ FlattenSeq(texts) = texts
      BY <2>1 DEF FlattenSeq
    <3> HIDE DEF n
    <3> QED BY <2>1, <3>1, <1>5
  <2>2. CASE n # 0
    <3> DEFINE Begun(g, i) == IF i = 1 THEN texts[i] ELSE g[i - 1] \o texts[i]
               Is(g) == g = [i \in 1..n |-> Begun(g, i)]
               e == [i \in 1..n |-> f[i]]
               h == CHOOSE g : Is(g)
    <3>1. FlattenSeq(texts) = h[n]
      BY <2>2 DEF FlattenSeq
    <3> HIDE DEF n
    <3>2. \A i \in 1..n : e[i] = Begun(e, i)
      <4> SUFFICES ASSUME NEW i \in 1..n PROVE e[i] = Begun(e, i)
        OBVIOUS
      <4>1. e[i] = f[i - 1] \o texts[i]
        BY <1>6
      <4>2. CASE i = 1
        <5>1. f[i - 1] = <<>> /\ texts[i] \in Tokens
          BY <1>1, <1>5, <4>2
        <5> HIDE DEF e
        <5> QED BY <1>3, <4>1, <4>2, <5>1
      <4>3. CASE i # 1
        <5>1. e[i - 1] = f[i - 1]
          BY <4>3, <1>1
        <5> HIDE DEF e
        <5> QED BY <4>1, <4>3, <5>1
      <4> HIDE DEF e, Begun
      <4> QED BY <4>2, <4>3
    <3>3. Is(e)
      <4>1. e = [i \in 1..n |-> e[i]]
        OBVIOUS
      <4> HIDE DEF e, Begun
      <4> QED BY <3>2, <4>1
    <3>4. Is(h)
      <4> HIDE DEF Is, e
      <4> QED BY <3>3
    <3>5. \A i \in 1..n : h[i] = Begun(h, i)
      <4> HIDE DEF h, Begun
      <4> QED BY <3>4
    <3> DEFINE R == {i \in Nat : i \in 1..n => h[i] = f[i]}
    <3>6. 0 \in R
      OBVIOUS
    <3>7. ASSUME NEW m \in Nat, m \in R PROVE m + 1 \in R
      <4> SUFFICES ASSUME m + 1 \in 1..n PROVE h[m + 1] = f[m + 1]
        OBVIOUS
      <4>1. h[m + 1] = Begun(h, m + 1) /\ f[m + 1] = f[m] \o texts[m + 1]
        <5>1. (m + 1) - 1 = m
          OBVIOUS
        <5> HIDE DEF h, Begun
        <5> QED BY <3>5, <1>6, <5>1
      <4>2. CASE m = 0
        <5>1. texts[m + 1] \in Tokens /\ f[m] = <<>> /\ h[m + 1] = texts[m + 1]
          <6> HIDE DEF h
          <6> QED BY <1>1, <1>5, <4>1, <4>2
        <5> HIDE DEF h
        <5> QED BY <5>1, <4>1, <1>3
      <4>3. CASE m # 0
        <5>1. m \in 1..n
          BY <4>3, <1>1
        <5>2. h[m] = f[m]
          BY <3>7, <5>1
        <5>3. h[m + 1] = h[m] \o texts[m + 1]
          <6> HIDE DEF h
          <6>1. m + 1 # 1 /\ (m + 1) - 1 = m
            BY <4>3
          <6> QED BY <4>1, <6>1
        <5> HIDE DEF h
        <5> QED BY <5>2, <5>3, <4>1
      <4> QED BY <4>2, <4>3
    <3> HIDE DEF R
    <3>8. n \in R
      BY <1>1, <3>6, <3>7, NatSetInduction
    <3>9. h[n] = f[n]
      BY <3>8, <2>2, <1>1 DEF R
    <3> QED BY <3>1, <3>9
  <2> QED BY <2>1, <2>2
<1> QED BY <1>7, <1>8

(* The first m texts make the same. *)
LEMMA FlatAlike ==
  ASSUME NEW texts \in Seq(Tokens), NEW other \in Seq(Tokens), NEW f, NEW g, Flat(texts, f), Flat(other, g),
         NEW m \in Nat, m <= Len(texts), m <= Len(other), \A k \in 1..m : texts[k] = other[k]
  PROVE  f[m] = g[m]
<1> DEFINE R == {k \in Nat : k <= m => f[k] = g[k]}
<1>1. 0 \in R
  BY DEF Flat
<1>2. ASSUME NEW k \in Nat, k \in R PROVE k + 1 \in R
  <2> SUFFICES ASSUME k + 1 <= m PROVE f[k + 1] = g[k + 1]
    OBVIOUS
  <2>1. k <= m /\ k + 1 \in 1..m /\ k + 1 \in 1..Len(texts) /\ k + 1 \in 1..Len(other) /\ (k + 1) - 1 = k
    OBVIOUS
  <2>2. f[k] = g[k]
    BY <1>2, <2>1
  <2>3. texts[k + 1] = other[k + 1]
    BY <2>1
  <2>4. f[k + 1] = f[k] \o texts[k + 1] /\ g[k + 1] = g[k] \o other[k + 1]
    BY <2>1 DEF Flat
  <2> QED BY <2>2, <2>3, <2>4
<1> HIDE DEF R
<1>3. m \in R
  BY <1>1, <1>2, NatSetInduction
<1> QED BY <1>3 DEF R

FlatTail(texts, f, at, m, B) == f[m] = f[at - 1] \o (texts[at] \o B)

(* What is behind the text of a number does not depend on it. *)
LEMMA FlatSplits ==
  ASSUME NEW texts \in Seq(Tokens), NEW other \in Seq(Tokens), NEW f, NEW g, Flat(texts, f), Flat(other, g),
         NEW n \in Nat, Len(texts) = n, Len(other) = n, NEW at \in 1..n,
         \A k \in 1..n : k # at => texts[k] = other[k]
  PROVE  /\ g[at - 1] = f[at - 1]
         /\ \E B \in Tokens : FlatTail(texts, f, at, n, B) /\ FlatTail(other, g, at, n, B)
<1> DEFINE Splits(k) == \E B \in Tokens : FlatTail(texts, f, at, k, B) /\ FlatTail(other, g, at, k, B)
           R == {k \in Nat : at + k <= n => Splits(at + k)}
<1>1. g[at - 1] = f[at - 1]
  <2>1. at - 1 \in Nat /\ at - 1 <= n
    OBVIOUS
  <2>2. \A k \in 1..(at - 1) : texts[k] = other[k]
    OBVIOUS
  <2> QED BY <2>1, <2>2, FlatAlike
<1>2. /\ \A k \in 0..n : f[k] \in Tokens /\ g[k] \in Tokens
      /\ \A k \in 1..n : texts[k] \in Tokens /\ other[k] \in Tokens
      /\ \A k \in 1..n : f[k] = f[k - 1] \o texts[k] /\ g[k] = g[k - 1] \o other[k]
  <2>1. \A k \in 0..n : f[k] \in Tokens /\ g[k] \in Tokens
    BY DEF Flat
  <2>2. \A k \in 1..n : texts[k] \in Tokens /\ other[k] \in Tokens
    OBVIOUS
  <2>3. \A k \in 1..n : f[k] = f[k - 1] \o texts[k]
    BY DEF Flat
  <2>4. \A k \in 1..n : g[k] = g[k - 1] \o other[k]
    BY DEF Flat
  <2> QED BY <2>1, <2>2, <2>3, <2>4
<1>3. 0 \in R
  <2>1. <<>> \in Tokens /\ texts[at] \o <<>> = texts[at] /\ other[at] \o <<>> = other[at]
    <3>1. texts[at] \in Tokens /\ other[at] \in Tokens
      BY <1>2
    <3> QED BY <3>1, WithNothing
  <2>2. FlatTail(texts, f, at, at, <<>>) /\ FlatTail(other, g, at, at, <<>>)
    BY <1>1, <1>2, <2>1 DEF FlatTail
  <2>3. Splits(at)
    BY <2>1, <2>2
  <2>4. at + 0 = at
    OBVIOUS
  <2> HIDE DEF Splits
  <2> QED BY <2>3, <2>4
<1>4. ASSUME NEW k \in Nat, k \in R PROVE k + 1 \in R
  <2> SUFFICES ASSUME at + (k + 1) <= n PROVE Splits(at + (k + 1))
    OBVIOUS
  <2> DEFINE j == at + k
             t == texts[j + 1]
  <2>1. j <= n /\ j + 1 \in 1..n /\ j + 1 # at /\ (j + 1) - 1 = j /\ at + (k + 1) = j + 1
    OBVIOUS
  <2>2. Splits(j)
    BY <1>4, <2>1
  <2> HIDE DEF j
  <2>3. PICK B \in Tokens : FlatTail(texts, f, at, j, B) /\ FlatTail(other, g, at, j, B)
    BY <2>2
  <2>4. other[j + 1] = t /\ t \in Tokens /\ f[j + 1] = f[j] \o t /\ g[j + 1] = g[j] \o t
    BY <1>2, <2>1
  <2> HIDE DEF t
  <2> DEFINE C == B \o t
  <2>5. C \in Tokens
    BY <2>4, StartsWith
  <2>6. ASSUME NEW a \in Tokens, NEW w \in Tokens PROVE (a \o (w \o B)) \o t = a \o (w \o C)
    <3>1. w \o B \in Tokens
      BY StartsWith
    <3>2. Regroups(a, w \o B, t) /\ Regroups(w, B, t)
      BY <2>4, <3>1, Regrouped
    <3> QED BY <3>2 DEF Regroups
  <2> HIDE DEF C
  <2>7. f[at - 1] \in Tokens /\ g[at - 1] \in Tokens /\ texts[at] \in Tokens /\ other[at] \in Tokens
    BY <1>2
  <2>8. FlatTail(texts, f, at, j + 1, C) /\ FlatTail(other, g, at, j + 1, C)
    <3>1. f[j + 1] = (f[at - 1] \o (texts[at] \o B)) \o t /\ g[j + 1] = (g[at - 1] \o (other[at] \o B)) \o t
      BY <2>3, <2>4 DEF FlatTail
    <3> QED BY <2>6, <2>7, <3>1 DEF FlatTail
  <2> QED BY <2>1, <2>5, <2>8
<1> HIDE DEF R, Splits
<1>5. n - at \in Nat
  OBVIOUS
<1>6. n - at \in R
  BY <1>3, <1>4, <1>5, NatSetInduction
<1>7. Splits(n)
  <2>1. at + (n - at) = n
    OBVIOUS
  <2>2. Splits(at + (n - at))
    BY <1>5, <1>6, <2>1 DEF R
  <2> QED BY <2>1, <2>2
<1> QED BY <1>1, <1>7 DEF Splits

------------------------------------------------------------------------------
(* A field, and what the loop finds at it. *)

FieldText(name, value) == name \o (Colon \o (value \o Eol))

LEMMA OneLineJoin ==
  ASSUME NEW s \in OneLine, NEW t \in OneLine
  PROVE  s \o t \in OneLine
<1> DEFINE u == s \o t
<1>1. s \in Tokens /\ t \in Tokens
  BY DEF OneLine
<1>2. IsJoin(u, s, t)
  BY <1>1, Joined
<1>3. Len(s) \in Nat /\ Len(t) \in Nat
  BY <1>1, Piece
<1> HIDE DEF u
<1>4. ASSUME NEW i \in 1..Len(u) PROVE u[i] # LF
  <2>1. CASE i <= Len(s)
    <3>1. i \in 1..Len(s)
      BY <1>3, <2>1
    <3> QED BY <3>1, <1>2 DEF IsJoin, OneLine
  <2>2. CASE ~(i <= Len(s))
    <3> DEFINE j == i - Len(s)
    <3>1. j \in 1..Len(t) /\ i = Len(s) + j
      BY <1>2, <1>3, <2>2 DEF IsJoin
    <3> HIDE DEF j
    <3>2. u[i] = t[j]
      BY <3>1, <1>2 DEF IsJoin
    <3> QED BY <3>1, <3>2 DEF OneLine
  <2> QED BY <2>1, <2>2
<1> QED BY <1>2, <1>4 DEF u, IsJoin, OneLine

LEMMA NameIs ==
  ASSUME NEW name \in Name
  PROVE  name \in Plain /\ name \in Tokens /\ name \in OneLine /\ name # <<>>
BY Controls DEF Name, Plain, OneLine

LEMMA ColonIs == Colon \in Tokens /\ Colon \in OneLine /\ Colon # <<>> /\ Colon[1] = Mark /\ Len(Colon) = 2
<1>1. \A i \in 1..2 : i = 1 \/ i = 2
  OBVIOUS
<1>2. Mark # LF
  BY Controls
<1>3. Colon \in OneLine
  BY <1>1, <1>2, Controls DEF OneLine
<1>4. Colon = <<>> <=> Len(Colon) = 0
  BY Controls, Piece
<1> QED BY <1>3, <1>4, Controls

IsMiddle(h, a, w) == SubSeq(h, Len(a) + 1, Len(a) + Len(w)) = w

LEMMA Middle ==
  ASSUME NEW a \in Tokens, NEW w \in Tokens, NEW b \in Tokens, NEW h, h = a \o (w \o b)
  PROVE  IsMiddle(h, a, w)
<1> DEFINE m == Len(a) + 1
           n == Len(a) + Len(w)
           x == SubSeq(h, m, n)
<1>1. IsThree(h, a, w, b)
  BY Three
<1>2. Len(a) \in Nat /\ Len(w) \in Nat /\ Len(b) \in Nat
  BY Piece
<1>3. m \in Int /\ n \in Int /\ n - m + 1 = Len(w) /\ m >= 1 /\ n <= Len(h)
  BY <1>1, <1>2 DEF IsThree
<1>4. \A k \in m..n : h[k] \in Token
  <2>1. \A k \in 1..Len(h) : h[k] \in Token
    BY <1>1, Piece DEF IsThree
  <2> HIDE DEF m, n
  <2> QED BY <1>3, <2>1
<1>5. /\ x \in Tokens
      /\ Len(x) = IF m <= n THEN n - m + 1 ELSE 0
      /\ \A k \in 1..(n - m + 1) : x[k] = h[m + k - 1]
  BY <1>3, <1>4, SubSeqProperties DEF Tokens
<1>6. Len(x) = Len(w)
  <2> HIDE DEF x
  <2> QED BY <1>2, <1>3, <1>5
<1>7. \A k \in 1..Len(w) : x[k] = w[k]
  <2> SUFFICES ASSUME NEW k \in 1..Len(w) PROVE x[k] = w[k]
    OBVIOUS
  <2>1. x[k] = h[m + k - 1] /\ m + k - 1 = Len(a) + k
    <3> HIDE DEF x
    <3> QED BY <1>2, <1>3, <1>5
  <2>2. h[Len(a) + k] = w[k]
    BY <1>1 DEF IsThree
  <2> HIDE DEF x, m, n
  <2> QED BY <2>1, <2>2
<1> HIDE DEF x, m, n
<1>8. x = w
  BY <1>5, <1>6, <1>7, SameTokens
<1> QED BY <1>8 DEF x, m, n, IsMiddle

FieldIs(h, a, name, value) ==
  /\ SkipName(h, Len(a)) = Len(a) + Len(name)
  /\ SubSeq(h, Len(a) + 1, Len(a) + Len(name)) = name
  /\ SkipLine(h, Len(a)) = Len(a) + Len(FieldText(name, value))

LEMMA FieldAhead ==
  ASSUME NEW a \in Tokens, NEW b \in Tokens, NEW name \in Name, NEW value \in OneLine,
         NEW h, h = a \o (FieldText(name, value) \o b)
  PROVE  FieldIs(h, a, name, value)
<1> DEFINE ve == value \o Eol
           cve == Colon \o ve
           b2 == cve \o b
           vr == value \o Return
           cvr == Colon \o vr
           X == name \o cvr
           fb == Feed \o b
           T == FieldText(name, value)
<1>1. value \in Tokens /\ name \in Tokens /\ Eol \in Tokens /\ name \in OneLine
  BY NameIs, Controls DEF OneLine
<1>2. ve \in Tokens
  BY <1>1, StartsWith
<1>3. vr \in OneLine /\ vr \in Tokens
  BY <1>1, EolParts, OneLineJoin, StartsWith
<1>4. fb \in Tokens /\ fb # <<>> /\ fb[1] = LF
  BY EolParts, StartsWith
<1>5. ve = vr \o Feed
  <2>1. Regroups(value, Return, Feed)
    BY <1>1, EolParts, Regrouped
  <2> QED BY <2>1, EolParts DEF Regroups
<1> HIDE DEF ve, vr
<1>6. cve \in Tokens /\ cve # <<>> /\ cve[1] = Mark
  BY <1>2, ColonIs, StartsWith
<1>7. cvr \in OneLine /\ cvr \in Tokens
  BY <1>3, ColonIs, OneLineJoin, StartsWith
<1>8. cve = cvr \o Feed
  <2>1. Regroups(Colon, vr, Feed)
    BY <1>3, ColonIs, EolParts, Regrouped
  <2> QED BY <2>1, <1>5 DEF Regroups
<1>9. T = name \o cve
  BY DEF FieldText, ve
<1> HIDE DEF T, cve, cvr
<1>10. X \in OneLine /\ X \in Tokens
  BY <1>1, <1>7, OneLineJoin, StartsWith
<1>11. T = X \o Feed /\ Len(T) = Len(X) + 1
  <2>1. Regroups(name, cvr, Feed)
    BY <1>1, <1>7, EolParts, Regrouped
  <2>2. T = X \o Feed
    BY <2>1, <1>8, <1>9 DEF Regroups
  <2> HIDE DEF X
  <2>3. Len(T) = Len(X) + Len(Feed)
    BY <2>2, <1>10, EolParts, StartsWith
  <2> QED BY <2>2, <2>3, EolParts
<1>12. b2 \in Tokens /\ b2 # <<>> /\ b2[1] = Mark
  BY <1>6, StartsWith
<1>13. T \o b = name \o b2
  <2>1. Regroups(name, cve, b)
    BY <1>1, <1>6, Regrouped
  <2> QED BY <2>1, <1>9 DEF Regroups
<1> HIDE DEF X, b2
<1>14. T \o b = X \o fb
  <2>1. Regroups(X, Feed, b)
    BY <1>10, EolParts, Regrouped
  <2> QED BY <2>1, <1>11 DEF Regroups
<1> HIDE DEF fb
<1>15. h = a \o (name \o b2) /\ h = a \o (X \o fb)
  BY <1>13, <1>14 DEF T
<1>16. SkipName(h, Len(a)) = Len(a) + Len(name)
  <2>1. SkipName(a \o (name \o b2), Len(a)) = Len(a) + Len(name)
    BY <1>1, <1>12, SkipsName
  <2> QED BY <2>1, <1>15
<1>17. SubSeq(h, Len(a) + 1, Len(a) + Len(name)) = name
  <2>1. IsMiddle(h, a, name)
    BY <1>1, <1>12, <1>15, Middle
  <2> QED BY <2>1, Zenon DEF IsMiddle
<1>18. SkipLine(h, Len(a)) = Len(a) + Len(T)
  <2>1. SkipLine(a \o (X \o fb), Len(a)) = Len(a) + Len(X) + 1
    BY <1>4, <1>10, SkipsLine
  <2>2. Len(a) \in Nat /\ Len(X) \in Nat
    BY <1>10, Piece
  <2>3. Len(a) + Len(X) + 1 = Len(a) + Len(T)
    BY <2>2, <1>11
  <2> QED BY <2>1, <2>3, <1>15
<1>19. SkipLine(h, Len(a)) = Len(a) + Len(FieldText(name, value))
  BY <1>18, Zenon DEF T
<1> QED BY <1>16, <1>17, <1>19, Zenon DEF FieldIs

(* Behind the last field there is no name. *)
NoFieldAt(h, k) == SkipName(h, k) = k

LEMMA EndAhead ==
  ASSUME NEW a \in Tokens, NEW h, h = a \o Eol
  PROVE  NoFieldAt(h, Len(a))
<1> DEFINE N == <<>>
<1>1. Eol \in Tokens /\ Eol # <<>> /\ Eol[1] \in Spaces
  <2>1. Eol = <<>> <=> Len(Eol) = 0
    BY Controls, Piece
  <2> QED BY <2>1, Controls
<1>2. N \in Tokens /\ N \o Eol = Eol /\ Len(N) = 0 /\ Len(a) \in Nat /\ N = <<>>
  BY <1>1, WithNothing, Piece
<1> HIDE DEF N
<1>3. SkipName(a \o (N \o Eol), Len(a)) = Len(a) + Len(N)
  BY <1>1, <1>2, SkipsName
<1>4. Len(a) + Len(N) = Len(a)
  BY <1>2
<1> QED BY <1>2, <1>3, <1>4 DEF NoFieldAt

------------------------------------------------------------------------------
(* The line at which the loop over the fields stops. *)

StopsAt(h, name, k) == k = SkipName(h, k) \/ Same(name, SubSeq(h, k + 1, SkipName(h, k)))

Goes(h, name, k, next) == ~StopsAt(h, name, k) /\ SkipLine(h, k) = next

RunsTo(h, name, pos, t) ==
  StopsAt(h, name, pos[t]) /\ \A i \in 0..(t - 1) : Goes(h, name, pos[i], pos[i + 1])

OffsetFrom(h, name, pos, t) == FieldOffset(h, pos[0], {}, name) = pos[t]

LEMMA OffsetRun ==
  ASSUME NEW h, Len(h) \in Nat, NEW name, NEW t \in Nat, t <= Len(h), NEW pos, RunsTo(h, name, pos, t)
  PROVE  OffsetFrom(h, name, pos, t)
<1> DEFINE n == Len(h)
           Ahead(k) == IF StopsAt(h, name, k) THEN k ELSE SkipLine(h, k)
           Gone(g, k) == IF k = 0 THEN pos[0] ELSE Ahead(g[k - 1])
           Is(g) == g = [k \in 0..n |-> Gone(g, k)]
           f == CHOOSE g : Is(g)
           e == [k \in 0..n |-> IF k <= t THEN pos[k] ELSE pos[t]]
<1>1. FieldOffset(h, pos[0], {}, name) = f[n]
  BY DEF FieldOffset, StopsAt
<1> HIDE DEF n
<1> USE DEF RunsTo
<1>2. n \in Nat /\ t <= n
  BY DEF n
<1>3. \A k \in 0..n : e[k] = Gone(e, k)
  <2> SUFFICES ASSUME NEW k \in 0..n PROVE e[k] = Gone(e, k)
    OBVIOUS
  <2>1. CASE k = 0
    <3>1. e[k] = pos[0]
      BY <2>1
    <3> HIDE DEF e
    <3> QED BY <2>1, <3>1
  <2>2. CASE k # 0 /\ k <= t
    <3>1. e[k] = pos[k] /\ e[k - 1] = pos[k - 1] /\ k - 1 \in 0..(t - 1) /\ (k - 1) + 1 = k
      BY <2>2, <1>2
    <3> HIDE DEF e
    <3>2. Ahead(pos[k - 1]) = pos[k]
      BY <3>1 DEF Goes
    <3> HIDE DEF Ahead
    <3> QED BY <2>2, <3>1, <3>2
  <2>3. CASE ~(k <= t)
    <3>1. e[k] = pos[t] /\ e[k - 1] = pos[t] /\ k # 0
      <4>1. k - 1 \in 0..n /\ (k - 1 <= t => k - 1 = t)
        BY <2>3, <1>2
      <4> QED BY <4>1, <2>3
    <3> HIDE DEF e
    <3>2. Ahead(pos[t]) = pos[t]
      OBVIOUS
    <3> HIDE DEF Ahead
    <3> QED BY <3>1, <3>2
  <2> HIDE DEF e, Gone
  <2> QED BY <2>1, <2>2, <2>3
<1>4. Is(e)
  <2>1. e = [k \in 0..n |-> e[k]]
    OBVIOUS
  <2> HIDE DEF e, Gone
  <2> QED BY <1>3, <2>1
<1>5. Is(f)
  <2> HIDE DEF Is, e
  <2> QED BY <1>4
<1>6. \A k \in 0..n : f[k] = Gone(f, k)
  <2> HIDE DEF f, Gone
  <2> QED BY <1>5
<1> HIDE DEF f
<1> DEFINE R == {k \in Nat : k <= n => f[k] = e[k]}
<1>7. 0 \in R
  <2>1. f[0] = pos[0] /\ e[0] = pos[0]
    <3> HIDE DEF e, Ahead
    <3> QED BY <1>2, <1>3, <1>6
  <2> HIDE DEF e
  <2> QED BY <2>1
<1>8. ASSUME NEW k \in Nat, k \in R PROVE k + 1 \in R
  <2> HIDE DEF e
  <2> SUFFICES ASSUME k + 1 <= n PROVE f[k + 1] = e[k + 1]
    OBVIOUS
  <2>1. k + 1 \in 0..n /\ k <= n /\ k + 1 # 0 /\ (k + 1) - 1 = k
    BY <1>2
  <2>2. f[k] = e[k]
    BY <1>8, <2>1
  <2>3. f[k + 1] = Ahead(f[k]) /\ e[k + 1] = Ahead(e[k])
    <3> HIDE DEF Ahead
    <3> QED BY <1>3, <1>6, <2>1
  <2> HIDE DEF Ahead
  <2> QED BY <2>2, <2>3
<1> HIDE DEF R
<1>9. n \in R
  BY <1>2, <1>7, <1>8, NatSetInduction
<1>10. f[n] = e[n] /\ e[n] = pos[t]
  <2>1. f[n] = e[n]
    BY <1>2, <1>9 DEF R
  <2>2. e[n] = pos[t]
    BY <1>2
  <2> QED BY <2>1, <2>2
<1> QED BY <1>1, <1>10 DEF OffsetFrom

LEMMA FlatLength ==
  ASSUME NEW texts \in Seq(Tokens), NEW f, Flat(texts, f), \A k \in 1..Len(texts) : texts[k] # <<>>
  PROVE  \A k \in 0..Len(texts) : Len(f[k]) \in Nat /\ Len(f[k]) >= k
<1> DEFINE R == {k \in Nat : k <= Len(texts) => Len(f[k]) \in Nat /\ Len(f[k]) >= k}
<1>1. 0 \in R
  <2>1. f[0] = <<>> /\ Len(<<>>) = 0
    BY DEF Flat
  <2> QED BY <2>1
<1>2. ASSUME NEW k \in Nat, k \in R PROVE k + 1 \in R
  <2> SUFFICES ASSUME k + 1 <= Len(texts) PROVE Len(f[k + 1]) \in Nat /\ Len(f[k + 1]) >= k + 1
    OBVIOUS
  <2>1. k \in 0..Len(texts) /\ k + 1 \in 1..Len(texts) /\ (k + 1) - 1 = k
    OBVIOUS
  <2>2. Len(f[k]) \in Nat /\ Len(f[k]) >= k
    BY <1>2, <2>1
  <2> DEFINE t == texts[k + 1]
             a == f[k]
  <2>3. f[k + 1] = a \o t /\ a \in Tokens /\ t \in Tokens /\ t # <<>>
    <3>1. f[k + 1] = a \o t
      BY <2>1 DEF Flat
    <3>2. a \in Tokens
      BY <2>1 DEF Flat
    <3>3. t \in Tokens /\ t # <<>>
      BY <2>1
    <3> QED BY <3>1, <3>2, <3>3
  <2> HIDE DEF t
  <2>4. Len(t) \in Nat /\ Len(t) # 0
    <3>1. t = <<>> <=> Len(t) = 0
      BY <2>3, Piece
    <3> QED BY <3>1, <2>3, Piece
  <2>5. Len(f[k + 1]) = Len(a) + Len(t)
    BY <2>3, StartsWith
  <2> QED BY <2>2, <2>4, <2>5
<1> HIDE DEF R
<1>3. Nat \subseteq R
  BY <1>1, <1>2, NatSetInduction
<1> QED BY <1>3 DEF R

Fields == Seq(Name \X OneLine)

TextsOf(fields) == [j \in DOMAIN fields |-> FieldText(fields[j][1], fields[j][2])]

HeaderOf(L, fields) == L \o (FlattenSeq(TextsOf(fields)) \o Eol)

LEMMA FieldTextType ==
  ASSUME NEW name \in Name, NEW value \in OneLine
  PROVE  FieldText(name, value) \in Tokens /\ FieldText(name, value) # <<>>
<1> DEFINE ve == value \o Eol
           cve == Colon \o ve
<1>1. name \in Tokens /\ name # <<>> /\ value \in Tokens /\ Eol \in Tokens /\ Colon \in Tokens
  BY NameIs, Controls DEF OneLine
<1>2. ve \in Tokens
  BY <1>1, StartsWith
<1> HIDE DEF ve
<1>3. cve \in Tokens
  BY <1>1, <1>2, StartsWith
<1> HIDE DEF cve
<1>4. name \o cve \in Tokens /\ name \o cve # <<>>
  BY <1>1, <1>3, StartsWith
<1> QED BY <1>4 DEF FieldText, ve, cve

LEMMA TextsType ==
  ASSUME NEW fields \in Fields
  PROVE  /\ TextsOf(fields) \in Seq(Tokens) /\ Len(TextsOf(fields)) = Len(fields)
         /\ \A j \in 1..Len(fields) : /\ fields[j][1] \in Name /\ fields[j][2] \in OneLine
                                      /\ TextsOf(fields)[j] = FieldText(fields[j][1], fields[j][2])
                                      /\ TextsOf(fields)[j] # <<>>
<1> DEFINE texts == TextsOf(fields)
           n == Len(fields)
<1>1. n \in Nat /\ DOMAIN fields = 1..n /\ \A j \in 1..n : fields[j] \in Name \X OneLine
  BY DEF Fields
<1>2. \A j \in 1..n : fields[j][1] \in Name /\ fields[j][2] \in OneLine
  <2> HIDE DEF n
  <2> QED BY <1>1
<1>3. texts = [j \in 1..n |-> FieldText(fields[j][1], fields[j][2])]
  BY <1>1 DEF TextsOf
<1>4. \A j \in 1..n : texts[j] = FieldText(fields[j][1], fields[j][2])
  BY <1>3
<1>5. \A j \in 1..n : texts[j] \in Tokens /\ texts[j] # <<>>
  <2> HIDE DEF texts, n
  <2> QED BY <1>2, <1>4, FieldTextType
<1>6. texts = [j \in 1..n |-> texts[j]]
  BY <1>3
<1> HIDE DEF texts, n
<1>7. texts \in Seq(Tokens) /\ Len(texts) = n
  BY <1>1, <1>5, <1>6
<1> QED BY <1>2, <1>4, <1>5, <1>7 DEF texts, n

Opens(L, p, w, B) == L \o ((p \o (w \o B)) \o Eol) = (L \o p) \o (w \o (B \o Eol))

LEMMA Opened ==
  ASSUME NEW L \in Tokens, NEW p \in Tokens, NEW w \in Tokens, NEW B \in Tokens
  PROVE  Opens(L, p, w, B)
<1> DEFINE wB == w \o B
           Be == B \o Eol
           wBe == w \o Be
<1>1. Eol \in Tokens /\ wB \in Tokens /\ Be \in Tokens
  BY Controls, StartsWith
<1>2. Regroups(p, wB, Eol) /\ Regroups(w, B, Eol)
  <2> HIDE DEF wB
  <2> QED BY <1>1, Regrouped, Controls
<1>3. (p \o wB) \o Eol = p \o wBe
  BY <1>2 DEF Regroups
<1> HIDE DEF Be, wB
<1>4. wBe \in Tokens
  BY <1>1, StartsWith
<1> HIDE DEF wBe
<1>5. Regroups(L, p, wBe)
  BY <1>4, Regrouped
<1> QED BY <1>3, <1>5 DEF Regroups, Opens, wB, wBe, Be

(* The text of a field is behind those before it. *)
LEMMA AtField ==
  ASSUME NEW L \in Tokens, NEW fields \in Fields, NEW f, Flat(TextsOf(fields), f), NEW i \in 1..Len(fields),
         NEW h, h = L \o (f[Len(fields)] \o Eol)
  PROVE  FieldIs(h, L \o f[i - 1], fields[i][1], fields[i][2])
<1> DEFINE texts == TextsOf(fields)
           n == Len(fields)
           T == texts[i]
           p == f[i - 1]
<1>1. texts \in Seq(Tokens) /\ Len(texts) = n /\ n \in Nat
  BY TextsType DEF Fields
<1>2. fields[i][1] \in Name /\ fields[i][2] \in OneLine /\ T = FieldText(fields[i][1], fields[i][2])
  BY TextsType
<1>3. T \in Tokens /\ p \in Tokens /\ Eol \in Tokens
  <2>1. p \in Tokens
    BY <1>1 DEF Flat
  <2>2. T \in Tokens
    BY <1>1
  <2> QED BY <2>1, <2>2, Controls
<1>4. \E B \in Tokens : FlatTail(texts, f, i, n, B)
  <2> HIDE DEF texts, n
  <2> QED BY <1>1, FlatSplits DEF texts, n
<1>5. PICK B \in Tokens : FlatTail(texts, f, i, n, B)
  BY <1>4
<1>6. f[n] = p \o (T \o B)
  BY <1>5 DEF FlatTail
<1> DEFINE b == B \o Eol
<1>7. b \in Tokens /\ L \o p \in Tokens
  BY <1>3, StartsWith
<1>8. h = (L \o p) \o (T \o b)
  <2>1. Opens(L, p, T, B)
    BY <1>3, Opened
  <2> HIDE DEF p, T
  <2> QED BY <2>1, <1>6 DEF Opens, n
<1> HIDE DEF b, T, p
<1>9. FieldIs(h, L \o p, fields[i][1], fields[i][2])
  BY <1>2, <1>7, <1>8, FieldAhead
<1> QED BY <1>9 DEF p

(* The loop stops at the first field of the name, or behind the last. *)
FirstNamed(fields, name, t) ==
  /\ t \in 0..Len(fields)
  /\ \A i \in 1..t : ~Same(name, fields[i][1])
  /\ t = Len(fields) \/ Same(name, fields[t + 1][1])

OffsetAt(h, L, f, name, t) == FieldOffset(h, Len(L), {}, name) = Len(L \o f[t])

LEMMA OffsetIs ==
  ASSUME NEW L \in Tokens, NEW fields \in Fields, NEW f, Flat(TextsOf(fields), f), NEW name, NEW t,
         FirstNamed(fields, name, t), NEW h, h = L \o (f[Len(fields)] \o Eol)
  PROVE  OffsetAt(h, L, f, name, t)
<1> DEFINE n == Len(fields)
           texts == TextsOf(fields)
           pos == [i \in 0..n |-> Len(L \o f[i])]
<1>1. texts \in Seq(Tokens) /\ Len(texts) = n /\ n \in Nat /\ t \in 0..n
  BY TextsType DEF Fields, FirstNamed
<1>2. \A i \in 1..n : texts[i] # <<>> /\ texts[i] \in Tokens /\ fields[i][1] \in Name
                      /\ texts[i] = FieldText(fields[i][1], fields[i][2])
  BY TextsType
<1>3. \A i \in 0..n : Len(f[i]) \in Nat /\ Len(f[i]) >= i
  <2> HIDE DEF texts, n
  <2> QED BY <1>1, <1>2, FlatLength DEF texts
<1>4. \A i \in 0..n : f[i] \in Tokens
  BY <1>1 DEF Flat
<1>5. \A i \in 1..n : f[i] = f[i - 1] \o texts[i]
  BY <1>1 DEF Flat
<1>6. f[0] = <<>>
  BY DEF Flat
<1>7. \A i \in 1..n : FieldIs(h, L \o f[i - 1], fields[i][1], fields[i][2])
  BY AtField
<1> HIDE DEF texts, n
<1>8. pos[0] = Len(L) /\ pos[t] = Len(L \o f[t])
  <2>1. L \o <<>> = L
    BY WithNothing
  <2> QED BY <2>1, <1>1, <1>6
<1>9. Len(h) \in Nat /\ t <= Len(h) /\ h = (L \o f[n]) \o Eol
  <2> DEFINE F == f[n]
             FE == F \o Eol
  <2>1. F \in Tokens /\ Len(F) \in Nat /\ Len(F) >= n /\ Eol \in Tokens /\ Len(Eol) = 2
    BY <1>1, <1>3, <1>4, Controls
  <2>2. h = L \o FE
    BY DEF n
  <2> HIDE DEF F
  <2>3. FE \in Tokens /\ Len(FE) = Len(F) + Len(Eol)
    BY <2>1, StartsWith
  <2>4. h = (L \o F) \o Eol
    <3>1. Regroups(L, F, Eol)
      BY <2>1, Regrouped
    <3> QED BY <3>1, <2>2 DEF Regroups
  <2> HIDE DEF FE
  <2>5. Len(h) = Len(L) + Len(FE) /\ Len(L) \in Nat
    <3>1. Len(L \o FE) = Len(L) + Len(FE)
      BY <2>3, StartsWith
    <3> QED BY <2>2, <3>1, Piece
  <2>6. Len(h) \in Nat /\ t <= Len(h)
    BY <2>1, <2>3, <2>5, <1>1
  <2> QED BY <2>4, <2>6 DEF F
<1>10. ASSUME NEW i \in 0..(t - 1) PROVE Goes(h, name, pos[i], pos[i + 1])
  <2> DEFINE j == i + 1
             a == L \o f[i]
             nm == fields[j][1]
             T == FieldText(nm, fields[j][2])
  <2>1. j \in 1..n /\ j \in 1..t /\ i \in 0..n /\ j - 1 = i
    BY <1>1
  <2>2. FieldIs(h, a, nm, fields[j][2]) /\ nm \in Name /\ ~Same(name, nm)
    BY <1>2, <1>7, <2>1 DEF FirstNamed
  <2>3. pos[i] = Len(a) /\ pos[j] = Len(L \o f[j])
    BY <2>1
  <2>4. f[j] = f[i] \o T /\ f[i] \in Tokens /\ T \in Tokens
    BY <1>2, <1>4, <1>5, <2>1
  <2> HIDE DEF j, T, pos, nm
  <2>5. Len(L \o f[j]) = Len(a) + Len(T)
    <3>1. L \o f[j] = a \o T
      <4>1. Regroups(L, f[i], T)
        BY <2>4, Regrouped
      <4> QED BY <4>1, <2>4 DEF Regroups
    <3>2. a \in Tokens
      BY <2>4, StartsWith
    <3> HIDE DEF a
    <3>3. Len(a \o T) = Len(a) + Len(T)
      BY <2>4, <3>2, StartsWith
    <3> QED BY <3>1, <3>3
  <2>6. Len(nm) \in Nat /\ Len(nm) # 0 /\ Len(a) \in Nat
    <3>1. nm \in Tokens /\ nm # <<>> /\ a \in Tokens
      BY <2>2, <2>4, NameIs, StartsWith
    <3>2. nm = <<>> <=> Len(nm) = 0
      BY <3>1, Piece
    <3> HIDE DEF a
    <3> QED BY <3>1, <3>2, Piece
  <2> HIDE DEF a
  <2>7. SkipName(h, Len(a)) = Len(a) + Len(nm) /\ Len(a) + Len(nm) # Len(a)
    BY <2>2, <2>6 DEF FieldIs
  <2>8. SubSeq(h, Len(a) + 1, Len(a) + Len(nm)) = nm /\ SkipLine(h, Len(a)) = Len(a) + Len(T)
    BY <2>2 DEF FieldIs, T
  <2>9. ~StopsAt(h, name, Len(a))
    BY <2>2, <2>7, <2>8 DEF StopsAt
  <2> QED BY <2>3, <2>5, <2>8, <2>9 DEF Goes, j
<1>11. StopsAt(h, name, pos[t])
  <2>1. CASE t = n
    <3>1. L \o f[n] \in Tokens
      BY <1>1, <1>4, StartsWith
    <3>2. NoFieldAt(h, Len(L \o f[n]))
      BY <3>1, <1>9, EndAhead
    <3> HIDE DEF pos
    <3> QED BY <2>1, <3>2, <1>8 DEF StopsAt, NoFieldAt
  <2>2. CASE t # n
    <3> DEFINE j == t + 1
    <3>1. j \in 1..n /\ j - 1 = t
      BY <2>2, <1>1
    <3>2. Same(name, fields[j][1])
      BY <2>2 DEF FirstNamed, n
    <3>3. FieldIs(h, L \o f[t], fields[j][1], fields[j][2])
      BY <1>7, <3>1
    <3> HIDE DEF pos, j
    <3> QED BY <3>2, <3>3, <1>8 DEF StopsAt, FieldIs
  <2> QED BY <2>1, <2>2
<1> HIDE DEF pos
<1>12. FieldOffset(h, pos[0], {}, name) = pos[t]
  <2>1. RunsTo(h, name, pos, t)
    BY <1>10, <1>11 DEF RunsTo
  <2>2. t \in Nat /\ t <= Len(h) /\ Len(h) \in Nat
    BY <1>1, <1>9
  <2>3. OffsetFrom(h, name, pos, t)
    BY <2>1, <2>2, OffsetRun
  <2> QED BY <2>3 DEF OffsetFrom
<1> QED BY <1>8, <1>12 DEF OffsetAt

LEMMA FieldTextIs ==
  ASSUME NEW name \in Name, NEW value \in OneLine
  PROVE  name \o <<":", " ">> \o value \o Eol = FieldText(name, value)
<1> DEFINE ve == value \o Eol
           nc == name \o Colon
<1>1. name \in Tokens /\ value \in Tokens /\ Eol \in Tokens /\ Colon \in Tokens
  BY NameIs, Controls DEF OneLine
<1>2. ve \in Tokens /\ nc \in Tokens
  BY <1>1, StartsWith
<1>3. Regroups(nc, value, Eol)
  <2> HIDE DEF nc
  <2> QED BY <1>1, <1>2, Regrouped
<1>4. Regroups(name, Colon, ve)
  <2> HIDE DEF ve
  <2> QED BY <1>1, <1>2, Regrouped
<1>5. (nc \o value) \o Eol = FieldText(name, value)
  BY <1>3, <1>4, Zenon DEF Regroups, FieldText
<1> QED BY <1>5, Zenon DEF Colon, Mark, Gap

(* The edit of the fields from the first of that name. *)
WithFieldIs(h, o, name, value) ==
  WithField([h |-> h, o |-> o], name, value, {}) =
    LET at == FieldOffset(h, o, {}, name)
        rest == WithoutField(h, at, {}, name)
    IN IF name = <<>> THEN rest ELSE Insert(rest, at, at, name \o <<":", " ">> \o value \o Eol)

LEMMA WithFieldSteps ==
  ASSUME NEW h, NEW o, NEW name, NEW value
  PROVE  WithFieldIs(h, o, name, value)
<1> DEFINE s == [h |-> h, o |-> o]
<1>1. s.h = h /\ s.o = o
  OBVIOUS
<1> HIDE DEF s
<1>2. WithField(s, name, value, {}) =
        LET at == FieldOffset(h, o, {}, name)
            rest == WithoutField(h, at, {}, name)
        IN IF name = <<>> THEN rest ELSE Insert(rest, at, at, name \o <<":", " ">> \o value \o Eol)
  BY <1>1, Zenon DEF WithField
<1> QED BY <1>2, Zenon DEF s, WithFieldIs

LEMMA FieldGone ==
  ASSUME NEW h, NEW k, NEW name, NoFieldAt(h, k)
  PROVE  WithoutField(h, k, {}, name) = h
BY DEF WithoutField, NoFieldAt

Cuts(h, a, b, name) == WithoutField(h, Len(a), {}, name) = a \o b

LEMMA FieldCut ==
  ASSUME NEW a \in Tokens, NEW b \in Tokens, NEW old \in Name, NEW value \in OneLine, NEW name, Same(name, old),
         NEW h, h = a \o (FieldText(old, value) \o b)
  PROVE  Cuts(h, a, b, name)
<1> DEFINE T == FieldText(old, value)
           k == Len(a)
           N == <<>>
<1>1. FieldIs(h, a, old, value)
  BY FieldAhead
<1>2. T \in Tokens /\ old \in Tokens /\ old # <<>> /\ N \in Tokens
  BY FieldTextType, NameIs, WithNothing
<1>3. Len(old) \in Nat /\ Len(old) # 0 /\ k \in Nat
  <2>1. old = <<>> <=> Len(old) = 0
    BY <1>2, Piece
  <2> QED BY <2>1, <1>2, Piece
<1>4. N \o b = b
  BY WithNothing
<1> HIDE DEF T, k, N
<1>5. SkipName(h, k) = k + Len(old) /\ k + Len(old) # k
  BY <1>1, <1>3 DEF FieldIs, k
<1>6. SubSeq(h, k + 1, k + Len(old)) = old /\ SkipLine(h, k) = k + Len(T)
  BY <1>1 DEF FieldIs, k, T
<1>7. WithoutField(h, k, {}, name) = Insert(h, k, k + Len(T), N)
  BY <1>5, <1>6 DEF WithoutField, N
<1>8. Replaces(a, T, b, N)
  BY <1>2, Inserted
<1> QED BY <1>4, <1>7, <1>8 DEF Replaces, T, k, Cuts

LEMMA PutAt ==
  ASSUME NEW a \in Tokens, NEW b \in Tokens, NEW T \in Tokens
  PROVE  Insert(a \o b, Len(a), Len(a), T) = a \o (T \o b)
<1> DEFINE N == <<>>
<1>1. N \in Tokens /\ N \o b = b /\ Len(N) = 0 /\ Len(a) \in Nat
  BY WithNothing, Piece
<1> HIDE DEF N
<1>2. Replaces(a, N, b, T)
  BY <1>1, Inserted
<1>3. Len(a) + Len(N) = Len(a)
  BY <1>1
<1> QED BY <1>1, <1>2, <1>3 DEF Replaces

LEMMA NoNameNamed ==
  ASSUME NEW name \in Name
  PROVE  ~Same(<<>>, name)
<1> DEFINE N == <<>>
<1>1. name \in Tokens /\ name # N /\ DOMAIN name = 1..Len(name) /\ Len(name) \in Nat /\ Len(name) # 0
  <2>1. name \in Tokens /\ name # <<>>
    BY NameIs
  <2>2. name = <<>> <=> Len(name) = 0
    BY <2>1, Piece
  <2> QED BY <2>1, <2>2, Piece
<1>2. 1 \in DOMAIN name /\ 1 \notin DOMAIN N
  BY <1>1
<1>3. DOMAIN Folded(name) = DOMAIN name /\ DOMAIN Folded(N) = DOMAIN N
  BY DEF Folded
<1> HIDE DEF N
<1>4. ~Same(N, name)
  BY <1>2, <1>3 DEF Same
<1> QED BY <1>4 DEF N

NamedAt(fields, name) == SelectInSeq(fields, LAMBDA f : Same(f[1], name))

LEMMA NamedFirst ==
  ASSUME NEW fields \in Fields, NEW name
  PROVE  \/ NamedAt(fields, name) = 0 /\ FirstNamed(fields, name, Len(fields))
         \/ /\ NamedAt(fields, name) \in 1..Len(fields)
            /\ Same(name, fields[NamedAt(fields, name)][1])
            /\ FirstNamed(fields, name, NamedAt(fields, name) - 1)
<1> DEFINE n == Len(fields)
           I == {i \in 1..n : Same(fields[i][1], name)}
           at == NamedAt(fields, name)
           least == CHOOSE i \in I : \A j \in I : i <= j
<1>1. n \in Nat
  BY DEF Fields
<1>2. at = IF I # {} THEN least ELSE 0
  BY DEF NamedAt, SelectInSeq, Min
<1>3. \A i \in 1..n : i \in I <=> Same(name, fields[i][1])
  BY DEF Same
<1> HIDE DEF at
<1>4. CASE I = {}
  <2>1. FirstNamed(fields, name, n)
    BY <1>1, <1>3, <1>4 DEF FirstNamed
  <2> QED BY <2>1, <1>2, <1>4 DEF at
<1>5. CASE I # {}
  <2>1. I \subseteq 1..n /\ I \subseteq Nat
    BY <1>1
  <2>2. \E i \in I : \A j \in I : i <= j
    <3> HIDE DEF I
    <3> QED BY <1>5, <2>1, NatLeast
  <2>3. at \in I /\ \A j \in I : at <= j
    <3> HIDE DEF I
    <3> QED BY <1>2, <1>5, <2>2
  <2>4. at \in 1..n /\ Same(name, fields[at][1])
    BY <1>3, <2>1, <2>3
  <2>5. \A i \in 1..(at - 1) : ~Same(name, fields[i][1])
    <3> SUFFICES ASSUME NEW i \in 1..(at - 1) PROVE i \notin I /\ i \in 1..n
      BY <1>3
    <3> HIDE DEF I
    <3> QED BY <1>1, <2>3, <2>4
  <2>6. at - 1 \in 0..n /\ (at - 1) + 1 = at
    BY <1>1, <2>4
  <2>7. FirstNamed(fields, name, at - 1)
    BY <2>4, <2>5, <2>6 DEF FirstNamed, n
  <2> QED BY <2>4, <2>7 DEF at, n
<1> QED BY <1>4, <1>5

(* What the texts of the fields make, and the header from them. *)
HeaderFrom(h, L, fields, f) ==
  Flat(TextsOf(fields), f) /\ f[Len(fields)] \in Tokens /\ h = L \o (f[Len(fields)] \o Eol)

LEMMA HeaderHas ==
  ASSUME NEW L \in Tokens, NEW fields \in Fields
  PROVE  \E f : HeaderFrom(HeaderOf(L, fields), L, fields, f)
<1> DEFINE texts == TextsOf(fields)
<1>1. texts \in Seq(Tokens) /\ Len(texts) = Len(fields) /\ Len(fields) \in Nat
  BY TextsType DEF Fields
<1>2. PICK f : Flat(texts, f) /\ FlattenSeq(texts) = f[Len(fields)]
  <2> HIDE DEF texts
  <2> QED BY <1>1, Flattened
<1>3. f[Len(fields)] \in Tokens
  BY <1>1, <1>2 DEF Flat
<1> QED BY <1>2, <1>3 DEF HeaderFrom, HeaderOf

LEMMA OffsetHas ==
  ASSUME NEW L \in Tokens, NEW fields \in Fields, NEW h, NEW f, HeaderFrom(h, L, fields, f),
         NEW name, NEW t, FirstNamed(fields, name, t)
  PROVE  OffsetAt(h, L, f, name, t)
<1>1. Flat(TextsOf(fields), f) /\ h = L \o (f[Len(fields)] \o Eol)
  BY DEF HeaderFrom
<1> QED BY <1>1, OffsetIs

(* Behind the last field. *)
LEMMA HeaderEnds ==
  ASSUME NEW L \in Tokens, NEW fields \in Fields, NEW h, NEW f, HeaderFrom(h, L, fields, f)
  PROVE  /\ L \o f[Len(fields)] \in Tokens /\ h = (L \o f[Len(fields)]) \o Eol
         /\ NoFieldAt(h, Len(L \o f[Len(fields)]))
<1> DEFINE F == f[Len(fields)]
<1>1. F \in Tokens /\ h = L \o (F \o Eol) /\ Eol \in Tokens
  BY Controls DEF HeaderFrom
<1> HIDE DEF F
<1>2. Regroups(L, F, Eol)
  BY <1>1, Regrouped
<1>3. L \o F \in Tokens /\ h = (L \o F) \o Eol
  BY <1>1, <1>2, StartsWith DEF Regroups
<1> QED BY <1>3, EndAhead DEF F

(* No name: the fields stay. *)
LEMMA FieldsKept ==
  ASSUME NEW L \in Tokens, NEW fields \in Fields, NEW h, h = HeaderOf(L, fields), NEW value
  PROVE  WithField([h |-> h, o |-> Len(L)], <<>>, value, {}) = h
<1> DEFINE n == Len(fields)
           N == <<>>
<1>1. PICK f : HeaderFrom(h, L, fields, f)
  BY HeaderHas
<1>2. FirstNamed(fields, N, n)
  <2>1. n \in Nat /\ \A i \in 1..n : fields[i][1] \in Name
    BY TextsType DEF Fields
  <2>2. \A i \in 1..n : ~Same(N, fields[i][1])
    <3> HIDE DEF n
    <3> QED BY <2>1, NoNameNamed
  <2> HIDE DEF N
  <2> QED BY <2>1, <2>2 DEF FirstNamed
<1>3. N = <<>>
  OBVIOUS
<1> HIDE DEF N
<1>4. FieldOffset(h, Len(L), {}, N) = Len(L \o f[n])
  <2>1. OffsetAt(h, L, f, N, n)
    BY <1>1, <1>2, OffsetHas
  <2> QED BY <2>1 DEF OffsetAt
<1>5. WithoutField(h, Len(L \o f[n]), {}, N) = h
  BY <1>1, HeaderEnds, FieldGone
<1>6. WithFieldIs(h, Len(L), N, value)
  BY WithFieldSteps
<1> QED BY <1>3, <1>4, <1>5, <1>6, Zenon DEF WithFieldIs

WithNew(fields, name, value) ==
  IF NamedAt(fields, name) = 0 THEN Append(fields, <<name, value>>)
  ELSE [fields EXCEPT ![NamedAt(fields, name)] = <<name, value>>]

Puts(L, fields, name, value) ==
  WithField([h |-> HeaderOf(L, fields), o |-> Len(L)], name, value, {})
    = HeaderOf(L, WithNew(fields, name, value))

(* A name that no field has: the new field is the last. *)
LEMMA FieldAdded ==
  ASSUME NEW L \in Tokens, NEW fields \in Fields, NEW name \in Name, NEW value \in OneLine,
         NamedAt(fields, name) = 0
  PROVE  WithNew(fields, name, value) \in Fields /\ Puts(L, fields, name, value)
<1> DEFINE n == Len(fields)
           new == <<name, value>>
           more == Append(fields, new)
           h == HeaderOf(L, fields)
           T == FieldText(name, value)
<1>1. n \in Nat /\ \A i \in 1..n : fields[i] \in Name \X OneLine
  BY DEF Fields
<1>2. WithNew(fields, name, value) = more
  BY DEF WithNew
<1>3. /\ more \in Fields /\ Len(more) = n + 1 /\ more[n + 1] = new
      /\ \A i \in 1..n : more[i] = fields[i]
  BY DEF Fields
<1>4. PICK f : HeaderFrom(h, L, fields, f)
  BY HeaderHas
<1> HIDE DEF more
<1>5. PICK g : HeaderFrom(HeaderOf(L, more), L, more, g)
  BY <1>3, HeaderHas
<1> HIDE DEF n, h
<1>6. T \in Tokens
  BY FieldTextType
<1>7. f[n] = g[n] /\ g[n + 1] = g[n] \o T
  <2>1. /\ TextsOf(fields) \in Seq(Tokens) /\ Len(TextsOf(fields)) = n
        /\ \A i \in 1..n : TextsOf(fields)[i] = FieldText(fields[i][1], fields[i][2])
    BY TextsType DEF n
  <2>2. /\ TextsOf(more) \in Seq(Tokens) /\ Len(TextsOf(more)) = n + 1
        /\ \A i \in 1..(n + 1) : TextsOf(more)[i] = FieldText(more[i][1], more[i][2])
    BY <1>3, TextsType
  <2>3. \A i \in 1..n : TextsOf(fields)[i] = TextsOf(more)[i]
    BY <1>1, <1>3, <2>1, <2>2
  <2>4. f[n] = g[n]
    <3>1. n <= n /\ n <= n + 1
      BY <1>1
    <3>2. Flat(TextsOf(fields), f) /\ Flat(TextsOf(more), g)
      BY <1>4, <1>5 DEF HeaderFrom
    <3>3. n \in Nat /\ n <= Len(TextsOf(fields)) /\ n <= Len(TextsOf(more))
      BY <1>1, <2>1, <2>2, <3>1
    <3> DEFINE s == TextsOf(fields)
               u == TextsOf(more)
    <3>4. s \in Seq(Tokens) /\ u \in Seq(Tokens)
      BY <2>1, <2>2
    <3> HIDE DEF s, u
    <3> QED BY <2>3, <3>2, <3>3, <3>4, FlatAlike DEF s, u
  <2>5. TextsOf(more)[n + 1] = T
    BY <1>1, <1>3, <2>2
  <2>6. g[n + 1] = g[n] \o TextsOf(more)[n + 1]
    <3>1. n + 1 \in 1..(n + 1) /\ (n + 1) - 1 = n
      BY <1>1
    <3> QED BY <1>5, <2>2, <3>1 DEF HeaderFrom, Flat
  <2> QED BY <2>4, <2>5, <2>6
<1> DEFINE F == f[n]
           a == L \o F
<1>8. a \in Tokens /\ h = a \o Eol /\ NoFieldAt(h, Len(a))
  BY <1>4, HeaderEnds DEF n
<1>9. F \in Tokens /\ HeaderOf(L, more) = L \o ((F \o T) \o Eol)
  BY <1>3, <1>4, <1>5, <1>7 DEF HeaderFrom, n
<1> HIDE DEF F, T
<1>10. HeaderOf(L, more) = a \o (T \o Eol)
  <2> DEFINE TE == T \o Eol
  <2>1. Eol \in Tokens /\ TE \in Tokens
    BY <1>6, Controls, StartsWith
  <2> HIDE DEF TE
  <2>2. Regroups(L, F, TE)
    BY <1>9, <2>1, Regrouped
  <2>3. Regroups(F, T, Eol)
    BY <1>6, <1>9, <2>1, Regrouped
  <2> QED BY <1>9, <2>2, <2>3 DEF Regroups, TE
<1>11. FieldOffset(h, Len(L), {}, name) = Len(a)
  <2>1. FirstNamed(fields, name, n)
    BY NamedFirst DEF n
  <2>2. OffsetAt(h, L, f, name, n)
    BY <1>4, <2>1, OffsetHas
  <2> QED BY <2>2 DEF OffsetAt, F
<1> HIDE DEF a
<1>12. WithoutField(h, Len(a), {}, name) = h
  BY <1>8, FieldGone
<1>13. Insert(h, Len(a), Len(a), T) = a \o (T \o Eol)
  BY <1>6, <1>8, PutAt, Controls
<1>14. name \o <<":", " ">> \o value \o Eol = T
  BY FieldTextIs DEF T
<1>15. name # <<>>
  BY NameIs
<1>16. WithFieldIs(h, Len(L), name, value)
  BY WithFieldSteps
<1>17. WithField([h |-> h, o |-> Len(L)], name, value, {}) = a \o (T \o Eol)
  BY <1>11, <1>12, <1>13, <1>14, <1>15, <1>16, Zenon DEF WithFieldIs
<1> QED BY <1>2, <1>3, <1>10, <1>17 DEF Puts, h

(* A name that some field has: the first of them gives way to the new one. *)
LEMMA FieldReplaced ==
  ASSUME NEW L \in Tokens, NEW fields \in Fields, NEW name \in Name, NEW value \in OneLine,
         NamedAt(fields, name) # 0
  PROVE  WithNew(fields, name, value) \in Fields /\ Puts(L, fields, name, value)
<1> DEFINE n == Len(fields)
           at == NamedAt(fields, name)
           new == <<name, value>>
           more == [fields EXCEPT ![at] = new]
           h == HeaderOf(L, fields)
           T == FieldText(name, value)
           old == fields[at][1]
           S == FieldText(old, fields[at][2])
<1>1. at \in 1..n /\ Same(name, old) /\ FirstNamed(fields, name, at - 1)
  BY NamedFirst
<1>2. WithNew(fields, name, value) = more
  BY DEF WithNew
<1> HIDE DEF at
<1>3. n \in Nat /\ \A i \in 1..n : fields[i] \in Name \X OneLine
  BY DEF Fields
<1>4. /\ more \in Fields /\ Len(more) = n /\ more[at] = new
      /\ \A i \in 1..n : i # at => more[i] = fields[i]
  BY <1>1 DEF Fields
<1>5. PICK f : HeaderFrom(h, L, fields, f)
  BY HeaderHas
<1> HIDE DEF more
<1>6. PICK g : HeaderFrom(HeaderOf(L, more), L, more, g)
  BY <1>4, HeaderHas
<1>7. T \in Tokens /\ old \in Name /\ fields[at][2] \in OneLine /\ S \in Tokens
  BY <1>1, <1>3, FieldTextType
<1> HIDE DEF n, h
<1>8. /\ TextsOf(fields) \in Seq(Tokens) /\ Len(TextsOf(fields)) = n
      /\ \A i \in 1..n : TextsOf(fields)[i] = FieldText(fields[i][1], fields[i][2])
  BY TextsType DEF n
<1>9. /\ TextsOf(more) \in Seq(Tokens) /\ Len(TextsOf(more)) = n
      /\ \A i \in 1..n : TextsOf(more)[i] = FieldText(more[i][1], more[i][2])
  BY <1>4, TextsType
<1> DEFINE p == f[at - 1]
<1>10. /\ g[at - 1] = p
       /\ \E B \in Tokens : FlatTail(TextsOf(fields), f, at, n, B) /\ FlatTail(TextsOf(more), g, at, n, B)
  <2>1. \A i \in 1..n : i # at => TextsOf(fields)[i] = TextsOf(more)[i]
    BY <1>4, <1>8, <1>9
  <2> QED BY <1>1, <1>3, <1>5, <1>6, <1>8, <1>9, <2>1, FlatSplits DEF HeaderFrom
<1>11. PICK B \in Tokens : FlatTail(TextsOf(fields), f, at, n, B) /\ FlatTail(TextsOf(more), g, at, n, B)
  BY <1>10
<1>12. f[n] = p \o (S \o B) /\ g[n] = p \o (T \o B)
  <2>1. TextsOf(fields)[at] = S /\ TextsOf(more)[at] = T
    BY <1>1, <1>4, <1>8, <1>9
  <2> QED BY <1>10, <1>11, <2>1 DEF FlatTail
<1>13. p \in Tokens
  <2>1. at - 1 \in 0..n
    BY <1>1, <1>3
  <2> QED BY <1>5, <1>8, <2>1 DEF HeaderFrom, Flat
<1> DEFINE a == L \o p
           b == B \o Eol
<1>14. h = a \o (S \o b) /\ HeaderOf(L, more) = a \o (T \o b)
  <2>1. h = L \o (f[n] \o Eol) /\ HeaderOf(L, more) = L \o (g[n] \o Eol)
    BY <1>4, <1>5, <1>6 DEF HeaderFrom, n
  <2> HIDE DEF S, T, p
  <2>2. Opens(L, p, S, B) /\ Opens(L, p, T, B)
    BY <1>7, <1>13, Opened
  <2> QED BY <1>12, <2>1, <2>2 DEF Opens
<1>15. a \in Tokens /\ b \in Tokens
  BY <1>13, Controls, StartsWith
<1>16. FieldOffset(h, Len(L), {}, name) = Len(a)
  <2>1. OffsetAt(h, L, f, name, at - 1)
    BY <1>1, <1>5, OffsetHas
  <2> QED BY <2>1 DEF OffsetAt
<1> HIDE DEF a, b, p
<1>17. WithoutField(h, Len(a), {}, name) = a \o b
  <2> DEFINE value2 == fields[at][2]
  <2>1. value2 \in OneLine /\ old \in Name /\ Same(name, old) /\ h = a \o (FieldText(old, value2) \o b)
    BY <1>1, <1>7, <1>14
  <2> HIDE DEF value2, old
  <2>2. Cuts(h, a, b, name)
    BY <2>1, <1>15, FieldCut
  <2> QED BY <2>2 DEF Cuts
<1> HIDE DEF T, S
<1>18. Insert(a \o b, Len(a), Len(a), T) = a \o (T \o b)
  BY <1>7, <1>15, PutAt
<1>19. name \o <<":", " ">> \o value \o Eol = T
  BY FieldTextIs DEF T
<1>20. name # <<>>
  BY NameIs
<1>21. WithFieldIs(h, Len(L), name, value)
  BY WithFieldSteps
<1>22. WithField([h |-> h, o |-> Len(L)], name, value, {}) = a \o (T \o b)
  BY <1>16, <1>17, <1>18, <1>19, <1>20, <1>21, Zenon DEF WithFieldIs
<1> QED BY <1>2, <1>4, <1>14, <1>22 DEF Puts, h

------------------------------------------------------------------------------
(* A whole edit. *)

IsWord(name) == \E k \in DOMAIN Names : Same(name, <<Names[k]>>)

(* An edit that leaves a request of three words and fields. *)
GoodEdit(name, value) ==
  /\ name \in Name \cup {<<>>} /\ value \in OneLine
  /\ IsWord(name) => value \in Plain

Requests == [method : Plain, url : Plain, version : Plain, fields : Fields]

WholeWords(r) == r.method # <<>> /\ r.url # <<>> /\ r.version # <<>>

NewFields(fields, name, value) ==
  IF IsWord(name) \/ name = <<>> THEN fields ELSE WithNew(fields, name, value)

FieldsPut(L, fields, name, value) ==
  WithField([h |-> HeaderOf(L, fields), o |-> Len(L)], IF IsWord(name) THEN <<>> ELSE name, value, {})
    = HeaderOf(L, NewFields(fields, name, value))

LEMMA FieldsEdited ==
  ASSUME NEW L \in Tokens, NEW fields \in Fields, NEW name, NEW value, GoodEdit(name, value)
  PROVE  NewFields(fields, name, value) \in Fields /\ FieldsPut(L, fields, name, value)
<1>1. CASE IsWord(name) \/ name = <<>>
  <2>1. NewFields(fields, name, value) = fields /\ (IF IsWord(name) THEN <<>> ELSE name) = <<>>
    BY <1>1 DEF NewFields
  <2>2. WithField([h |-> HeaderOf(L, fields), o |-> Len(L)], <<>>, value, {}) = HeaderOf(L, fields)
    BY FieldsKept
  <2>3. FieldsPut(L, fields, name, value)
    BY <2>1, <2>2, Zenon DEF FieldsPut
  <2> QED BY <2>1, <2>3
<1>2. CASE ~(IsWord(name) \/ name = <<>>)
  <2>1. NewFields(fields, name, value) = WithNew(fields, name, value) /\ (IF IsWord(name) THEN <<>> ELSE name) = name
    BY <1>2 DEF NewFields
  <2>2. name \in Name /\ value \in OneLine
    BY <1>2 DEF GoodEdit
  <2>3. WithNew(fields, name, value) \in Fields /\ Puts(L, fields, name, value)
    BY <2>2, FieldAdded, FieldReplaced
  <2>4. FieldsPut(L, fields, name, value)
    BY <2>1, <2>3, Zenon DEF FieldsPut, Puts
  <2> QED BY <2>1, <2>3, <2>4
<1> QED BY <1>1, <1>2

LEMMA NamesAre ==
  /\ DOMAIN Names = 1..3
  /\ Names[1] = "method" /\ Names[2] = "url" /\ Names[3] = "version"
BY DEF Names

(* At most one of the words has that name. *)
LEMMA OneWord ==
  ASSUME NEW name
  PROVE  /\ Same(name, <<"method">>) => ~Same(name, <<"url">>) /\ ~Same(name, <<"version">>)
         /\ Same(name, <<"url">>) => ~Same(name, <<"version">>)
         /\ IsWord(name) <=> Same(name, <<"method">>) \/ Same(name, <<"url">>) \/ Same(name, <<"version">>)
         /\ name = <<>> => ~IsWord(name)
<1>1. "method" # "url" /\ "method" # "version" /\ "url" # "version"
  OBVIOUS
<1>2. ~Same(<<"method">>, <<"url">>) /\ ~Same(<<"method">>, <<"version">>) /\ ~Same(<<"url">>, <<"version">>)
  BY <1>1, LowerAssumption
<1>3. \A x, y : Same(name, x) /\ Same(name, y) => Same(x, y)
  BY DEF Same
<1>4. IsWord(name) <=> Same(name, <<"method">>) \/ Same(name, <<"url">>) \/ Same(name, <<"version">>)
  <2>1. \A k \in 1..3 : k = 1 \/ k = 2 \/ k = 3
    OBVIOUS
  <2>2. 1 \in 1..3 /\ 2 \in 1..3 /\ 3 \in 1..3
    OBVIOUS
  <2> QED BY <2>1, <2>2, NamesAre, Zenon DEF IsWord
<1>5. name = <<>> => ~IsWord(name)
  <2>1. \A x : ~Same(<<>>, <<x>>)
    <3> SUFFICES ASSUME NEW x PROVE ~Same(<<>>, <<x>>)
      OBVIOUS
    <3> DEFINE N == <<>>
               w == <<x>>
    <3>1. 1 \in DOMAIN w /\ 1 \notin DOMAIN N
      OBVIOUS
    <3>2. DOMAIN Folded(w) = DOMAIN w /\ DOMAIN Folded(N) = DOMAIN N
      BY DEF Folded
    <3> HIDE DEF N, w
    <3>3. ~Same(N, w)
      BY <3>1, <3>2 DEF Same
    <3> QED BY <3>3 DEF N, w
  <2> QED BY <2>1, <1>4
<1> QED BY <1>2, <1>3, <1>4, <1>5, Zenon

LEMMA EditedParts ==
  ASSUME NEW r \in Requests, NEW name, NEW value, GoodEdit(name, value)
  PROVE  LET e == Edited(r, name, value)
         IN /\ e \in Requests
            /\ e.method = NewWord(1, name, value, r.method)
            /\ e.url = NewWord(2, name, value, r.url)
            /\ e.version = NewWord(3, name, value, r.version)
            /\ e.fields = NewFields(r.fields, name, value)
<1> DEFINE e == Edited(r, name, value)
           isMethod == Same(name, <<"method">>)
           isUrl == Same(name, <<"url">>)
           isVersion == Same(name, <<"version">>)
           none == name = <<>>
           more == WithNew(r.fields, name, value)
           new == NewFields(r.fields, name, value)
           m == NewWord(1, name, value, r.method)
           u == NewWord(2, name, value, r.url)
           v == NewWord(3, name, value, r.version)
<1>1. e = CASE isMethod  -> [r EXCEPT !.method = value]
            [] isUrl     -> [r EXCEPT !.url = value]
            [] isVersion -> [r EXCEPT !.version = value]
            [] none      -> r
            [] OTHER     -> [r EXCEPT !.fields = more]
  BY Zenon DEF Edited, WithNew, NamedAt
<1>2. /\ isMethod => ~isUrl /\ ~isVersion
      /\ isUrl => ~isVersion
      /\ IsWord(name) <=> isMethod \/ isUrl \/ isVersion
      /\ none => ~IsWord(name)
  BY OneWord
<1>3. /\ m = IF isMethod THEN value ELSE r.method
      /\ u = IF isUrl THEN value ELSE r.url
      /\ v = IF isVersion THEN value ELSE r.version
  BY NamesAre, Zenon DEF NewWord
<1>4. new = IF isMethod \/ isUrl \/ isVersion \/ none THEN r.fields ELSE more
  BY <1>2 DEF NewFields
<1>5. new \in Fields
  <2>1. r.fields \in Fields /\ <<>> \in Tokens
    BY EmptySeq DEF Requests, Tokens
  <2> QED BY <2>1, FieldsEdited
<1>6. (isMethod \/ isUrl \/ isVersion) => value \in Plain
  BY <1>2 DEF GoodEdit
<1> HIDE DEF isMethod, isUrl, isVersion, none, more, new, m, u, v, e
<1>7. r = [method |-> r.method, url |-> r.url, version |-> r.version, fields |-> r.fields]
  BY DEF Requests
<1>8. r.method \in Plain /\ r.url \in Plain /\ r.version \in Plain
  BY DEF Requests
<1>9. e = [method |-> m, url |-> u, version |-> v, fields |-> new]
  <2>1. CASE isMethod
    <3>1. e = [r EXCEPT !.method = value] /\ m = value /\ u = r.url /\ v = r.version /\ new = r.fields
      BY <2>1, <1>1, <1>2, <1>3, <1>4
    <3> QED BY <3>1, <1>7
  <2>2. CASE isUrl
    <3>1. e = [r EXCEPT !.url = value] /\ m = r.method /\ u = value /\ v = r.version /\ new = r.fields
      BY <2>2, <1>1, <1>2, <1>3, <1>4
    <3> QED BY <3>1, <1>7
  <2>3. CASE isVersion
    <3>1. e = [r EXCEPT !.version = value] /\ m = r.method /\ u = r.url /\ v = value /\ new = r.fields
      BY <2>3, <1>1, <1>2, <1>3, <1>4
    <3> QED BY <3>1, <1>7
  <2>4. CASE ~isMethod /\ ~isUrl /\ ~isVersion /\ none
    <3>1. e = r /\ m = r.method /\ u = r.url /\ v = r.version /\ new = r.fields
      BY <2>4, <1>1, <1>2, <1>3, <1>4
    <3> QED BY <3>1, <1>7
  <2>5. CASE ~isMethod /\ ~isUrl /\ ~isVersion /\ ~none
    <3>1. e = [r EXCEPT !.fields = more] /\ m = r.method /\ u = r.url /\ v = r.version /\ new = more
      BY <2>5, <1>1, <1>2, <1>3, <1>4
    <3> QED BY <3>1, <1>7
  <2> QED BY <2>1, <2>2, <2>3, <2>4, <2>5
<1>10. m \in Plain /\ u \in Plain /\ v \in Plain
  BY <1>3, <1>6, <1>8
<1>11. e \in Requests
  BY <1>5, <1>9, <1>10 DEF Requests
<1> QED BY <1>9, <1>11 DEF e, m, u, v, new

LineOf(r) == FirstLine(r.method, r.url, r.version)

LEMMA WrittenIs ==
  ASSUME NEW r \in Requests
  PROVE  Written(r) = HeaderOf(LineOf(r) \o Eol, r.fields)
<1> DEFINE m == r.method
           u == r.url
           v == r.version
           fields == r.fields
           F == FlattenSeq(TextsOf(fields))
           Bu == Blank \o u
           Bv == Blank \o v
           a == m \o Bu
           line == LineOf(r)
           L == line \o Eol
<1>1. m \in Tokens /\ u \in Tokens /\ v \in Tokens /\ fields \in Fields /\ Blank \in Tokens /\ Eol \in Tokens
  BY Controls DEF Requests, Plain
<1>2. Written(r) =
        m \o Blank \o u \o Blank \o v \o Eol
          \o FlattenSeq([j \in DOMAIN fields |-> fields[j][1] \o <<":", " ">> \o fields[j][2] \o Eol]) \o Eol
  BY Zenon DEF Written, Blank, Gap
<1>3. [j \in DOMAIN fields |-> fields[j][1] \o <<":", " ">> \o fields[j][2] \o Eol] = TextsOf(fields)
  <2>1. DOMAIN fields = 1..Len(fields) /\ \A j \in 1..Len(fields) : fields[j][1] \in Name /\ fields[j][2] \in OneLine
    BY <1>1, TextsType DEF Fields
  <2>2. ASSUME NEW j \in DOMAIN fields
        PROVE  fields[j][1] \o <<":", " ">> \o fields[j][2] \o Eol = FieldText(fields[j][1], fields[j][2])
    <3> DEFINE x == fields[j][1]
               y == fields[j][2]
    <3>1. x \in Name /\ y \in OneLine
      BY <2>1
    <3> HIDE DEF x, y, fields
    <3>2. x \o <<":", " ">> \o y \o Eol = FieldText(x, y)
      BY <3>1, FieldTextIs
    <3> QED BY <3>2, Zenon DEF x, y
  <2> HIDE DEF fields
  <2> QED BY <2>2, Zenon DEF TextsOf
<1>4. Written(r) = ((((((m \o Blank) \o u) \o Blank) \o v) \o Eol) \o F) \o Eol
  <2> HIDE DEF m, u, v, fields
  <2> QED BY <1>2, <1>3, Zenon
<1>5. F \in Tokens
  <2>1. PICK f : HeaderFrom(HeaderOf(L, fields), L, fields, f)
    <3>1. L \in Tokens
      <4>1. line \in Tokens
        BY <1>1, FirstLineType DEF LineOf
      <4> HIDE DEF line
      <4> QED BY <4>1, <1>1, StartsWith
    <3> HIDE DEF L, fields
    <3> QED BY <3>1, <1>1, HeaderHas
  <2> DEFINE texts == TextsOf(fields)
  <2>2. texts \in Seq(Tokens) /\ Len(texts) \in Nat
    BY <1>1, TextsType DEF Fields
  <2>3. PICK g : Flat(texts, g) /\ FlattenSeq(texts) = g[Len(texts)]
    <3> HIDE DEF texts
    <3> QED BY <2>2, Flattened
  <2>4. g[Len(texts)] \in Tokens
    <3> HIDE DEF texts
    <3> QED BY <2>2, <2>3 DEF Flat
  <2> QED BY <2>3, <2>4
<1> HIDE DEF m, u, v, fields, F
<1>6. Bu \in Tokens /\ Bv \in Tokens
  BY <1>1, StartsWith
<1>7. (m \o Blank) \o u = a
  <2>1. Regroups(m, Blank, u)
    BY <1>1, Regrouped
  <2> QED BY <2>1 DEF Regroups
<1> HIDE DEF Bu
<1>8. a \in Tokens
  BY <1>1, <1>6, StartsWith
<1>9. line = a \o Bv
  BY DEF LineOf, FirstLine, a, Bv, Bu, m, u, v
<1> HIDE DEF a
<1>10. (a \o Blank) \o v = a \o Bv
  <2>1. Regroups(a, Blank, v)
    BY <1>1, <1>8, Regrouped
  <2> QED BY <2>1 DEF Regroups
<1> HIDE DEF Bv, line
<1>11. line \in Tokens
  BY <1>6, <1>8, <1>9, StartsWith
<1>12. L \in Tokens
  BY <1>1, <1>11, StartsWith
<1>13. Written(r) = (L \o F) \o Eol
  BY <1>4, <1>7, <1>9, <1>10
<1> HIDE DEF L
<1>14. Regroups(L, F, Eol)
  BY <1>1, <1>5, <1>12, Regrouped
<1>15. Written(r) = L \o (F \o Eol)
  BY <1>13, <1>14 DEF Regroups
<1> QED BY <1>15 DEF HeaderOf, L, F, line, fields

EditIs(h, name, value) ==
  Edit(h, name, value, {})
    = WithField(AfterLine(AfterWords(h, name, value)), IF IsWord(name) THEN <<>> ELSE name, value, {})

LEMMA EditSteps ==
  ASSUME NEW h, NEW name, NEW value
  PROVE  EditIs(h, name, value)
BY Zenon DEF EditIs, Edit, AfterLine, AfterWords, IsWord

(* From the first line on an edit does the same for a header as for a new one. *)
LEMMA EditEnds ==
  ASSUME NEW r \in Requests, NEW name, NEW value, GoodEdit(name, value), NEW h,
         LET L == LineOf(Edited(r, name, value)) \o Eol
         IN AfterLine(AfterWords(h, name, value)) = [h |-> HeaderOf(L, r.fields), o |-> Len(L)]
  PROVE  Edit(h, name, value, {}) = Written(Edited(r, name, value))
<1> DEFINE e == Edited(r, name, value)
           line == LineOf(e)
           L == line \o Eol
           field == IF IsWord(name) THEN <<>> ELSE name
<1>1. e \in Requests /\ e.fields = NewFields(r.fields, name, value)
  BY EditedParts
<1>2. AfterLine(AfterWords(h, name, value)) = [h |-> HeaderOf(L, r.fields), o |-> Len(L)]
  OBVIOUS
<1> HIDE DEF e
<1>3. line \in Tokens
  <2>1. e.method \in Tokens /\ e.url \in Tokens /\ e.version \in Tokens
    BY <1>1 DEF Requests, Plain
  <2> QED BY <2>1, FirstLineType DEF LineOf
<1> HIDE DEF line
<1>4. L \in Tokens
  BY <1>3, Controls, StartsWith
<1> HIDE DEF L
<1>5. r.fields \in Fields
  BY DEF Requests
<1>6. FieldsPut(L, r.fields, name, value)
  BY <1>4, <1>5, FieldsEdited
<1>7. EditIs(h, name, value)
  BY EditSteps
<1>8. Edit(h, name, value, {}) = HeaderOf(L, e.fields)
  BY <1>1, <1>2, <1>6, <1>7, Zenon DEF EditIs, FieldsPut
<1>9. Written(e) = HeaderOf(L, e.fields)
  BY <1>1, WrittenIs DEF L, line
<1> QED BY <1>8, <1>9 DEF e

(* http_edit_request() of a request it wrote before, whose three words are    *)
(* there, writes the request with the one part or field edited: the words it  *)
(* skips, the line of the field it looks for and the insertions fit together. *)
THEOREM EditWritten ==
  ASSUME NEW r \in Requests, WholeWords(r), NEW name, NEW value, GoodEdit(name, value)
  PROVE  Edit(Written(r), name, value, {}) = Written(Edited(r, name, value))
<1> DEFINE e == Edited(r, name, value)
           F == FlattenSeq(TextsOf(r.fields))
           R == F \o Eol
           E == Eol \o R
           old == LineOf(r)
           line == LineOf(e)
           L == line \o Eol
           h == Written(r)
<1>1. /\ e \in Requests
      /\ e.method = NewWord(1, name, value, r.method)
      /\ e.url = NewWord(2, name, value, r.url)
      /\ e.version = NewWord(3, name, value, r.version)
  BY EditedParts
<1> HIDE DEF e
<1>2. /\ e.method \in Plain /\ e.url \in Plain /\ e.version \in Plain
      /\ r.method \in Plain /\ r.url \in Plain /\ r.version \in Plain /\ r.fields \in Fields
  BY <1>1 DEF Requests
<1>3. F \in Tokens
  <2> DEFINE texts == TextsOf(r.fields)
  <2>1. texts \in Seq(Tokens) /\ Len(texts) \in Nat
    BY <1>2, TextsType DEF Fields
  <2>2. PICK g : Flat(texts, g) /\ FlattenSeq(texts) = g[Len(texts)]
    <3> HIDE DEF texts
    <3> QED BY <2>1, Flattened
  <2>3. g[Len(texts)] \in Tokens
    <3> HIDE DEF texts
    <3> QED BY <2>1, <2>2 DEF Flat
  <2> QED BY <2>2, <2>3
<1> HIDE DEF F
<1>4. R \in Tokens /\ R # <<>>
  <2>1. R \in Tokens /\ Len(R) = Len(F) + Len(Eol) /\ Len(Eol) = 2 /\ Len(F) \in Nat
    BY <1>3, Controls, StartsWith, Piece
  <2> HIDE DEF R
  <2>2. R = <<>> <=> Len(R) = 0
    BY <2>1, Piece
  <2> QED BY <2>1, <2>2
<1> HIDE DEF R
<1>5. E \in Tokens /\ E # <<>> /\ E[1] \in Spaces
  <2>1. Eol \in Tokens /\ Eol[1] \in Spaces /\ Eol # <<>>
    <3>1. Eol = <<>> <=> Len(Eol) = 0
      BY Controls, Piece
    <3> QED BY <3>1, Controls
  <2> QED BY <2>1, <1>4, StartsWith
<1>6. old \in Tokens /\ line \in Tokens /\ line # <<>> /\ line[Len(line)] # CR
  <2>1. old \in Tokens
    BY <1>2, LineEndsInWord DEF LineOf
  <2>2. line \in Tokens /\ line # <<>> /\ line[Len(line)] # CR
    BY <1>2, LineEndsInWord DEF LineOf
  <2> QED BY <2>1, <2>2
<1>7. h = old \o E
  <2>1. h = (old \o Eol) \o R
    BY WrittenIs DEF HeaderOf, R, F
  <2>2. Regroups(old, Eol, R)
    <3> HIDE DEF old
    <3> QED BY <1>4, <1>6, Controls, Regrouped
  <2> QED BY <2>1, <2>2 DEF Regroups
<1> HIDE DEF E
<1>8. AfterWords(h, name, value) = [h |-> line \o E, o |-> Len(line)]
  <2>1. WordsEdited(line, r.method, r.url, r.version, name, value)
    BY <1>1 DEF WordsEdited, LineOf
  <2> HIDE DEF line
  <2>2. AfterWords(FirstLine(r.method, r.url, r.version) \o E, name, value) = [h |-> line \o E, o |-> Len(line)]
    <3> DEFINE m == r.method
               u == r.url
               v == r.version
    <3>1. /\ m \in Plain /\ u \in Plain /\ v \in Plain /\ m # <<>> /\ u # <<>> /\ v # <<>>
          /\ NewWord(1, name, value, m) \in Plain /\ NewWord(2, name, value, u) \in Plain
          /\ NewWord(3, name, value, v) \in Plain
      BY <1>1, <1>2 DEF WholeWords
    <3>2. WordsEdited(line, m, u, v, name, value)
      BY <2>1
    <3> HIDE DEF m, u, v
    <3>3. AfterWords(FirstLine(m, u, v) \o E, name, value) = [h |-> line \o E, o |-> Len(line)]
      BY <1>5, <3>1, <3>2, OldLine
    <3> QED BY <3>3 DEF m, u, v
  <2> QED BY <2>2, <1>7 DEF LineOf
<1>9. AfterLine([h |-> line \o E, o |-> Len(line)]) = [h |-> L \o R, o |-> Len(L)]
  <2> HIDE DEF line
  <2> QED BY <1>4, <1>6, OldEnd DEF E
<1>10. HeaderOf(L, r.fields) = L \o R
  BY DEF HeaderOf, R, F
<1>11. AfterLine(AfterWords(h, name, value)) = [h |-> HeaderOf(L, r.fields), o |-> Len(L)]
  BY <1>8, <1>9, <1>10
<1> QED BY <1>11, EditEnds DEF e

LEMMA FreshIs ==
  /\ FreshRequest \in Requests /\ WholeWords(FreshRequest)
  /\ FreshRequest.method = <<"GET">> /\ FreshRequest.url = <<"/">>
  /\ FreshRequest.version = <<"HTTP/1.1">> /\ FreshRequest.fields = <<>>
<1>1. <<>> \in Fields
  BY EmptySeq DEF Fields
<1>2. \A x : <<x>> # <<>>
  OBVIOUS
<1> QED BY <1>1, <1>2, DefaultWords DEF FreshRequest, Requests, WholeWords

LEMMA EditFresh ==
  ASSUME NEW name, NEW value, GoodEdit(name, value)
  PROVE  Edit(<<>>, name, value, {}) = Written(Edited(FreshRequest, name, value))
<1> DEFINE r == FreshRequest
           e == Edited(r, name, value)
           line == LineOf(e)
           L == line \o Eol
<1>1. r \in Requests /\ r.method = <<"GET">> /\ r.url = <<"/">> /\ r.version = <<"HTTP/1.1">> /\ r.fields = <<>>
  BY FreshIs
<1> HIDE DEF r
<1>2. /\ e \in Requests
      /\ e.method = NewWord(1, name, value, <<"GET">>)
      /\ e.url = NewWord(2, name, value, <<"/">>)
      /\ e.version = NewWord(3, name, value, <<"HTTP/1.1">>)
  BY <1>1, EditedParts
<1> HIDE DEF e
<1>3. e.method \in Plain /\ e.url \in Plain /\ e.version \in Plain
  BY <1>2 DEF Requests
<1>4. line \in Tokens /\ line # <<>> /\ line[Len(line)] # CR
  BY <1>3, LineEndsInWord DEF LineOf
<1>5. WordsEdited(line, <<"GET">>, <<"/">>, <<"HTTP/1.1">>, name, value)
  BY <1>2 DEF WordsEdited, LineOf
<1> HIDE DEF line
<1>6. AfterWords(<<>>, name, value) = [h |-> line, o |-> Len(line)]
  BY <1>2, <1>3, <1>5, NewLine
<1>7. AfterLine([h |-> line, o |-> Len(line)]) = [h |-> L \o Eol, o |-> Len(L)]
  BY <1>4, NewEnd
<1>8. HeaderOf(L, r.fields) = L \o Eol
  <2> DEFINE N == <<>>
  <2>1. TextsOf(N) = N
    BY DEF TextsOf
  <2>2. FlattenSeq(N) = N /\ N \o Eol = Eol
    <3>1. N \o Eol = Eol
      BY Controls, WithNothing
    <3> QED BY <3>1 DEF FlattenSeq
  <2>3. r.fields = N
    BY <1>1
  <2> HIDE DEF N
  <2> QED BY <2>1, <2>2, <2>3 DEF HeaderOf
<1>9. AfterLine(AfterWords(<<>>, name, value)) = [h |-> HeaderOf(L, r.fields), o |-> Len(L)]
  BY <1>6, <1>7, <1>8
<1> QED BY <1>1, <1>9, EditEnds DEF e, line, L, r

------------------------------------------------------------------------------
(* The command line. *)

Target == [host : STRING, port : Nat]

ConfTypes(c) ==
  /\ DOMAIN c = DOMAIN NewConf
  /\ c.concurrency \in Nat /\ c.count \in Nat /\ c.port \in Nat /\ c.more \in {0, 1}
  /\ c.i \in Nat \ {0}
  /\ c.read \in Seq(Args)
  /\ c.targets \in Seq(Target)
  /\ DOMAIN c.asked = DOMAIN FreshRequest

(* What the URLs say holds so far. *)
Server(c) ==
  /\ UrlsIn(c) = {} => c.server = None
  /\ UrlsIn(c) # {} =>
       LET url == UrlAt(c, UrlsIn(c)) IN url \in Url /\ url.host # <<>> /\ c.server = url.host

GivenPort(c) == c.port = IF PortsIn(c) = {} THEN 80 ELSE UrlAt(c, PortsIn(c)).port

PathAsked(c) ==
  LET path == UrlAt(c, UrlsIn(c)).path
  IN UrlsIn(c) # {} /\ (path = <<>> \/ Rooted(path)) /\ ~UrlEdited(c) => c.asked.url = c.path

TargetsGiven(c) == c.targets # <<>> => "targetip" \in c.options

UrlsHold(c) == Server(c) /\ GivenPort(c) /\ PathAsked(c) /\ TargetsGiven(c)

(* What an option leaves alone, and what it changes only if it is set. *)
Kept(c, d) ==
  /\ d.server = c.server /\ d.path = c.path /\ d.port = c.port /\ d.read = c.read /\ d.i = c.i
  /\ c.options \subseteq d.options
  /\ "targetip" \notin d.options => d.targets = c.targets
  /\ ~UrlEdited(d) => d.asked.url = c.asked.url
  /\ d.ended \in {"no", "exit"}

LEMMA NamesDiffer ==
  /\ ~Same(<<"url">>, <<"method">>)
  /\ ~Same(<<"Host">>, <<"method">>) /\ ~Same(<<"Host">>, <<"url">>) /\ ~Same(<<"Host">>, <<"version">>)
<1>1. "url" # "method" /\ "Host" # "method" /\ "Host" # "url" /\ "Host" # "version"
  OBVIOUS
<1> QED BY <1>1, LowerAssumption

LEMMA EditedUrl ==
  ASSUME NEW r, DOMAIN r = DOMAIN FreshRequest, NEW name, NEW value
  PROVE  /\ DOMAIN Edited(r, name, value) = DOMAIN FreshRequest
         /\ ~Same(name, <<"url">>) => Edited(r, name, value).url = r.url
<1> DEFINE at == SelectInSeq(r.fields, LAMBDA f : Same(f[1], name))
           new == <<name, value>>
           more == IF at = 0 THEN Append(r.fields, new) ELSE [r.fields EXCEPT ![at] = new]
           isUrl == Same(name, <<"url">>)
           isMethod == Same(name, <<"method">>)
           isVersion == Same(name, <<"version">>)
<1>1. Edited(r, name, value) =
        CASE isMethod    -> [r EXCEPT !.method = value]
          [] isUrl       -> [r EXCEPT !.url = value]
          [] isVersion   -> [r EXCEPT !.version = value]
          [] name = <<>> -> r
          [] OTHER -> [r EXCEPT !.fields = more]
  BY DEF Edited
<1>2. DOMAIN r = {"method", "url", "version", "fields"}
  BY DEF FreshRequest
<1>3. isUrl = Same(name, <<"url">>)
  OBVIOUS
<1> HIDE DEF more, isUrl, isMethod, isVersion
<1> QED BY <1>1, <1>2, <1>3

(* The request that is asked for after an edit. *)
LEMMA EditRequestKeeps ==
  ASSUME NEW c, ConfTypes(c), NEW name, NEW value, NEW eol
  PROVE  LET d == EditRequest(c, name, value, eol)
         IN /\ ConfTypes(d)
            /\ \A f \in DOMAIN NewConf \ {"request", "edited", "asked"} : d[f] = c[f]
            /\ ~Same(name, <<"url">>) => d.asked.url = c.asked.url
            /\ d.asked = Edited(c.asked, name, value)
<1> DEFINE d == EditRequest(c, name, value, eol)
           sent == Edit(c.request, name, value, eol)
           asked == Edited(c.asked, name, value)
<1>1. d = [c EXCEPT !.request = sent, !.edited = TRUE, !.asked = asked]
  BY DEF EditRequest
<1>2. DOMAIN asked = DOMAIN FreshRequest /\ (~Same(name, <<"url">>) => asked.url = c.asked.url)
  BY EditedUrl DEF ConfTypes
<1>3. DOMAIN c = DOMAIN NewConf
  BY DEF ConfTypes
<1>4. DOMAIN NewConf = {"concurrency", "count", "server", "path", "port", "request", "targets", "sources",
                        "shutdown", "i", "more", "ended", "edited", "asked", "read", "options"}
  BY DEF NewConf
<1> HIDE DEF sent, asked, d
<1>5. DOMAIN d = DOMAIN c /\ d.asked = asked
  BY <1>1, <1>3, <1>4
<1>6. \A f \in DOMAIN NewConf \ {"request", "edited", "asked"} : d[f] = c[f]
  BY <1>1, <1>3
<1>7. ConfTypes(d)
  BY <1>2, <1>4, <1>5, <1>6 DEF ConfTypes
<1> QED BY <1>2, <1>5, <1>6, <1>7 DEF d, asked

(* The addresses that are added have the port of the moment. *)
Adds(c, field, hosts) ==
  LET d == AddAddresses(c, field, hosts)
  IN /\ ConfTypes(d)
     /\ \A f \in DOMAIN NewConf \ {field, "more", "ended"} : d[f] = c[f]
     /\ \/ d.ended = "exit"
        \/ /\ d.ended = c.ended
           /\ d[field] = c[field] \o [j \in DOMAIN hosts |-> [host |-> hosts[j], port |-> c.port]]
           /\ hosts # None /\ (hosts # <<>> \/ c[field] # <<>>)

LEMMA AddAddressesKeeps ==
  ASSUME NEW c, ConfTypes(c), NEW field \in {"targets", "sources"}, NEW hosts \in {None} \cup Seq(STRING)
  PROVE  Adds(c, field, hosts)
<1> DEFINE d == AddAddresses(c, field, hosts)
           added == [j \in DOMAIN hosts |-> [host |-> hosts[j], port |-> c.port]]
           all == c[field] \o added
           bad == hosts = None \/ (hosts = <<>> /\ c[field] = <<>>)
<1>1. d = IF bad THEN [c EXCEPT !.ended = "exit"] ELSE [c EXCEPT !.more = 1, ![field] = all]
  BY DEF AddAddresses, Exit
<1>2. ~bad /\ field = "targets" => all \in Seq(Target)
  <2> SUFFICES ASSUME ~bad, field = "targets" PROVE all \in Seq(Target)
    OBVIOUS
  <2>1. hosts \in Seq(STRING) /\ c.port \in Nat /\ c.targets \in Seq(Target)
    BY DEF ConfTypes
  <2>2. \A j \in DOMAIN hosts : [host |-> hosts[j], port |-> c.port] \in Target
    BY <2>1 DEF Target
  <2>3. added \in Seq(Target)
    BY <2>1, <2>2
  <2> HIDE DEF added
  <2> QED BY <2>1, <2>3
<1>3. DOMAIN c = DOMAIN NewConf
  BY DEF ConfTypes
<1>4. DOMAIN NewConf = {"concurrency", "count", "server", "path", "port", "request", "targets", "sources",
                        "shutdown", "i", "more", "ended", "edited", "asked", "read", "options"}
  BY DEF NewConf
<1>5. ~bad => hosts # None /\ (hosts # <<>> \/ c[field] # <<>>)
  OBVIOUS
<1> HIDE DEF all, bad, d
<1>6. DOMAIN d = DOMAIN c /\ \A f \in DOMAIN NewConf \ {field, "more", "ended"} : d[f] = c[f]
  BY <1>1, <1>3, <1>4
<1>7. bad => d.ended = "exit" /\ d[field] = c[field] /\ d.more = c.more
  BY <1>1, <1>3, <1>4
<1>8. ~bad => d.ended = c.ended /\ d[field] = all /\ d.more = 1
  BY <1>1, <1>3, <1>4
<1>9. d.targets \in Seq(Target) /\ d.more \in {0, 1}
  <2>1. field # "targets" => d.targets = c.targets
    BY <1>4, <1>6
  <2> QED BY <1>2, <1>7, <1>8, <2>1 DEF ConfTypes
<1>10. ConfTypes(d)
  BY <1>4, <1>6, <1>9 DEF ConfTypes
<1>11. d.ended = "exit" \/ (d.ended = c.ended /\ d[field] = all)
  BY <1>7, <1>8
<1>12. d.ended = "exit" \/ (hosts # None /\ (hosts # <<>> \/ c[field] # <<>>))
  BY <1>5, <1>7
<1> QED BY <1>6, <1>10, <1>11, <1>12 DEF d, all, Adds

LEMMA ConfFields ==
  DOMAIN NewConf = {"concurrency", "count", "server", "path", "port", "request", "targets", "sources",
                    "shutdown", "i", "more", "ended", "edited", "asked", "read", "options"}
BY DEF NewConf

(* An option leaves the URLs and the arguments alone. *)
LEMMA SetOptionKeeps ==
  ASSUME NEW b, ConfTypes(b), b.ended = "no", NEW option, NEW value \in DOMAIN What, NEW eol
  PROVE  ConfTypes(SetOption(b, option, value, eol)) /\ Kept(b, SetOption(b, option, value, eol))
<1> DEFINE v == What[value]
           options == b.options \cup {option}
           c == [b EXCEPT !.options = options]
           d == SetOption(b, option, value, eol)
<1>1. v.number \in Nat /\ v.hosts \in {None} \cup Seq(STRING)
  BY ConfAssumption DEF Argument
<1>2. /\ DOMAIN c = DOMAIN NewConf /\ c.options = options
      /\ \A f \in DOMAIN NewConf \ {"options"} : c[f] = b[f]
  BY ConfFields DEF ConfTypes
<1>3. ConfTypes(c) /\ c.ended = "no"
  BY <1>2, ConfFields DEF ConfTypes
<1>4. Kept(b, c)
  BY <1>2, ConfFields DEF Kept, UrlEdited
<1>5. option \in c.options /\ b.options \subseteq c.options
  BY <1>2
<1>6. d = CASE option \in {"concurrency", "count"} -> SetCount(c, option, v.number)
            [] option = "targetip" -> AddAddresses(c, "targets", v.hosts)
            [] option = "sourceip" -> AddAddresses(c, "sources", v.hosts)
            [] option = "shutdown" -> [c EXCEPT !.shutdown = TRUE, !.more = 0]
            [] option \in DOMAIN Header ->
                 [EditRequest(c, Header[option], v.tokens, eol) EXCEPT !.more = 1]
            [] OTHER -> [c EXCEPT !.more = 0]
  BY DEF SetOption
<1> HIDE DEF c, d, v, options
<1>7. ASSUME option \in {"concurrency", "count"}, d = SetCount(c, option, v.number)
      PROVE  ConfTypes(d) /\ Kept(b, d)
  BY <1>1, <1>3, <1>4, <1>7, ConfFields DEF SetCount, Exit, ConfTypes, Kept, UrlEdited
<1>8. ASSUME option = "targetip", d = AddAddresses(c, "targets", v.hosts)
      PROVE  ConfTypes(d) /\ Kept(b, d)
  <2>1. /\ ConfTypes(d)
        /\ \A f \in DOMAIN NewConf \ {"targets", "more", "ended"} : d[f] = c[f]
        /\ d.ended \in {"exit", c.ended}
    <3>1. Adds(c, "targets", v.hosts)
      BY <1>1, <1>3, AddAddressesKeeps
    <3> QED BY <3>1, <1>8 DEF Adds
  <2> QED BY <2>1, <1>3, <1>4, <1>5, <1>8, ConfFields DEF Kept, UrlEdited
<1>9. ASSUME option = "sourceip", d = AddAddresses(c, "sources", v.hosts)
      PROVE  ConfTypes(d) /\ Kept(b, d)
  <2>1. /\ ConfTypes(d)
        /\ \A f \in DOMAIN NewConf \ {"sources", "more", "ended"} : d[f] = c[f]
        /\ d.ended \in {"exit", c.ended}
    <3>1. Adds(c, "sources", v.hosts)
      BY <1>1, <1>3, AddAddressesKeeps
    <3> QED BY <3>1, <1>9 DEF Adds
  <2> QED BY <2>1, <1>3, <1>4, <1>5, ConfFields DEF Kept, UrlEdited
<1>10. ASSUME d = [c EXCEPT !.shutdown = TRUE, !.more = 0] \/ d = [c EXCEPT !.more = 0]
       PROVE  ConfTypes(d) /\ Kept(b, d)
  <2>1. /\ DOMAIN d = DOMAIN NewConf /\ d.more = 0
        /\ \A f \in DOMAIN NewConf \ {"shutdown", "more"} : d[f] = c[f]
    BY <1>3, <1>10, ConfFields DEF ConfTypes
  <2>2. ConfTypes(d)
    BY <1>3, <2>1, ConfFields DEF ConfTypes
  <2>3. Kept(b, d)
    BY <1>3, <1>4, <2>1, ConfFields DEF Kept, UrlEdited
  <2> QED BY <2>2, <2>3
<1>11. ASSUME option \in DOMAIN Header,
              d = [EditRequest(c, Header[option], v.tokens, eol) EXCEPT !.more = 1]
       PROVE  ConfTypes(d) /\ Kept(b, d)
  <2> DEFINE e == EditRequest(c, Header[option], v.tokens, eol)
             isUrl == Same(Header[option], <<"url">>)
  <2>1. /\ ConfTypes(e)
        /\ \A f \in DOMAIN NewConf \ {"request", "edited", "asked"} : e[f] = c[f]
        /\ ~isUrl => e.asked.url = c.asked.url
    BY <1>3, EditRequestKeeps
  <2>2. isUrl => UrlEdited(c)
    BY <1>5, <1>11 DEF UrlEdited
  <2>3. d = [e EXCEPT !.more = 1]
    BY <1>11
  <2> HIDE DEF e, isUrl
  <2>4. /\ DOMAIN d = DOMAIN NewConf /\ d.more = 1
        /\ \A f \in DOMAIN NewConf \ {"more"} : d[f] = e[f]
    BY <2>1, <2>3, ConfFields DEF ConfTypes
  <2>5. ConfTypes(d)
    BY <2>1, <2>4, ConfFields DEF ConfTypes
  <2>6. UrlEdited(d) = UrlEdited(c)
    BY <2>1, <2>4, ConfFields DEF UrlEdited
  <2>7. Kept(b, d)
    BY <2>1, <2>2, <2>4, <2>6, <1>3, <1>4, ConfFields DEF Kept
  <2> QED BY <2>5, <2>7
<1>12. ConfTypes(d) /\ Kept(b, d)
  BY <1>6, <1>7, <1>8, <1>9, <1>10, <1>11
<1> QED BY <1>12 DEF d

LEMMA KeptOn ==
  ASSUME NEW b, NEW c, NEW d, Kept(b, c), Kept(c, d)
  PROVE  Kept(b, d)
BY DEF Kept, UrlEdited

(* The lines of a file, one after the other. *)
Line(d, l, eol) == IF d.ended = "no" THEN SetOption(d, l[1], l[2], eol) ELSE d

AreLines(f, c, lines, eol) ==
  f[0] = c /\ \A k \in 1..Len(lines) : f[k] = Line(f[k - 1], lines[k], eol)

LEMMA FileLines ==
  ASSUME NEW c, NEW S, NEW lines \in Seq(S), NEW eol
  PROVE  \E f : /\ AreLines(f, c, lines, eol)
                /\ ReadFile(c, lines, eol) = [f[Len(lines)] EXCEPT !.more = 1]
<1> DEFINE n == Len(lines)
           Turned(g, k) == IF k = 0 THEN c ELSE Line(g[k - 1], lines[k], eol)
           UpTo(g, m) == g = [k \in 0..m |-> Turned(g, k)]
           f == CHOOSE g : UpTo(g, n)
<1>1. n \in Nat
  OBVIOUS
<1>2. ReadFile(c, lines, eol) = [f[n] EXCEPT !.more = 1]
  BY DEF ReadFile, Line
<1> HIDE DEF n
<1>3. \E g : UpTo(g, n)
  <2> DEFINE R == {m \in Nat : \E g : UpTo(g, m)}
  <2>1. 0 \in R
    <3>1. UpTo([k \in 0..0 |-> c], 0)
      OBVIOUS
    <3> QED BY <3>1
  <2>2. ASSUME NEW m \in Nat, m \in R PROVE m + 1 \in R
    <3>1. PICK g : UpTo(g, m)
      BY <2>2
    <3> DEFINE e == [k \in 0..(m + 1) |-> IF k <= m THEN g[k] ELSE Turned(g, m + 1)]
    <3>2. \A k \in 0..(m + 1) : e[k] = Turned(e, k)
      <4> SUFFICES ASSUME NEW k \in 0..(m + 1) PROVE e[k] = Turned(e, k)
        OBVIOUS
      <4>1. k # 0 => k - 1 \in 0..m /\ e[k - 1] = g[k - 1]
        OBVIOUS
      <4>2. Turned(e, k) = Turned(g, k)
        <5> HIDE DEF e
        <5> QED BY <4>1
      <4>3. e[k] = Turned(g, k)
        <5>1. CASE k <= m
          <6>1. k \in 0..m /\ e[k] = g[k]
            BY <5>1
          <6> HIDE DEF e, Turned
          <6> QED BY <3>1, <6>1
        <5>2. CASE k = m + 1
          <6> HIDE DEF Turned
          <6> QED BY <5>2
        <5> HIDE DEF Turned, e
        <5> QED BY <5>1, <5>2
      <4> QED BY <4>2, <4>3
    <3>3. e = [k \in 0..(m + 1) |-> e[k]]
      OBVIOUS
    <3> HIDE DEF e, Turned
    <3>4. UpTo(e, m + 1)
      BY <3>2, <3>3
    <3> QED BY <3>4
  <2> HIDE DEF R
  <2>3. n \in R
    BY <1>1, <2>1, <2>2, NatSetInduction
  <2> QED BY <2>3 DEF R
<1>4. UpTo(f, n)
  <2> HIDE DEF UpTo
  <2> QED BY <1>3
<1> HIDE DEF f
<1>5. \A k \in 0..n : f[k] = Turned(f, k)
  <2> HIDE DEF Turned
  <2> QED BY <1>4
<1>6. AreLines(f, c, lines, eol)
  BY <1>1, <1>5 DEF AreLines, n
<1> QED BY <1>2, <1>6 DEF n

LEMMA ReadFileKeeps ==
  ASSUME NEW c, ConfTypes(c), c.ended = "no", NEW lines \in Seq(STRING \X DOMAIN What), NEW eol
  PROVE  ConfTypes(ReadFile(c, lines, eol)) /\ Kept(c, ReadFile(c, lines, eol))
<1>1. PICK f : /\ AreLines(f, c, lines, eol)
               /\ ReadFile(c, lines, eol) = [f[Len(lines)] EXCEPT !.more = 1]
  BY FileLines
<1> DEFINE n == Len(lines)
           R == {k \in Nat : k <= n => ConfTypes(f[k]) /\ Kept(c, f[k])}
<1>2. n \in Nat
  OBVIOUS
<1>3. 0 \in R
  BY <1>1 DEF AreLines, Kept
<1>4. ASSUME NEW k \in Nat, k \in R PROVE k + 1 \in R
  <2> SUFFICES ASSUME k + 1 <= n PROVE ConfTypes(f[k + 1]) /\ Kept(c, f[k + 1])
    BY <1>4
  <2> DEFINE b == f[k]
             l == lines[k + 1]
             d == f[k + 1]
  <2>1. ConfTypes(b) /\ Kept(c, b)
    BY <1>2, <1>4
  <2>2. k + 1 \in 1..Len(lines) /\ (k + 1) - 1 = k
    BY <1>2
  <2>3. d = Line(b, l, eol)
    BY <1>1, <2>2 DEF AreLines
  <2>4. l[2] \in DOMAIN What
    BY <2>2
  <2> HIDE DEF b, l, d
  <2>5. CASE b.ended = "no"
    <3>1. d = SetOption(b, l[1], l[2], eol)
      BY <2>3, <2>5 DEF Line
    <3>2. ConfTypes(d) /\ Kept(b, d)
      BY <2>1, <2>4, <2>5, <3>1, SetOptionKeeps
    <3>3. ConfTypes(d) /\ Kept(c, d)
      BY <2>1, <3>2, KeptOn
    <3> QED BY <3>3 DEF d
  <2>6. CASE b.ended # "no"
    <3>1. d = b
      BY <2>3, <2>6 DEF Line
    <3> QED BY <2>1, <3>1 DEF d
  <2> QED BY <2>5, <2>6
<1> HIDE DEF R
<1>5. n \in R
  BY <1>2, <1>3, <1>4, NatSetInduction
<1> DEFINE e == f[n]
           d == ReadFile(c, lines, eol)
<1>6. ConfTypes(e) /\ Kept(c, e) /\ d = [e EXCEPT !.more = 1]
  BY <1>1, <1>2, <1>5 DEF R
<1> HIDE DEF e, d
<1>7. ConfTypes(d) /\ Kept(e, d)
  BY <1>6, ConfFields DEF ConfTypes, Kept, UrlEdited
<1>8. ConfTypes(d) /\ Kept(c, d)
  BY <1>6, <1>7, KeptOn
<1> QED BY <1>8 DEF d

LEMMA MaxIsIn ==
  ASSUME NEW n \in Nat, NEW S, S \subseteq 1..n, S # {}
  PROVE  Max(S) \in S
<1> DEFINE R == {n - x : x \in S}
<1>1. R \subseteq Nat /\ R # {}
  <2>1. \A x \in S : x \in 1..n /\ n - x \in Nat
    OBVIOUS
  <2>2. PICK x \in S : n - x \in R
    OBVIOUS
  <2> QED BY <2>1, <2>2
<1>2. PICK m \in R : \A k \in R : m <= k
  <2> HIDE DEF R
  <2> QED BY <1>1, NatLeast
<1>3. PICK x \in S : m = n - x
  BY <1>2
<1>4. \A y \in S : n - x <= n - y
  BY <1>2, <1>3
<1>5. \A y \in S : x >= y
  BY <1>4
<1>6. \E y \in S : \A z \in S : y >= z
  BY <1>5
<1>7. (CHOOSE y \in S : \A z \in S : y >= z) \in S
  BY <1>6
<1> QED BY <1>7 DEF Max

LEMMA MaxIs ==
  ASSUME NEW n \in Nat, NEW S, S \subseteq 1..n
  PROVE  Max(S \cup {n + 1}) = n + 1
<1> DEFINE T == S \cup {n + 1}
<1>1. n + 1 \in T /\ \A z \in T : n + 1 >= z /\ z \in Int
  OBVIOUS
<1> HIDE DEF T
<1>2. \A y \in T : (\A z \in T : y >= z) => y = n + 1
  BY <1>1
<1>3. \E y \in T : \A z \in T : y >= z
  BY <1>1
<1>4. Max(T) = n + 1
  BY <1>2, <1>3 DEF Max
<1> QED BY <1>4 DEF T

(* One more argument is read. *)
ReadsMore(c, d, a, n, all, ports) ==
  /\ d.read \in Seq(Args)
  /\ n \in Nat /\ all \subseteq 1..n /\ ports \subseteq all
  /\ What[a].dashes # 0 => UrlsIn(d) = all /\ PortsIn(d) = ports
  /\ What[a].dashes = 0 =>
       /\ UrlsIn(d) = all \cup {n + 1}
       /\ PortsIn(d) = IF What[a].url.port = None THEN ports ELSE ports \cup {n + 1}
  /\ \A S \in SUBSET all : S # {} => UrlAt(d, S) = UrlAt(c, S)
  /\ \A S \in SUBSET all : UrlAt(d, S \cup {n + 1}) = What[a].url

LEMMA ReadMore ==
  ASSUME NEW c, NEW d, c.read \in Seq(Args), NEW a \in Args, d.read = Append(c.read, a)
  PROVE  ReadsMore(c, d, a, Len(c.read), UrlsIn(c), PortsIn(c))
<1> DEFINE n == Len(c.read)
           r == c.read
           s == d.read
           all == UrlsIn(c)
           ports == PortsIn(c)
<1>1. n \in Nat /\ r \in Seq(Args) /\ s = Append(r, a) /\ n = Len(r)
  OBVIOUS
<1>2. all = {j \in DOMAIN r : What[r[j]].dashes = 0} /\ ports = {j \in all : What[r[j]].url.port # None}
  BY DEF UrlsIn, PortsIn
<1>3. UrlsIn(d) = {j \in DOMAIN s : What[s[j]].dashes = 0} /\ PortsIn(d) = {j \in UrlsIn(d) : What[s[j]].url.port # None}
  BY DEF UrlsIn, PortsIn
<1>4. \A S : UrlAt(c, S) = What[r[Max(S)]].url /\ UrlAt(d, S) = What[s[Max(S)]].url
  BY DEF UrlAt
<1> HIDE DEF n, r, s, all, ports
<1>5. /\ s \in Seq(Args) /\ DOMAIN r = 1..n /\ DOMAIN s = 1..(n + 1)
      /\ \A j \in 1..n : s[j] = r[j]
      /\ s[n + 1] = a
  BY <1>1
<1>6. all \subseteq 1..n /\ ports \subseteq all /\ n + 1 \notin all
  BY <1>1, <1>2, <1>5
<1>7. What[a].dashes # 0 => UrlsIn(d) = all
  BY <1>1, <1>2, <1>3, <1>5
<1>8. What[a].dashes # 0 => PortsIn(d) = ports
  BY <1>1, <1>2, <1>3, <1>5, <1>6, <1>7
<1>9. What[a].dashes = 0 => UrlsIn(d) = all \cup {n + 1}
  BY <1>1, <1>2, <1>3, <1>5
<1>10. What[a].dashes = 0 => PortsIn(d) = IF What[a].url.port = None THEN ports ELSE ports \cup {n + 1}
  BY <1>1, <1>2, <1>3, <1>5, <1>6, <1>9
<1>11. ASSUME NEW S \in SUBSET all, S # {} PROVE UrlAt(d, S) = UrlAt(c, S)
  <2>1. Max(S) \in 1..n
    BY <1>1, <1>6, <1>11, MaxIsIn
  <2> QED BY <2>1, <1>4, <1>5
<1>12. ASSUME NEW S \in SUBSET all PROVE UrlAt(d, S \cup {n + 1}) = What[a].url
  <2>1. Max(S \cup {n + 1}) = n + 1
    BY <1>1, <1>6, MaxIs
  <2> QED BY <2>1, <1>4, <1>5
<1> QED BY <1>1, <1>5, <1>6, <1>7, <1>8, <1>9, <1>10, <1>11, <1>12 DEF n, r, s, all, ports, ReadsMore

(* A URL sets the server and the path, the port when it has one, and asks for *)
(* the path in the request.                                                   *)
LEMMA ParseUrlSets ==
  ASSUME NEW c, ConfTypes(c), NEW url \in {None} \cup Url, NEW eol,
         ParseUrl(c, url, eol).ended = "no"
  PROVE  LET d == ParseUrl(c, url, eol)
         IN /\ ConfTypes(d)
            /\ url \in Url /\ url.host # <<>> /\ d.server = url.host
            /\ d.port = IF url.port = None THEN c.port ELSE url.port
            /\ url.path = <<>> \/ Rooted(url.path) => d.asked.url = d.path
            /\ d.read = c.read /\ d.i = c.i /\ d.options = c.options /\ d.targets = c.targets
<1> DEFINE d == ParseUrl(c, url, eol)
           path == IF Rooted(url.path) THEN url.path ELSE <<"/">> \o url.path
           sent == IF url.path = <<>> THEN path ELSE SubSeq(path, 1, Len(url.path))
           port == PortOf(url, c.port)
           named == [c EXCEPT !.server = url.host, !.path = path, !.port = port]
           once == EditRequest(named, <<"url">>, sent, eol)
           twice == EditRequest(once, <<"Host">>, url.host, eol)
           bad == url = None \/ (url.scheme = "http" /\ url.host = <<>>)
<1>1. d = IF bad THEN [c EXCEPT !.ended = "bad"]
          ELSE IF url.scheme = "https" THEN Exit(c)
          ELSE twice
  BY DEF ParseUrl
<1>2. DOMAIN c = DOMAIN NewConf
  BY DEF ConfTypes
<1>3. ~bad /\ d = twice
  <2>1. d.ended = "no"
    OBVIOUS
  <2>2. [c EXCEPT !.ended = "bad"].ended = "bad" /\ Exit(c).ended = "exit"
    BY <1>2, ConfFields DEF Exit
  <2> HIDE DEF bad, d, twice
  <2> QED BY <1>1, <2>1, <2>2
<1>4. url \in Url /\ url.host # <<>>
  <2>1. url.scheme # "https"
    <3> SUFFICES ASSUME url.scheme = "https" PROVE FALSE
      OBVIOUS
    <3>1. d = [c EXCEPT !.ended = "exit"]
      <4> HIDE DEF d
      <4> QED BY <1>1, <1>3 DEF Exit
    <3>2. d.ended = "no"
      OBVIOUS
    <3> HIDE DEF d
    <3> QED BY <1>2, <3>1, <3>2, ConfFields
  <2> QED BY <1>3, <2>1 DEF Url
<1>5. port = (IF url.port = None THEN c.port ELSE url.port) /\ port \in Nat
  BY <1>4 DEF PortOf, Url, ConfTypes
<1>6. url.path = <<>> \/ Rooted(url.path) => sent = path
  <2>1. url.path \in Seq(STRING)
    BY <1>4 DEF Url
  <2>2. Rooted(url.path) => SubSeq(url.path, 1, Len(url.path)) = url.path
    BY <2>1
  <2> QED BY <2>2 DEF Rooted
<1>7. url.host = url.host
  OBVIOUS
<1> HIDE DEF port, path, sent
<1>8. /\ DOMAIN named = DOMAIN NewConf
      /\ named.server = url.host /\ named.path = path /\ named.port = port
      /\ \A f \in DOMAIN NewConf \ {"server", "path", "port"} : named[f] = c[f]
  BY <1>2, ConfFields
<1>9. ConfTypes(named)
  <2> HIDE DEF named
  <2> QED BY <1>5, <1>8, ConfFields DEF ConfTypes
<1> HIDE DEF named
<1>10. /\ ConfTypes(once)
       /\ \A f \in DOMAIN NewConf \ {"request", "edited", "asked"} : once[f] = named[f]
       /\ once.asked = Edited(named.asked, <<"url">>, sent)
  BY <1>9, EditRequestKeeps
<1>11. once.asked.url = sent
  <2> DEFINE r == named.asked
             s == once.asked
  <2>1. DOMAIN r = DOMAIN FreshRequest
    BY <1>9 DEF ConfTypes
  <2>2. s = Edited(r, <<"url">>, sent)
    BY <1>10
  <2> HIDE DEF r, s
  <2>3. s = [r EXCEPT !.url = sent]
    <3> DEFINE word == <<"url">>
               isUrl == Same(word, <<"url">>)
               isVersion == Same(word, <<"version">>)
               isMethod == Same(word, <<"method">>)
    <3>1. isUrl /\ ~isMethod /\ ~isVersion /\ word # <<>>
      <4>1. ~Same(<<"url">>, <<"version">>)
        <5>1. "url" # "version"
          OBVIOUS
        <5> QED BY <5>1, LowerAssumption
      <4>2. isUrl
        BY DEF Same
      <4> QED BY <4>1, <4>2, NamesDiffer
    <3>2. Edited(r, word, sent) =
            CASE isMethod  -> [r EXCEPT !.method = sent]
              [] isUrl     -> [r EXCEPT !.url = sent]
              [] isVersion -> [r EXCEPT !.version = sent]
              [] word = <<>> -> r
              [] OTHER -> [r EXCEPT !.fields =
                   IF SelectInSeq(r.fields, LAMBDA f : Same(f[1], word)) = 0
                   THEN Append(@, <<word, sent>>)
                   ELSE [@ EXCEPT ![SelectInSeq(r.fields, LAMBDA f : Same(f[1], word))] = <<word, sent>>]]
      BY DEF Edited
    <3> HIDE DEF isUrl, isVersion, isMethod
    <3>3. Edited(r, word, sent) = [r EXCEPT !.url = sent]
      BY <3>1, <3>2
    <3> QED BY <2>2, <3>3
  <2>4. s.url = sent
    BY <2>1, <2>3 DEF FreshRequest
  <2> QED BY <2>4 DEF s
<1> HIDE DEF once
<1>12. /\ ConfTypes(twice)
       /\ \A f \in DOMAIN NewConf \ {"request", "edited", "asked"} : twice[f] = once[f]
       /\ twice.asked.url = once.asked.url
  BY <1>10, NamesDiffer, EditRequestKeeps
<1> HIDE DEF twice, bad, d
<1>13. \A f \in {"server", "path", "port", "read", "i", "options", "targets"} : d[f] = named[f]
  BY <1>3, <1>10, <1>12, ConfFields
<1>14. \A f \in {"read", "i", "options", "targets"} : d[f] = c[f]
  BY <1>8, <1>13, ConfFields
<1>15. d.server = url.host /\ d.path = path /\ d.port = port
  BY <1>8, <1>13
<1>16. d.asked.url = sent /\ ConfTypes(d)
  BY <1>3, <1>11, <1>12
<1> QED BY <1>4, <1>5, <1>6, <1>14, <1>15, <1>16 DEF d

Skip(d, a, n) == [d EXCEPT !.i = @ + 1 + n, !.read = Append(@, a)]

LEMMA SkipFields ==
  ASSUME NEW e, ConfTypes(e), NEW a \in Args, NEW n \in {0, 1}
  PROVE  LET d == Skip(e, a, n)
         IN /\ ConfTypes(d)
            /\ d.read = Append(e.read, a)
            /\ \A f \in DOMAIN NewConf \ {"i", "read"} : d[f] = e[f]
<1> DEFINE d == Skip(e, a, n)
           read == Append(e.read, a)
           i == e.i + 1 + n
<1>1. d = [e EXCEPT !.i = i, !.read = read]
  BY DEF Skip
<1>2. read \in Seq(Args) /\ i \in Nat \ {0}
  BY DEF ConfTypes
<1> HIDE DEF d, i, read
<1>3. /\ DOMAIN d = DOMAIN NewConf /\ d.i = i /\ d.read = read
      /\ \A f \in DOMAIN NewConf \ {"i", "read"} : d[f] = e[f]
  BY <1>1, ConfFields DEF ConfTypes
<1>4. ConfTypes(d)
  BY <1>2, <1>3, ConfFields DEF ConfTypes
<1> QED BY <1>3, <1>4 DEF d, read

(* An argument that is an option. *)
LEMMA OptionRead ==
  ASSUME NEW c, ConfTypes(c), UrlsHold(c), NEW e, ConfTypes(e), Kept(c, e),
         NEW a \in Args, What[a].dashes # 0, NEW n \in {0, 1}
  PROVE  /\ ConfTypes(Skip(e, a, n)) /\ UrlsHold(Skip(e, a, n))
         /\ Skip(e, a, n).ended \in {"no", "exit"}
<1> DEFINE d == Skip(e, a, n)
           all == UrlsIn(c)
           ports == PortsIn(c)
<1>1. /\ ConfTypes(d)
      /\ d.read = Append(e.read, a)
      /\ \A f \in DOMAIN NewConf \ {"i", "read"} : d[f] = e[f]
  BY SkipFields
<1>2. d.read = Append(c.read, a) /\ c.read \in Seq(Args)
  BY <1>1 DEF Kept, ConfTypes
<1> HIDE DEF d
<1>3. /\ UrlsIn(d) = all /\ PortsIn(d) = ports /\ ports \subseteq all
      /\ \A S \in SUBSET all : S # {} => UrlAt(d, S) = UrlAt(c, S)
  <2>1. ReadsMore(c, d, a, Len(c.read), all, ports)
    BY <1>2, ReadMore
  <2> HIDE DEF all, ports
  <2> QED BY <2>1 DEF ReadsMore
<1> HIDE DEF all, ports
<1>4. /\ d.server = c.server /\ d.path = c.path /\ d.port = c.port
      /\ c.options \subseteq d.options
      /\ "targetip" \notin d.options => d.targets = c.targets
      /\ ~UrlEdited(d) => d.asked.url = c.asked.url
      /\ d.ended \in {"no", "exit"}
  BY <1>1, ConfFields DEF Kept, UrlEdited
<1>5. ~UrlEdited(d) => ~UrlEdited(c)
  BY <1>4 DEF UrlEdited
<1>6. Server(c) /\ GivenPort(c) /\ PathAsked(c) /\ TargetsGiven(c)
  BY DEF UrlsHold
<1>7. Server(d)
  BY <1>3, <1>4, <1>6 DEF Server, all
<1>8. GivenPort(d)
  BY <1>3, <1>4, <1>6 DEF GivenPort, ports, all
<1>9. PathAsked(d)
  BY <1>3, <1>4, <1>5, <1>6 DEF PathAsked, all
<1>10. TargetsGiven(d)
  BY <1>4, <1>6 DEF TargetsGiven
<1> QED BY <1>1, <1>4, <1>7, <1>8, <1>9, <1>10 DEF UrlsHold, d

(* An argument that is a URL. *)
LEMMA UrlRead ==
  ASSUME NEW c, ConfTypes(c), UrlsHold(c), NEW a \in Args, What[a].dashes = 0, NEW eol,
         ParseUrl(c, What[a].url, eol).ended = "no"
  PROVE  LET d == Skip(ParseUrl(c, What[a].url, eol), a, 0)
         IN ConfTypes(d) /\ UrlsHold(d) /\ d.ended = "no"
<1> DEFINE url == What[a].url
           e == ParseUrl(c, url, eol)
           d == Skip(e, a, 0)
           all == UrlsIn(c)
           ports == PortsIn(c)
           n == Len(c.read)
<1>1. url \in {None} \cup Url
  BY ConfAssumption DEF Argument
<1>2. /\ ConfTypes(e) /\ e.ended = "no"
      /\ url \in Url /\ url.host # <<>> /\ e.server = url.host
      /\ e.port = IF url.port = None THEN c.port ELSE url.port
      /\ url.path = <<>> \/ Rooted(url.path) => e.asked.url = e.path
      /\ e.read = c.read /\ e.i = c.i /\ e.options = c.options /\ e.targets = c.targets
  BY <1>1, ParseUrlSets
<1> HIDE DEF e
<1>3. /\ ConfTypes(d)
      /\ d.read = Append(c.read, a)
      /\ \A f \in DOMAIN NewConf \ {"i", "read"} : d[f] = e[f]
  BY <1>2, SkipFields
<1>4. c.read \in Seq(Args)
  BY DEF ConfTypes
<1> HIDE DEF d
<1>5. /\ ports \subseteq all /\ n + 1 \in Nat
      /\ UrlsIn(d) = all \cup {n + 1}
      /\ PortsIn(d) = IF url.port = None THEN ports ELSE ports \cup {n + 1}
      /\ \A S \in SUBSET all : S # {} => UrlAt(d, S) = UrlAt(c, S)
      /\ \A S \in SUBSET all : UrlAt(d, S \cup {n + 1}) = url
  <2>1. ReadsMore(c, d, a, n, all, ports)
    BY <1>3, <1>4, ReadMore
  <2> HIDE DEF all, ports, n
  <2>2. n \in Nat /\ ports \subseteq all
    BY <2>1 DEF ReadsMore
  <2>3. UrlsIn(d) = all \cup {n + 1}
    BY <2>1 DEF ReadsMore
  <2>4. PortsIn(d) = IF url.port = None THEN ports ELSE ports \cup {n + 1}
    BY <2>1 DEF ReadsMore
  <2>5. \A S \in SUBSET all : S # {} => UrlAt(d, S) = UrlAt(c, S)
    BY <2>1, Zenon DEF ReadsMore
  <2>6. \A S \in SUBSET all : UrlAt(d, S \cup {n + 1}) = url
    BY <2>1, Zenon DEF ReadsMore
  <2>7. n + 1 \in Nat
    BY <2>2
  <2> QED BY <2>2, <2>3, <2>4, <2>5, <2>6, <2>7, Zenon
<1> HIDE DEF all, ports, n, url
<1>6. /\ d.server = url.host /\ d.path = e.path /\ d.options = c.options /\ d.targets = c.targets
      /\ d.port = IF url.port = None THEN c.port ELSE url.port
      /\ url.path = <<>> \/ Rooted(url.path) => d.asked.url = d.path
      /\ d.ended = "no"
  BY <1>2, <1>3, ConfFields
<1>7. GivenPort(c) /\ TargetsGiven(c)
  BY DEF UrlsHold
<1>8. UrlAt(d, UrlsIn(d)) = url /\ UrlsIn(d) # {}
  BY <1>5
<1>9. Server(d)
  BY <1>2, <1>6, <1>8 DEF Server
<1>10. GivenPort(d)
  <2>1. CASE url.port = None
    <3>1. PortsIn(d) = ports /\ d.port = c.port /\ (ports # {} => UrlAt(d, ports) = UrlAt(c, ports))
      BY <1>5, <1>6, <2>1
    <3> QED BY <3>1, <1>7 DEF GivenPort, ports
  <2>2. CASE url.port # None
    <3>1. PortsIn(d) # {} /\ UrlAt(d, PortsIn(d)) = url /\ d.port = url.port
      BY <1>5, <1>6, <2>2
    <3> QED BY <3>1 DEF GivenPort
  <2> QED BY <2>1, <2>2
<1>11. PathAsked(d)
  BY <1>6, <1>8 DEF PathAsked
<1>12. TargetsGiven(d)
  BY <1>6, <1>7 DEF TargetsGiven
<1> QED BY <1>3, <1>6, <1>9, <1>10, <1>11, <1>12 DEF UrlsHold, d, e, url

(* As long as the arguments are read, what the URLs say holds. *)
ConfHolds(c) == c.ended # "no" \/ (ConfTypes(c) /\ UrlsHold(c))

LEMMA TurnHolds ==
  ASSUME args \in Seq(Args), NEW c, c.ended = "no", ConfHolds(c), c.i <= Len(args), NEW eol
  PROVE  ConfHolds(Turn(c, eol)) /\ Turn(c, eol).ended # "done"
<1> DEFINE a == args[c.i]
           w == What[a]
           next == IF c.i < Len(args) THEN args[c.i + 1] ELSE ""
           t == Turn(c, eol)
           e == ParseUrl(c, w.url, eol)
           p == SetParm(c, w.option, next, eol)
           g == SetOption(c, w.option, w.glued, eol)
           o == SetOption(c, w.option, next, eol)
           flag == w.dashes = 1 /\ w.option \notin {"concurrency", "count"}
           counts == w.option \in {"concurrency", "count"}
           glued == w.dashes = 1 /\ counts /\ w.glued # None
           none == next = "" \/ What[next].dashes > 0
<1>1. ConfTypes(c) /\ UrlsHold(c) /\ Kept(c, c)
  BY DEF ConfHolds, Kept
<1>2. a \in Args /\ next \in DOMAIN What
  <2>1. c.i \in 1..Len(args)
    BY <1>1 DEF ConfTypes
  <2>2. c.i < Len(args) => c.i + 1 \in 1..Len(args)
    BY <2>1
  <2>3. a \in Args
    BY <2>1
  <2>4. next \in Args \cup {""}
    <3>1. CASE c.i < Len(args)
      <4>1. args[c.i + 1] \in Args
        BY <2>2, <3>1
      <4> QED BY <3>1, <4>1
    <3>2. CASE ~(c.i < Len(args))
      BY <3>2
    <3> QED BY <3>1, <3>2
  <2> HIDE DEF a, next
  <2> QED BY <2>3, <2>4, ConfAssumption
<1>3. w \in Argument
  BY <1>2, ConfAssumption
<1>4. t = CASE w.dashes = 0 -> Skip(e, a, 0)
            [] w.dashes = 2 -> Skip(p, a, p.more)
            [] flag -> Skip(c, a, 0)
            [] glued -> Skip(g, a, 0)
            [] OTHER -> IF none THEN Exit(c) ELSE Skip(o, a, 1)
  BY DEF Turn, Skip
<1> HIDE DEF a, next, t, e, p, g, o
<1>5. ASSUME w.dashes = 0, t = Skip(e, a, 0) PROVE ConfHolds(t) /\ t.ended # "done"
  <2>1. CASE e.ended = "no"
    <3>1. ConfTypes(t) /\ UrlsHold(t) /\ t.ended = "no"
      BY <1>1, <1>2, <1>5, <2>1, UrlRead DEF e
    <3> QED BY <3>1 DEF ConfHolds
  <2>2. CASE e.ended # "no"
    <3>1. DOMAIN c = DOMAIN NewConf
      BY <1>1 DEF ConfTypes
    <3> DEFINE bad == w.url = None \/ (w.url.scheme = "http" /\ w.url.host = <<>>)
    <3>2. ~bad /\ w.url.scheme # "https" => e.ended = "no"
      <4> DEFINE path == IF Rooted(w.url.path) THEN w.url.path ELSE <<"/">> \o w.url.path
                 sent == IF w.url.path = <<>> THEN path ELSE SubSeq(path, 1, Len(w.url.path))
                 port == PortOf(w.url, c.port)
                 named == [c EXCEPT !.server = w.url.host, !.path = path, !.port = port]
                 once == EditRequest(named, <<"url">>, sent, eol)
                 twice == EditRequest(once, <<"Host">>, w.url.host, eol)
      <4> SUFFICES ASSUME ~bad, w.url.scheme # "https" PROVE e.ended = "no"
        OBVIOUS
      <4>1. e = twice
        BY DEF e, ParseUrl
      <4>2. port \in Nat
        BY <1>1, <1>3 DEF PortOf, Argument, Url, ConfTypes
      <4> HIDE DEF port, path, sent
      <4>3. ConfTypes(named) /\ named.ended = "no"
        BY <1>1, <4>2, ConfFields DEF ConfTypes
      <4> HIDE DEF named
      <4>4. ConfTypes(once) /\ once.ended = "no"
        BY <4>3, EditRequestKeeps, ConfFields
      <4> HIDE DEF once
      <4>5. twice.ended = "no"
        BY <4>4, EditRequestKeeps, ConfFields
      <4> QED BY <4>1, <4>5
    <3>3. bad => e = [c EXCEPT !.ended = "bad"]
      BY DEF e, ParseUrl
    <3>4. ~bad /\ w.url.scheme = "https" => e = [c EXCEPT !.ended = "exit"]
      BY DEF e, ParseUrl, Exit
    <3> HIDE DEF bad
    <3>5. DOMAIN e = DOMAIN NewConf /\ e.ended \in {"bad", "exit"}
      BY <2>2, <3>1, <3>2, <3>3, <3>4, ConfFields
    <3>6. t.ended = e.ended
      BY <1>5, <3>5, ConfFields DEF Skip
    <3> QED BY <3>5, <3>6 DEF ConfHolds
  <2> QED BY <2>1, <2>2
<1>6. ASSUME w.dashes = 2, t = Skip(p, a, p.more) PROVE ConfHolds(t) /\ t.ended # "done"
  <2>1. ConfTypes(p) /\ Kept(c, p)
    <3>1. CASE w.option = "conf"
      <4>1. What[next].lines \in Seq(STRING \X DOMAIN What)
        BY <1>2, ConfAssumption DEF Argument
      <4> QED BY <1>1, <3>1, <4>1, ReadFileKeeps DEF p, SetParm
    <3>2. CASE w.option # "conf"
      BY <1>1, <1>2, <3>2, SetOptionKeeps DEF p, SetParm
    <3> QED BY <3>1, <3>2
  <2>2. p.more \in {0, 1}
    BY <2>1 DEF ConfTypes
  <2>3. ConfTypes(t) /\ UrlsHold(t) /\ t.ended \in {"no", "exit"}
    BY <1>1, <1>2, <1>6, <2>1, <2>2, OptionRead
  <2> QED BY <2>3 DEF ConfHolds
<1>7. ASSUME w.dashes = 1, t = Skip(c, a, 0) PROVE ConfHolds(t) /\ t.ended # "done"
  <2>1. ConfTypes(t) /\ UrlsHold(t) /\ t.ended \in {"no", "exit"}
    BY <1>1, <1>2, <1>7, OptionRead
  <2> QED BY <2>1 DEF ConfHolds
<1>8. ASSUME w.dashes = 1, w.glued # None, t = Skip(g, a, 0) PROVE ConfHolds(t) /\ t.ended # "done"
  <2>1. ConfTypes(g) /\ Kept(c, g)
    BY <1>1, <1>3, <1>8, SetOptionKeeps DEF g, Argument
  <2>2. ConfTypes(t) /\ UrlsHold(t) /\ t.ended \in {"no", "exit"}
    BY <1>1, <1>2, <1>8, <2>1, OptionRead
  <2> QED BY <2>2 DEF ConfHolds
<1>9. ASSUME w.dashes # 0, t = Skip(o, a, 1) PROVE ConfHolds(t) /\ t.ended # "done"
  <2>1. ConfTypes(o) /\ Kept(c, o)
    BY <1>1, <1>2, SetOptionKeeps DEF o
  <2>2. ConfTypes(t) /\ UrlsHold(t) /\ t.ended \in {"no", "exit"}
    BY <1>1, <1>2, <1>9, <2>1, OptionRead
  <2> QED BY <2>2 DEF ConfHolds
<1>10. ASSUME t = Exit(c) PROVE ConfHolds(t) /\ t.ended # "done"
  <2>1. t.ended = "exit"
    BY <1>1, <1>10, ConfFields DEF Exit, ConfTypes
  <2> QED BY <2>1 DEF ConfHolds
<1>11. ConfHolds(t) /\ t.ended # "done"
  <2>1. w.dashes \in 0..2
    BY <1>3 DEF Argument
  <2> HIDE DEF w
  <2>2. CASE w.dashes = 0
    BY <1>4, <1>5, <2>2
  <2>3. CASE w.dashes = 2
    BY <1>4, <1>6, <2>3
  <2>4. CASE w.dashes = 1
    <3> HIDE DEF flag, glued, none
    <3>1. \/ t = Skip(c, a, 0)
          \/ glued /\ t = Skip(g, a, 0)
          \/ t = Exit(c)
          \/ t = Skip(o, a, 1)
      BY <1>4, <2>4
    <3> QED BY <1>7, <1>8, <1>9, <1>10, <2>4, <3>1 DEF glued
  <2> QED BY <2>1, <2>2, <2>3, <2>4
<1> QED BY <1>11 DEF t

(* What follows the loop. *)
Asks(d) ==
  LET url == UrlAt(d, UrlsIn(d))
      given == UrlAt(d, PortsIn(d)).port
      targets == {d.targets[j].port : j \in DOMAIN d.targets}
  IN /\ d.server = url.host
     /\ d.port = IF PortsIn(d) = {} THEN 80 ELSE IF given = 0 THEN 80 ELSE given
     /\ d.concurrency >= 1 /\ d.count > 1 /\ targets # {}
     /\ "targetip" \notin d.options => targets = {d.port}
     /\ (url.path = <<>> \/ Rooted(url.path)) /\ ~UrlEdited(d) => d.asked.url = d.path

LEMMA FinishAsks ==
  ASSUME NEW c, c.ended = "no", ConfHolds(c), Finish(c).ended = "done"
  PROVE  Asks(Finish(c))
<1> DEFINE d == Finish(c)
           concurrency == IF c.concurrency = 0 THEN 1 ELSE c.concurrency
           count == IF c.count <= 1 THEN 1000 ELSE c.count
           port == IF c.port = 0 THEN 80 ELSE c.port
           full == [c EXCEPT !.concurrency = concurrency, !.count = count, !.port = port]
           hosts == What[full.server[1]].hosts
           looked == AddAddresses(full, "targets", hosts)
           both == [looked EXCEPT !.ended = IF looked.ended = "exit" THEN "bad" ELSE "done"]
           ports(e) == {e.targets[j].port : j \in DOMAIN e.targets}
<1>1. ConfTypes(c) /\ UrlsHold(c)
  BY DEF ConfHolds
<1>2. d = IF c.server = None THEN [c EXCEPT !.ended = "exit"]
          ELSE IF c.targets # <<>> THEN [full EXCEPT !.ended = "done"]
          ELSE both
  BY DEF Finish, Exit
<1>3. /\ concurrency \in Nat /\ concurrency >= 1 /\ count \in Nat /\ count > 1
      /\ port \in Nat /\ port # 0
  BY <1>1 DEF ConfTypes
<1>4. port = IF c.port = 0 THEN 80 ELSE c.port
  OBVIOUS
<1> HIDE DEF concurrency, count, port
<1>5. /\ DOMAIN full = DOMAIN NewConf
      /\ full.concurrency = concurrency /\ full.count = count /\ full.port = port
      /\ \A f \in DOMAIN NewConf \ {"concurrency", "count", "port"} : full[f] = c[f]
  BY <1>1, ConfFields DEF ConfTypes
<1>6. ConfTypes(full)
  <2> HIDE DEF full
  <2> QED BY <1>1, <1>3, <1>5, ConfFields DEF ConfTypes
<1> HIDE DEF full
<1>7. c.server # None
  <2>1. DOMAIN c = DOMAIN NewConf
    BY <1>1 DEF ConfTypes
  <2>2. [c EXCEPT !.ended = "exit"].ended = "exit"
    BY <2>1, ConfFields
  <2>3. d.ended = "done"
    OBVIOUS
  <2> HIDE DEF d
  <2> QED BY <1>2, <2>2, <2>3
<1>8. UrlsIn(c) # {} /\ c.server = UrlAt(c, UrlsIn(c)).host
  BY <1>1, <1>7 DEF UrlsHold, Server
(* All but the addresses. *)
<1>9. ASSUME NEW e, \A f \in DOMAIN NewConf \ {"targets", "more", "ended"} : e[f] = full[f]
      PROVE  LET url == UrlAt(e, UrlsIn(e))
                 given == UrlAt(e, PortsIn(e)).port
             IN /\ e.server = url.host
                /\ e.port = IF PortsIn(e) = {} THEN 80 ELSE IF given = 0 THEN 80 ELSE given
                /\ e.concurrency >= 1 /\ e.count > 1
                /\ (url.path = <<>> \/ Rooted(url.path)) /\ ~UrlEdited(e) => e.asked.url = e.path
                /\ e.options = c.options /\ e.port = port
  <2>1. /\ e.server = c.server /\ e.path = c.path /\ e.read = c.read /\ e.options = c.options
        /\ e.asked = c.asked /\ e.concurrency = concurrency /\ e.count = count /\ e.port = port
    BY <1>5, <1>9, ConfFields
  <2>2. /\ UrlsIn(e) = UrlsIn(c) /\ PortsIn(e) = PortsIn(c) /\ UrlEdited(e) = UrlEdited(c)
        /\ UrlAt(e, UrlsIn(c)) = UrlAt(c, UrlsIn(c)) /\ UrlAt(e, PortsIn(c)) = UrlAt(c, PortsIn(c))
    BY <2>1 DEF UrlsIn, PortsIn, UrlEdited, UrlAt
  <2>3. GivenPort(c) /\ PathAsked(c)
    BY <1>1 DEF UrlsHold
  <2>4. e.port = IF PortsIn(e) = {} THEN 80
                 ELSE IF UrlAt(e, PortsIn(e)).port = 0 THEN 80 ELSE UrlAt(e, PortsIn(e)).port
    BY <1>4, <2>1, <2>2, <2>3 DEF GivenPort
  <2> QED BY <1>3, <1>8, <2>1, <2>2, <2>3, <2>4 DEF PathAsked
<1>10. ASSUME c.targets # <<>>
       PROVE  /\ \A f \in DOMAIN NewConf \ {"targets", "more", "ended"} : d[f] = full[f]
              /\ ports(d) # {}
              /\ "targetip" \in c.options
  <2>1. d = [full EXCEPT !.ended = "done"]
    BY <1>2, <1>7, <1>10
  <2> HIDE DEF d
  <2>2. d.targets = c.targets
    BY <1>5, <2>1, ConfFields
  <2>3. 1 \in DOMAIN d.targets
    BY <1>1, <1>10, <2>2 DEF ConfTypes
  <2>4. "targetip" \in c.options
    BY <1>1, <1>10 DEF UrlsHold, TargetsGiven
  <2>5. ports(d) # {}
    BY <2>3
  <2> QED BY <1>5, <2>1, <2>4, <2>5
<1>11. ASSUME c.targets = <<>>
       PROVE  /\ \A f \in DOMAIN NewConf \ {"targets", "more", "ended"} : d[f] = full[f]
              /\ ports(d) = {port}
  <2>1. d = both
    BY <1>2, <1>7, <1>11
  <2>2. hosts \in {None} \cup Seq(STRING)
    <3> DEFINE u == UrlAt(c, UrlsIn(c))
               h == u.host
    <3>1. u \in Url /\ h # <<>> /\ c.server = h
      BY <1>1, <1>8 DEF UrlsHold, Server
    <3>2. h \in Seq(DOMAIN What)
      BY <3>1 DEF Url
    <3> HIDE DEF h
    <3>3. h[1] \in DOMAIN What
      BY <3>1, <3>2
    <3>4. full.server = h
      BY <1>5, <3>1, ConfFields
    <3> QED BY <3>3, <3>4, ConfAssumption DEF Argument
  <2>3. /\ ConfTypes(looked)
        /\ \A f \in DOMAIN NewConf \ {"targets", "more", "ended"} : looked[f] = full[f]
        /\ \/ looked.ended = "exit"
           \/ /\ looked.targets = full.targets \o [j \in DOMAIN hosts |-> [host |-> hosts[j], port |-> full.port]]
              /\ hosts # None /\ (hosts # <<>> \/ full.targets # <<>>)
    <3> HIDE DEF hosts
    <3>1. Adds(full, "targets", hosts)
      BY <1>6, <2>2, AddAddressesKeeps
    <3> QED BY <3>1, Zenon DEF Adds
  <2>4. d.ended = "done"
    OBVIOUS
  <2> DEFINE ended == IF looked.ended = "exit" THEN "bad" ELSE "done"
             added == [j \in DOMAIN hosts |-> [host |-> hosts[j], port |-> port]]
  <2>5. d = [looked EXCEPT !.ended = ended]
    BY <2>1
  <2>6. full.targets = <<>> /\ full.port = port
    BY <1>5, <1>11, ConfFields
  <2> HIDE DEF d, hosts, looked, ended
  <2>7. \A f \in DOMAIN NewConf \ {"targets", "more", "ended"} : d[f] = full[f]
    BY <2>3, <2>5, ConfFields DEF ConfTypes
  <2>8. d.ended = ended /\ d.targets = looked.targets
    BY <2>3, <2>5, ConfFields DEF ConfTypes
  <2>9. looked.ended # "exit"
    BY <2>4, <2>8 DEF ended
  <2>10. hosts \in Seq(STRING) /\ hosts # <<>> /\ d.targets = <<>> \o added
    BY <2>2, <2>3, <2>6, <2>8, <2>9
  <2>11. ports(d) = {port}
    <3>1. added \in Seq(Target)
      <4>1. \A j \in DOMAIN hosts : [host |-> hosts[j], port |-> port] \in Target
        BY <1>3, <2>10 DEF Target
      <4> QED BY <2>10, <4>1
    <3>2. DOMAIN added = DOMAIN hosts /\ 1 \in DOMAIN hosts /\ \A j \in DOMAIN hosts : added[j].port = port
      BY <2>10
    <3> HIDE DEF added
    <3>3. d.targets = added
      BY <2>10, <3>1
    <3> QED BY <3>2, <3>3
  <2> QED BY <2>7, <2>11
<1> HIDE DEF d, ports
<1>12. \A f \in DOMAIN NewConf \ {"targets", "more", "ended"} : d[f] = full[f]
  BY <1>10, <1>11
<1>13. /\ d.server = UrlAt(d, UrlsIn(d)).host
       /\ d.port = IF PortsIn(d) = {} THEN 80
                   ELSE IF UrlAt(d, PortsIn(d)).port = 0 THEN 80 ELSE UrlAt(d, PortsIn(d)).port
       /\ d.concurrency >= 1 /\ d.count > 1
       /\ (UrlAt(d, UrlsIn(d)).path = <<>> \/ Rooted(UrlAt(d, UrlsIn(d)).path)) /\ ~UrlEdited(d)
            => d.asked.url = d.path
       /\ d.options = c.options /\ d.port = port
  BY <1>9, <1>12
<1>14. ports(d) # {} /\ ("targetip" \notin d.options => ports(d) = {d.port})
  BY <1>10, <1>11, <1>13
<1> QED BY <1>13, <1>14 DEF d, ports, Asks

(* What holds while the arguments are read, and after. *)
ConfInv == args \in Seq(Args) /\ ConfHolds(conf) /\ AsAsked

LEMMA ConfInitially == ConfInit => ConfInv
<1> SUFFICES ASSUME ConfInit PROVE ConfInv
  OBVIOUS
<1>1. args \in Seq(Args)
  BY DEF ConfInit
<1>2. conf = NewConf
  BY DEF ConfInit
<1>3. conf.ended = "no" /\ conf.read = <<>> /\ conf.server = None /\ conf.port = 80 /\ conf.targets = <<>>
  BY <1>2 DEF NewConf
<1>4. ConfTypes(conf)
  BY <1>2 DEF ConfTypes, NewConf
<1>5. UrlsIn(conf) = {} /\ PortsIn(conf) = {}
  BY <1>3 DEF UrlsIn, PortsIn
<1>6. UrlsHold(conf)
  BY <1>3, <1>5 DEF UrlsHold, Server, GivenPort, PathAsked, TargetsGiven
<1> QED BY <1>1, <1>3, <1>4, <1>6 DEF ConfInv, ConfHolds, AsAsked

LEMMA ConfSteps == ConfInv /\ [ConfNext]_confVars => ConfInv'
<1> SUFFICES ASSUME ConfInv, [ConfNext]_confVars PROVE ConfInv'
  OBVIOUS
<1>1. CASE UNCHANGED confVars
  BY <1>1 DEF ConfInv, ConfHolds, ConfTypes, UrlsHold, Server, GivenPort, PathAsked, TargetsGiven, AsAsked, confVars
<1>2. CASE Read
  <2>1. PICK eol \in Misreads : conf' = IF conf.i <= Len(args) THEN Turn(conf, eol) ELSE Finish(conf)
    BY <1>2 DEF Read
  <2>2. args' = args /\ conf.ended = "no" /\ ConfHolds(conf) /\ args \in Seq(Args)
    BY <1>2 DEF Read, ConfInv
  <2>3. CASE conf.i <= Len(args)
    <3>1. ConfHolds(Turn(conf, eol)) /\ Turn(conf, eol).ended # "done"
      BY <2>2, <2>3, TurnHolds
    <3>2. conf' = Turn(conf, eol)
      BY <2>1, <2>3
    <3>3. ConfHolds(conf') /\ conf'.ended # "done"
      BY <3>1, <3>2
    <3> QED BY <2>2, <3>3 DEF ConfInv, AsAsked, ConfHolds, ConfTypes, UrlsHold, Server, GivenPort, PathAsked, TargetsGiven
  <2>4. CASE ~(conf.i <= Len(args))
    <3> DEFINE d == Finish(conf)
    <3>1. conf' = d
      BY <2>1, <2>4
    <3>2. d.ended # "no"
      <4>1. conf.ended = "no" /\ DOMAIN conf = DOMAIN NewConf
        BY <2>2 DEF ConfHolds, ConfTypes
      <4> DEFINE full == [conf EXCEPT !.concurrency = IF @ = 0 THEN 1 ELSE @,
                                      !.count = IF @ <= 1 THEN 1000 ELSE @,
                                      !.port = IF @ = 0 THEN 80 ELSE @]
                 hosts == What[full.server[1]].hosts
                 looked == AddAddresses(full, "targets", hosts)
                 ended == IF looked.ended = "exit" THEN "bad" ELSE "done"
      <4>2. d \in {Exit(conf), [full EXCEPT !.ended = "done"], [looked EXCEPT !.ended = ended]}
        BY DEF Finish
      <4>3. DOMAIN full = DOMAIN NewConf
        BY <4>1
      <4> HIDE DEF full, hosts
      <4>4. DOMAIN looked = DOMAIN NewConf
        BY <4>3 DEF AddAddresses, Exit
      <4> HIDE DEF looked, d
      <4> QED BY <4>1, <4>2, <4>3, <4>4, ConfFields DEF Exit
    <3> HIDE DEF d
    <3>3. d.ended = "done" => Asks(d)
      BY <2>2, FinishAsks DEF d
    <3>4. conf'.ended # "no" /\ (conf'.ended = "done" => Asks(conf'))
      BY <3>1, <3>2, <3>3
    <3> QED BY <2>2, <3>4 DEF ConfInv, AsAsked, ConfHolds, Asks, ConfTypes, UrlsHold, Server, GivenPort, PathAsked, TargetsGiven
  <2> QED BY <2>3, <2>4
<1> QED BY <1>1, <1>2 DEF ConfNext

(* main_conf_read() starts the program with what the last URL says, for every *)
(* command line: server, port, path and addresses.                            *)
THEOREM StartsAsAsked == ConfSpec => []AsAsked
<1>1. ConfSpec => []ConfInv
  BY ConfInitially, ConfSteps, PTL DEF ConfSpec
<1>2. ConfInv => AsAsked
  BY DEF ConfInv
<1> QED BY <1>1, <1>2, PTL

------------------------------------------------------------------------------
(* The request the arguments make. *)

Right(c) ==
  /\ c.asked \in Requests
  /\ c.request = IF c.edited THEN Written(c.asked) ELSE <<>>
  /\ ~c.edited => c.asked = FreshRequest

Whole(c) == WholeWords(c.asked)

Unedited(c, d) == d.request = c.request /\ d.edited = c.edited /\ d.asked = c.asked

LEMMA UneditedRight ==
  ASSUME NEW c, NEW d, Unedited(c, d), Right(c)
  PROVE  Right(d) /\ (Whole(c) => Whole(d))
BY Zenon DEF Unedited, Right, Whole

(* A word that is replaced is not replaced by nothing. *)
Fills(name, value) == IsWord(name) => value # <<>>

LEMMA EditWhole ==
  ASSUME NEW r \in Requests, WholeWords(r), NEW name, NEW value, GoodEdit(name, value), Fills(name, value)
  PROVE  WholeWords(Edited(r, name, value))
<1> DEFINE e == Edited(r, name, value)
<1>1. /\ e.method = NewWord(1, name, value, r.method)
      /\ e.url = NewWord(2, name, value, r.url)
      /\ e.version = NewWord(3, name, value, r.version)
  BY EditedParts
<1>2. 1 \in DOMAIN Names /\ 2 \in DOMAIN Names /\ 3 \in DOMAIN Names
  BY NamesAre
<1>3. \A k \in DOMAIN Names : \A old : old # <<>> => NewWord(k, name, value, old) # <<>>
  BY Zenon DEF NewWord, Fills, IsWord
<1> HIDE DEF e
<1>4. WholeWords(e)
  BY <1>1, <1>2, <1>3, Zenon DEF WholeWords
<1> QED BY <1>4 DEF e

LEMMA EditRight ==
  ASSUME NEW c, ConfTypes(c), Right(c), Whole(c), NEW name, NEW value, GoodEdit(name, value)
  PROVE  LET d == EditRequest(c, name, value, {})
         IN Right(d) /\ (Fills(name, value) => Whole(d))
<1> DEFINE d == EditRequest(c, name, value, {})
           sent == Edit(c.request, name, value, {})
           asked == Edited(c.asked, name, value)
<1>1. d = [c EXCEPT !.request = sent, !.edited = TRUE, !.asked = asked]
  BY DEF EditRequest
<1>2. DOMAIN c = DOMAIN NewConf
  BY DEF ConfTypes
<1>3. c.asked \in Requests /\ WholeWords(c.asked)
  BY DEF Right, Whole
<1>4. asked \in Requests /\ (Fills(name, value) => WholeWords(asked))
  BY <1>3, EditedParts, EditWhole
<1>5. sent = Written(asked)
  <2>1. CASE c.edited
    <3>1. c.request = Written(c.asked)
      BY <2>1 DEF Right
    <3> QED BY <1>3, <3>1, EditWritten
  <2>2. CASE ~c.edited
    <3>1. c.request = <<>> /\ c.asked = FreshRequest
      BY <2>2 DEF Right
    <3> QED BY <3>1, EditFresh
  <2> QED BY <2>1, <2>2
<1> HIDE DEF d, sent, asked
<1>6. d.request = sent /\ d.edited = TRUE /\ d.asked = asked
  BY <1>1, <1>2, ConfFields
<1>7. Right(d) /\ (Fills(name, value) => Whole(d))
  BY <1>4, <1>5, <1>6, Zenon DEF Right, Whole
<1> QED BY <1>7 DEF d

(* An option that asks for a request of three words and fields. *)
CleanOption(option, value) ==
  option \in DOMAIN Header => GoodEdit(Header[option], What[value].tokens)

FillsOption(option, value) ==
  option \in DOMAIN Header => Fills(Header[option], What[value].tokens)

LEMMA SetOptionRight ==
  ASSUME NEW b, ConfTypes(b), Right(b), Whole(b), NEW option, NEW value, CleanOption(option, value)
  PROVE  LET d == SetOption(b, option, value, {})
         IN Right(d) /\ (FillsOption(option, value) => Whole(d))
<1> DEFINE v == What[value]
           options == b.options \cup {option}
           c == [b EXCEPT !.options = options]
           d == SetOption(b, option, value, {})
<1>1. /\ DOMAIN c = DOMAIN NewConf
      /\ \A f \in DOMAIN NewConf \ {"options"} : c[f] = b[f]
  BY ConfFields DEF ConfTypes
<1>2. ConfTypes(c)
  BY <1>1, ConfFields DEF ConfTypes
<1>3. Right(c) /\ Whole(c)
  BY <1>1, ConfFields, UneditedRight DEF Unedited
<1>4. d = CASE option \in {"concurrency", "count"} -> SetCount(c, option, v.number)
            [] option = "targetip" -> AddAddresses(c, "targets", v.hosts)
            [] option = "sourceip" -> AddAddresses(c, "sources", v.hosts)
            [] option = "shutdown" -> [c EXCEPT !.shutdown = TRUE, !.more = 0]
            [] option \in DOMAIN Header ->
                 [EditRequest(c, Header[option], v.tokens, {}) EXCEPT !.more = 1]
            [] OTHER -> [c EXCEPT !.more = 0]
  BY DEF SetOption
<1> HIDE DEF c, d, options
<1>5. ASSUME option \in {"concurrency", "count"}, d = SetCount(c, option, v.number)
      PROVE  Unedited(c, d)
  <2> HIDE DEF v
  <2> QED BY <1>1, <1>5, ConfFields DEF SetCount, Exit, Unedited
<1>6. ASSUME NEW field \in {"targets", "sources"}, d = AddAddresses(c, field, v.hosts)
      PROVE  Unedited(c, d)
  <2> HIDE DEF v
  <2> QED BY <1>1, <1>6, ConfFields DEF AddAddresses, Exit, Unedited
<1>7. ASSUME d = [c EXCEPT !.shutdown = TRUE, !.more = 0] \/ d = [c EXCEPT !.more = 0]
      PROVE  Unedited(c, d)
  BY <1>1, <1>7, ConfFields DEF Unedited
<1>8. ASSUME option \in DOMAIN Header,
             d = [EditRequest(c, Header[option], v.tokens, {}) EXCEPT !.more = 1]
      PROVE  Right(d) /\ (FillsOption(option, value) => Whole(d))
  <2> DEFINE e == EditRequest(c, Header[option], v.tokens, {})
  <2>1. GoodEdit(Header[option], v.tokens)
    BY <1>8 DEF CleanOption
  <2>2. FillsOption(option, value) => Fills(Header[option], v.tokens)
    BY <1>8 DEF FillsOption
  <2>3. Right(e) /\ (FillsOption(option, value) => Whole(e))
    <3> HIDE DEF v
    <3> QED BY <1>2, <1>3, <2>1, <2>2, EditRight
  <2>4. ConfTypes(e)
    BY <1>2, EditRequestKeeps
  <2>5. d = [e EXCEPT !.more = 1]
    BY <1>8
  <2> HIDE DEF e
  <2>6. Unedited(e, d)
    BY <2>4, <2>5, ConfFields DEF Unedited, ConfTypes
  <2> QED BY <2>3, <2>6, UneditedRight
<1>9. Unedited(c, d) => Right(d) /\ Whole(d)
  BY <1>3, UneditedRight
<1>10. \/ Unedited(c, d)
       \/ Right(d) /\ (FillsOption(option, value) => Whole(d))
  <2> HIDE DEF v
  <2> QED BY <1>4, <1>5, <1>6, <1>7, <1>8
<1>11. Right(d) /\ (FillsOption(option, value) => Whole(d))
  BY <1>9, <1>10
<1> QED BY <1>11 DEF d

(* The lines of a file that ask for such a request. *)
CleanLine(l) == CleanOption(l[1], l[2]) /\ FillsOption(l[1], l[2])

LEMMA ReadFileRight ==
  ASSUME NEW c, ConfTypes(c), c.ended = "no", Right(c), Whole(c),
         NEW lines \in Seq(STRING \X DOMAIN What), \A k \in DOMAIN lines : CleanLine(lines[k])
  PROVE  Right(ReadFile(c, lines, {})) /\ Whole(ReadFile(c, lines, {}))
<1>1. PICK f : /\ AreLines(f, c, lines, {})
               /\ ReadFile(c, lines, {}) = [f[Len(lines)] EXCEPT !.more = 1]
  BY FileLines
<1> DEFINE n == Len(lines)
           R == {k \in Nat : k <= n => ConfTypes(f[k]) /\ Right(f[k]) /\ Whole(f[k])}
<1>2. n \in Nat
  OBVIOUS
<1>3. 0 \in R
  BY <1>1 DEF AreLines
<1>4. ASSUME NEW k \in Nat, k \in R PROVE k + 1 \in R
  <2> SUFFICES ASSUME k + 1 <= n PROVE ConfTypes(f[k + 1]) /\ Right(f[k + 1]) /\ Whole(f[k + 1])
    BY <1>4
  <2> DEFINE b == f[k]
             l == lines[k + 1]
             d == f[k + 1]
  <2>1. ConfTypes(b) /\ Right(b) /\ Whole(b)
    BY <1>2, <1>4
  <2>2. k + 1 \in 1..Len(lines) /\ (k + 1) - 1 = k
    BY <1>2
  <2>3. d = Line(b, l, {})
    BY <1>1, <2>2 DEF AreLines
  <2>4. l[2] \in DOMAIN What
    BY <2>2
  <2>5. k + 1 \in DOMAIN lines
    BY <2>2
  <2>6. CleanLine(l)
    BY <2>5
  <2> HIDE DEF b, l, d
  <2>7. CASE b.ended = "no"
    <3>1. d = SetOption(b, l[1], l[2], {})
      BY <2>3, <2>7 DEF Line
    <3>2. ConfTypes(d)
      BY <2>1, <2>4, <2>7, <3>1, SetOptionKeeps
    <3>3. CleanOption(l[1], l[2]) /\ FillsOption(l[1], l[2])
      BY <2>6 DEF CleanLine
    <3>4. Right(d) /\ Whole(d)
      BY <2>1, <3>1, <3>3, SetOptionRight
    <3> QED BY <3>2, <3>4 DEF d
  <2>8. CASE b.ended # "no"
    <3>1. d = b
      BY <2>3, <2>8 DEF Line
    <3> QED BY <2>1, <3>1 DEF d
  <2> QED BY <2>7, <2>8
<1> HIDE DEF R
<1>5. n \in R
  BY <1>2, <1>3, <1>4, NatSetInduction
<1> DEFINE e == f[n]
           d == ReadFile(c, lines, {})
<1>6. ConfTypes(e) /\ Right(e) /\ Whole(e) /\ d = [e EXCEPT !.more = 1]
  BY <1>1, <1>2, <1>5 DEF R
<1> HIDE DEF e, d
<1>7. Unedited(e, d)
  BY <1>6, ConfFields DEF ConfTypes, Unedited
<1>8. Right(d) /\ Whole(d)
  BY <1>6, <1>7, UneditedRight
<1> QED BY <1>8 DEF d

(* What a URL puts into the request. *)
SentPath(url) ==
  LET path == IF Rooted(url.path) THEN url.path ELSE <<"/">> \o url.path
  IN IF url.path = <<>> THEN path ELSE SubSeq(path, 1, Len(url.path))

LEMMA PlainJoin ==
  ASSUME NEW s \in Plain, NEW t \in Plain
  PROVE  s \o t \in Plain /\ Len(s \o t) = Len(s) + Len(t)
<1> DEFINE u == s \o t
<1>1. IsJoin(u, s, t)
  BY Joined DEF Plain
<1>2. Len(s) \in Nat /\ Len(t) \in Nat
  BY DEF Plain, Tokens
<1> HIDE DEF u
<1>3. ASSUME NEW i \in 1..Len(u) PROVE u[i] \notin Spaces
  <2>1. CASE i <= Len(s)
    <3>1. i \in 1..Len(s)
      BY <2>1
    <3> QED BY <1>1, <3>1 DEF IsJoin, Plain
  <2>2. CASE ~(i <= Len(s))
    <3> DEFINE j == i - Len(s)
    <3>1. j \in 1..Len(t) /\ Len(s) + j = i
      BY <1>1, <1>2, <2>2 DEF IsJoin
    <3> HIDE DEF j
    <3>2. u[i] = t[j]
      BY <1>1, <3>1 DEF IsJoin
    <3> QED BY <3>1, <3>2 DEF Plain
  <2> QED BY <2>1, <2>2
<1>4. u \in Plain /\ Len(u) = Len(s) + Len(t)
  BY <1>1, <1>3 DEF IsJoin, Plain
<1> QED BY <1>4 DEF u

LEMMA PathSent ==
  ASSUME NEW url, url.path \in Plain
  PROVE  SentPath(url) \in Plain /\ SentPath(url) # <<>>
<1> DEFINE p == url.path
           slash == <<"/">>
           path == IF Rooted(p) THEN p ELSE slash \o p
           N == <<>>
<1>1. slash \in Plain /\ Len(slash) = 1
  BY DefaultWords
<1>2. \A w \in Plain : Len(w) \in Nat /\ (w = N <=> Len(w) = 0)
  BY DEF Plain, Tokens
<1>3. SentPath(url) = IF p = N THEN path ELSE SubSeq(path, 1, Len(p))
  BY DEF SentPath
<1>4. p \in Plain
  OBVIOUS
<1>5. Rooted(p) => p # N
  BY DEF Rooted
<1> HIDE DEF slash, N, p
<1>6. slash \o p \in Plain /\ Len(slash \o p) = 1 + Len(p)
  BY <1>1, <1>4, PlainJoin
<1>7. path \in Plain /\ Len(path) >= Len(p) /\ Len(path) > 0
  <2>1. CASE Rooted(p)
    <3>1. path = p
      BY <2>1
    <3> HIDE DEF path
    <3> QED BY <1>2, <1>4, <1>5, <2>1, <3>1
  <2>2. CASE ~Rooted(p)
    <3>1. path = slash \o p
      BY <2>2
    <3> HIDE DEF path
    <3> QED BY <1>2, <1>4, <1>6, <3>1
  <2> QED BY <2>1, <2>2
<1> HIDE DEF path
<1>8. CASE p = N
  <2>1. SentPath(url) = path
    BY <1>3, <1>8
  <2>2. path # N
    BY <1>2, <1>7
  <2> QED BY <1>7, <2>1, <2>2 DEF N
<1>9. CASE p # N
  <2> DEFINE w == SubSeq(path, 1, Len(p))
  <2>1. SentPath(url) = w
    BY <1>3, <1>9
  <2>2. Len(p) \in Nat /\ Len(p) > 0 /\ Len(p) <= Len(path) /\ Len(path) \in Nat
    BY <1>2, <1>4, <1>7, <1>9
  <2>3. w \in Tokens /\ Len(w) = Len(p) /\ \A i \in 1..Len(w) : w[i] = path[i]
    <3>1. path \in Seq(Token)
      BY <1>7 DEF Plain, Tokens
    <3>2. 1 \in 1..Len(path) /\ Len(p) \in 1..Len(path)
      BY <2>2
    <3> QED BY <2>2, <3>1, <3>2, SubSeqProperties DEF Tokens
  <2> HIDE DEF w
  <2>4. \A i \in 1..Len(w) : i \in 1..Len(path)
    BY <2>2, <2>3
  <2>5. w \in Plain
    BY <1>7, <2>3, <2>4 DEF Plain
  <2>6. w # N
    BY <1>2, <2>2, <2>3, <2>5
  <2> QED BY <2>1, <2>5, <2>6 DEF N
<1> QED BY <1>8, <1>9

CleanUrl(url) == url.host \in OneLine /\ url.path \in Plain

LEMMA UrlNames ==
  /\ <<"url">> \in Name /\ <<"Host">> \in Name
  /\ IsWord(<<"url">>) /\ ~IsWord(<<"Host">>)
<1>1. ASSUME NEW x \in {"url", "Host"} PROVE <<x>> \in Name
  <2>1. x \in Token
    BY DEF Token
  <2>2. x \notin Spaces
    BY DEF Spaces, CR, LF
  <2>3. x # Mark
    BY DEF Mark
  <2> DEFINE w == <<x>>
  <2>4. w \in Tokens /\ Len(w) = 1 /\ w[1] = x /\ w # <<>>
    BY <2>1, Single DEF Tokens
  <2> HIDE DEF w
  <2>5. \A i \in 1..1 : i = 1
    OBVIOUS
  <2>6. w \in Name
    BY <2>2, <2>3, <2>4, <2>5 DEF Plain, Name
  <2> QED BY <2>6 DEF w
<1>2. IsWord(<<"url">>)
  <2>1. Same(<<"url">>, <<"url">>)
    BY DEF Same
  <2> QED BY <2>1, OneWord
<1>3. ~IsWord(<<"Host">>)
  BY NamesDiffer, OneWord
<1> QED BY <1>1, <1>2, <1>3

LEMMA ParseUrlRight ==
  ASSUME NEW c, ConfTypes(c), Right(c), Whole(c),
         NEW url \in {None} \cup Url, url # None => CleanUrl(url)
  PROVE  LET d == ParseUrl(c, url, {})
         IN Right(d) /\ Whole(d) /\ DOMAIN d = DOMAIN NewConf /\ d.i = c.i
<1> DEFINE d == ParseUrl(c, url, {})
           path == IF Rooted(url.path) THEN url.path ELSE <<"/">> \o url.path
           sent == SentPath(url)
           port == PortOf(url, c.port)
           named == [c EXCEPT !.server = url.host, !.path = path, !.port = port]
           once == EditRequest(named, <<"url">>, sent, {})
           twice == EditRequest(once, <<"Host">>, url.host, {})
           bad == url = None \/ (url.scheme = "http" /\ url.host = <<>>)
<1>1. d = IF bad THEN [c EXCEPT !.ended = "bad"]
          ELSE IF url.scheme = "https" THEN [c EXCEPT !.ended = "exit"]
          ELSE twice
  BY DEF ParseUrl, SentPath, Exit
<1>2. DOMAIN c = DOMAIN NewConf
  BY DEF ConfTypes
<1>3. ASSUME bad \/ url.scheme = "https"
      PROVE  Right(d) /\ Whole(d) /\ DOMAIN d = DOMAIN NewConf /\ d.i = c.i
  <2> HIDE DEF bad, d, twice
  <2>1. d = [c EXCEPT !.ended = "bad"] \/ d = [c EXCEPT !.ended = "exit"]
    BY <1>1, <1>3
  <2>2. Unedited(c, d) /\ DOMAIN d = DOMAIN NewConf /\ d.i = c.i
    BY <1>2, <2>1, ConfFields DEF Unedited
  <2> QED BY <2>2, UneditedRight
<1>4. ASSUME ~bad, url.scheme # "https"
      PROVE  Right(d) /\ Whole(d) /\ DOMAIN d = DOMAIN NewConf /\ d.i = c.i
  <2>1. url \in Url /\ CleanUrl(url)
    BY <1>4
  <2>2. port \in Nat
    BY <2>1 DEF PortOf, Url, ConfTypes
  <2>3. d = twice
    BY <1>1, <1>4
  <2>4. sent \in Plain /\ sent # <<>> /\ url.host \in OneLine
    BY <2>1, PathSent DEF CleanUrl
  <2>5. url.host = url.host
    OBVIOUS
  <2> HIDE DEF d, bad, path, sent, port
  <2>6. ConfTypes(named) /\ Unedited(c, named) /\ named.i = c.i
    <3>1. /\ DOMAIN named = DOMAIN NewConf /\ named.port = port
          /\ \A f \in DOMAIN NewConf \ {"server", "path", "port"} : named[f] = c[f]
      BY <1>2, ConfFields
    <3> HIDE DEF named
    <3>2. ConfTypes(named)
      BY <2>2, <3>1, ConfFields DEF ConfTypes
    <3>3. Unedited(c, named) /\ named.i = c.i
      BY <3>1, ConfFields DEF Unedited
    <3> QED BY <3>2, <3>3
  <2> HIDE DEF named
  <2>7. Right(named) /\ Whole(named)
    BY <2>6, UneditedRight
  <2>8. GoodEdit(<<"url">>, sent) /\ Fills(<<"url">>, sent)
    <3>1. \A w \in Plain : w \in OneLine
      BY Controls DEF Plain, OneLine
    <3> QED BY <2>4, <3>1, UrlNames DEF GoodEdit, Fills
  <2>9. Right(once) /\ Whole(once) /\ ConfTypes(once) /\ once.i = named.i
    <3>1. Right(once) /\ Whole(once)
      BY <2>6, <2>7, <2>8, EditRight
    <3>2. ConfTypes(once) /\ once.i = named.i
      BY <2>6, EditRequestKeeps, ConfFields
    <3> QED BY <3>1, <3>2
  <2> HIDE DEF once
  <2>10. GoodEdit(<<"Host">>, url.host) /\ Fills(<<"Host">>, url.host)
    BY <2>4, UrlNames DEF GoodEdit, Fills
  <2>11. Right(twice) /\ Whole(twice) /\ ConfTypes(twice) /\ twice.i = once.i
    <3>1. Right(twice) /\ Whole(twice)
      BY <2>9, <2>10, EditRight
    <3>2. ConfTypes(twice) /\ twice.i = once.i
      BY <2>9, EditRequestKeeps, ConfFields
    <3> QED BY <3>1, <3>2
  <2> HIDE DEF twice
  <2> QED BY <2>3, <2>6, <2>9, <2>11 DEF ConfTypes
<1>5. Right(d) /\ Whole(d) /\ DOMAIN d = DOMAIN NewConf /\ d.i = c.i
  BY <1>3, <1>4
<1> QED BY <1>5 DEF d

LEMMA SkipRight ==
  ASSUME NEW e, DOMAIN e = DOMAIN NewConf, Right(e), NEW a, NEW n
  PROVE  /\ Right(Skip(e, a, n)) /\ (Whole(e) => Whole(Skip(e, a, n)))
         /\ Skip(e, a, n).i = e.i + 1 + n
<1> DEFINE d == Skip(e, a, n)
           read == Append(e.read, a)
           i == e.i + 1 + n
<1>1. d = [e EXCEPT !.i = i, !.read = read]
  BY DEF Skip
<1> HIDE DEF d, i, read
<1>2. Unedited(e, d) /\ d.i = i
  BY <1>1, ConfFields DEF Unedited
<1> QED BY <1>2, UneditedRight DEF d, i

LEMMA CountRight ==
  ASSUME NEW b, ConfTypes(b), Right(b), Whole(b),
         NEW option \in {"concurrency", "count"}, NEW value, NEW eol
  PROVE  Right(SetOption(b, option, value, eol)) /\ Whole(SetOption(b, option, value, eol))
<1> DEFINE options == b.options \cup {option}
           n == What[value].number
           c == [b EXCEPT !.options = options]
           d == SetOption(b, option, value, eol)
<1>1. d = SetCount(c, option, n)
  <2>1. /\ option \notin DOMAIN Header
        /\ option # "targetip" /\ option # "sourceip" /\ option # "shutdown"
    BY ConfAssumption
  <2> DEFINE v == What[value]
             edited == [EditRequest(c, Header[option], v.tokens, eol) EXCEPT !.more = 1]
             targets == AddAddresses(c, "targets", v.hosts)
             sources == AddAddresses(c, "sources", v.hosts)
             shut == [c EXCEPT !.shutdown = TRUE, !.more = 0]
             other == [c EXCEPT !.more = 0]
             counted == SetCount(c, option, n)
  <2>2. d = CASE option \in {"concurrency", "count"} -> counted
              [] option = "targetip" -> targets
              [] option = "sourceip" -> sources
              [] option = "shutdown" -> shut
              [] option \in DOMAIN Header -> edited
              [] OTHER -> other
    BY DEF SetOption
  <2> HIDE DEF d, counted, targets, sources, shut, other, edited, v
  <2>3. d = counted
    BY <2>1, <2>2
  <2> QED BY <2>3 DEF counted
<1> HIDE DEF d, options, n
<1>2. DOMAIN c = DOMAIN NewConf /\ Unedited(b, c)
  BY ConfFields DEF ConfTypes, Unedited
<1> HIDE DEF c
<1>3. Unedited(c, d)
  BY <1>1, <1>2, ConfFields DEF SetCount, Exit, Unedited
<1>4. Right(d) /\ Whole(d)
  BY <1>2, <1>3, UneditedRight
<1> QED BY <1>4 DEF d

(* A command line that asks for a request of three words and fields: what it  *)
(* puts there has no spaces in a word and no line end in a field, and a word  *)
(* is not replaced by nothing before more is read.                            *)
CleanArgument(j) ==
  LET w == What[args[j]]
      next == IF j < Len(args) THEN args[j + 1] ELSE ""
  IN /\ w.dashes = 0 /\ w.url # None => CleanUrl(w.url)
     /\ w.dashes = 2 /\ w.option = "conf" =>
          \A k \in DOMAIN What[next].lines : CleanLine(What[next].lines[k])
     /\ w.dashes = 2 /\ w.option # "conf" =>
          CleanOption(w.option, next) /\ (j < Len(args) => FillsOption(w.option, next))

CleanCommand == \A j \in DOMAIN args : CleanArgument(j)

RightOn(c) == Right(c) /\ (c.i <= Len(args) => Whole(c))

LEMMA TurnRight ==
  ASSUME args \in Seq(Args), CleanCommand, NEW c, c.ended = "no", ConfTypes(c),
         Right(c), Whole(c), c.i <= Len(args)
  PROVE  RightOn(Turn(c, {}))
<1> DEFINE a == args[c.i]
           w == What[a]
           next == IF c.i < Len(args) THEN args[c.i + 1] ELSE ""
           t == Turn(c, {})
           e == ParseUrl(c, w.url, {})
           p == SetParm(c, w.option, next, {})
           g == SetOption(c, w.option, w.glued, {})
           o == SetOption(c, w.option, next, {})
           lines == What[next].lines
           flag == w.dashes = 1 /\ w.option \notin {"concurrency", "count"}
           counts == w.option \in {"concurrency", "count"}
           glued == w.dashes = 1 /\ counts /\ w.glued # None
           none == next = "" \/ What[next].dashes > 0
<1>1. c.i \in Nat \ {0} /\ Len(args) \in Nat /\ c.i \in DOMAIN args
  BY DEF ConfTypes
<1>2. a \in Args /\ next \in DOMAIN What
  <2>1. c.i < Len(args) => c.i + 1 \in 1..Len(args)
    BY <1>1
  <2>2. a \in Args
    BY <1>1
  <2>3. next \in Args \cup {""}
    <3>1. CASE c.i < Len(args)
      <4>1. args[c.i + 1] \in Args
        BY <2>1, <3>1
      <4> QED BY <3>1, <4>1
    <3>2. CASE ~(c.i < Len(args))
      BY <3>2
    <3> QED BY <3>1, <3>2
  <2> HIDE DEF a, next
  <2> QED BY <2>2, <2>3, ConfAssumption
<1>3. w \in Argument
  BY <1>2, ConfAssumption
<1>4. /\ w.dashes = 0 /\ w.url # None => CleanUrl(w.url)
      /\ w.dashes = 2 /\ w.option = "conf" => \A k \in DOMAIN lines : CleanLine(lines[k])
      /\ w.dashes = 2 /\ w.option # "conf" =>
           CleanOption(w.option, next) /\ (c.i < Len(args) => FillsOption(w.option, next))
  BY <1>1 DEF CleanCommand, CleanArgument
<1>5. t = CASE w.dashes = 0 -> Skip(e, a, 0)
            [] w.dashes = 2 -> Skip(p, a, p.more)
            [] flag -> Skip(c, a, 0)
            [] glued -> Skip(g, a, 0)
            [] OTHER -> IF none THEN Exit(c) ELSE Skip(o, a, 1)
  BY DEF Turn, Skip
<1>6. lines \in Seq(STRING \X DOMAIN What)
  BY <1>2, ConfAssumption DEF Argument
<1>7. w.dashes \in 0..2 /\ w.url \in {None} \cup Url
  BY <1>3 DEF Argument
<1>8. w.glued # None => w.glued \in DOMAIN What
  BY <1>3 DEF Argument
<1> HIDE DEF a, next, t, e, p, g, o, w, lines
<1>9. ASSUME NEW d, ConfTypes(d) \/ DOMAIN d = DOMAIN NewConf, Right(d), d.i = c.i,
             c.i < Len(args) => Whole(d), NEW n \in {0, 1}, t = Skip(d, a, n)
      PROVE  RightOn(t)
  <2>1. DOMAIN d = DOMAIN NewConf
    BY <1>9 DEF ConfTypes
  <2>2. Right(t) /\ (Whole(d) => Whole(t)) /\ t.i = d.i + 1 + n
    BY <1>9, <2>1, SkipRight
  <2>3. t.i <= Len(args) => c.i < Len(args)
    BY <1>1, <1>9, <2>2
  <2> QED BY <1>9, <2>2, <2>3 DEF RightOn
<1>10. ASSUME w.dashes = 0, t = Skip(e, a, 0) PROVE RightOn(t)
  <2>1. Right(e) /\ Whole(e) /\ DOMAIN e = DOMAIN NewConf /\ e.i = c.i
    BY <1>4, <1>7, <1>10, ParseUrlRight DEF e
  <2> QED BY <1>9, <1>10, <2>1
<1>11. ASSUME w.dashes = 2, t = Skip(p, a, p.more) PROVE RightOn(t)
  <2>1. ConfTypes(p) /\ p.i = c.i /\ Right(p) /\ (c.i < Len(args) => Whole(p))
    <3>1. CASE w.option = "conf"
      <4>1. p = ReadFile(c, lines, {})
        BY <3>1 DEF p, SetParm, lines
      <4>2. ConfTypes(p) /\ Kept(c, p)
        BY <1>6, <4>1, ReadFileKeeps
      <4>3. Right(p) /\ Whole(p)
        BY <1>4, <1>6, <1>11, <3>1, <4>1, ReadFileRight
      <4> QED BY <4>2, <4>3 DEF Kept
    <3>2. CASE w.option # "conf"
      <4>1. p = SetOption(c, w.option, next, {})
        BY <3>2 DEF p, SetParm
      <4>2. ConfTypes(p) /\ Kept(c, p)
        BY <1>2, <4>1, SetOptionKeeps
      <4>3. Right(p) /\ (FillsOption(w.option, next) => Whole(p))
        BY <1>4, <1>11, <3>2, <4>1, SetOptionRight
      <4> QED BY <1>4, <1>11, <3>2, <4>2, <4>3 DEF Kept
    <3> QED BY <3>1, <3>2
  <2>2. p.more \in {0, 1}
    BY <2>1 DEF ConfTypes
  <2> QED BY <1>9, <1>11, <2>1, <2>2
<1>12. ASSUME t = Skip(c, a, 0) PROVE RightOn(t)
  BY <1>9, <1>12
<1>13. ASSUME w.option \in {"concurrency", "count"}, glued, t = Skip(g, a, 0) PROVE RightOn(t)
  <2>1. ConfTypes(g) /\ Kept(c, g)
    BY <1>8, <1>13, SetOptionKeeps DEF g
  <2>2. Right(g) /\ Whole(g)
    BY <1>13, CountRight DEF g
  <2> QED BY <1>9, <1>13, <2>1, <2>2 DEF Kept
<1>14. ASSUME w.option \in {"concurrency", "count"}, t = Skip(o, a, 1) PROVE RightOn(t)
  <2>1. ConfTypes(o) /\ Kept(c, o)
    BY <1>2, SetOptionKeeps DEF o
  <2>2. Right(o) /\ Whole(o)
    BY <1>14, CountRight DEF o
  <2> QED BY <1>9, <1>14, <2>1, <2>2 DEF Kept
<1>15. ASSUME t = Exit(c) PROVE RightOn(t)
  <2>1. Unedited(c, t)
    BY <1>15, ConfFields DEF Exit, ConfTypes, Unedited
  <2> QED BY <2>1, UneditedRight DEF RightOn
<1>16. RightOn(t)
  <2>1. CASE w.dashes = 0
    BY <1>5, <1>10, <2>1
  <2>2. CASE w.dashes = 2
    BY <1>5, <1>11, <2>2
  <2>3. CASE w.dashes = 1
    <3>1. CASE flag
      <4>1. ~glued
        BY <3>1
      <4> HIDE DEF flag, glued, none
      <4>2. t = Skip(c, a, 0)
        BY <1>5, <2>3, <3>1, <4>1
      <4> QED BY <1>12, <4>2
    <3>2. CASE ~flag
      <4>1. w.option \in {"concurrency", "count"}
        BY <2>3, <3>2
      <4> HIDE DEF flag, glued, none
      <4>2. (glued /\ t = Skip(g, a, 0)) \/ t = Exit(c) \/ t = Skip(o, a, 1)
        BY <1>5, <2>3, <3>2
      <4> QED BY <1>13, <1>14, <1>15, <4>1, <4>2
    <3> QED BY <3>1, <3>2
  <2> QED BY <1>7, <2>1, <2>2, <2>3
<1> QED BY <1>16 DEF t

LEMMA FinishRight ==
  ASSUME NEW c, ConfTypes(c), Right(c)
  PROVE  Right(Finish(c)) /\ Finish(c).ended # "no"
<1> DEFINE d == Finish(c)
           full == [c EXCEPT !.concurrency = IF @ = 0 THEN 1 ELSE @,
                             !.count = IF @ <= 1 THEN 1000 ELSE @,
                             !.port = IF @ = 0 THEN 80 ELSE @]
           hosts == What[full.server[1]].hosts
           looked == AddAddresses(full, "targets", hosts)
           ended == IF looked.ended = "exit" THEN "bad" ELSE "done"
<1>1. DOMAIN c = DOMAIN NewConf
  BY DEF ConfTypes
<1>2. d \in {Exit(c), [full EXCEPT !.ended = "done"], [looked EXCEPT !.ended = ended]}
  BY DEF Finish
<1>3. DOMAIN full = DOMAIN NewConf /\ Unedited(c, full)
  BY <1>1, ConfFields DEF Unedited
<1>4. ended \in {"bad", "done"}
  OBVIOUS
<1> HIDE DEF full, hosts
<1>5. DOMAIN looked = DOMAIN NewConf /\ Unedited(full, looked)
  BY <1>3, ConfFields DEF AddAddresses, Exit, Unedited
<1> HIDE DEF looked, d, ended
<1>6. Unedited(c, looked)
  BY <1>3, <1>5 DEF Unedited
<1>7. Unedited(c, d) /\ d.ended # "no"
  <2>1. CASE d = Exit(c)
    BY <1>1, <2>1, ConfFields DEF Exit, Unedited
  <2>2. CASE d = [full EXCEPT !.ended = "done"]
    BY <1>3, <2>2, ConfFields DEF Unedited
  <2>3. CASE d = [looked EXCEPT !.ended = ended]
    BY <1>4, <1>5, <1>6, <2>3, ConfFields DEF Unedited
  <2> QED BY <1>2, <2>1, <2>2, <2>3
<1>8. Right(d) /\ d.ended # "no"
  BY <1>7, UneditedRight
<1> QED BY <1>8 DEF d

(* The request while the arguments are read, and after. *)
RightSoFar == Right(conf) /\ (conf.ended = "no" /\ conf.i <= Len(args) => Whole(conf))

RequestInv == CleanCommand /\ (misread \/ RightSoFar)

LEMMA RequestInitially == ConfInit /\ CleanCommand => RequestInv
<1> SUFFICES ASSUME ConfInit, CleanCommand PROVE RequestInv
  OBVIOUS
<1>1. conf = NewConf
  BY DEF ConfInit
<1>2. conf.request = <<>> /\ conf.edited = FALSE /\ conf.asked = FreshRequest
  BY <1>1 DEF NewConf
<1>3. Right(conf) /\ Whole(conf)
  BY <1>2, FreshIs DEF Right, Whole
<1> QED BY <1>3 DEF RequestInv, RightSoFar

LEMMA RequestSteps == ConfInv /\ RequestInv /\ [ConfNext]_confVars => RequestInv'
<1> SUFFICES ASSUME ConfInv, RequestInv, [ConfNext]_confVars PROVE RequestInv'
  OBVIOUS
<1>1. CASE UNCHANGED confVars
  BY <1>1, Zenon DEF RequestInv, RightSoFar, Right, Whole, CleanCommand, CleanArgument, confVars
<1>2. CASE Read
  <2>1. PICK eol \in Misreads :
          /\ conf' = IF conf.i <= Len(args) THEN Turn(conf, eol) ELSE Finish(conf)
          /\ misread' = (misread \/ eol # {})
    BY <1>2 DEF Read
  <2>2. args' = args /\ conf.ended = "no" /\ args \in Seq(Args) /\ ConfTypes(conf)
    BY <1>2 DEF Read, ConfInv, ConfHolds
  <2>3. CleanCommand /\ CleanCommand'
    <3>1. CleanCommand
      BY DEF RequestInv
    <3> QED BY <2>2, <3>1, Zenon DEF CleanCommand, CleanArgument
  <2>4. CASE misread \/ eol # {}
    <3>1. misread'
      BY <2>1, <2>4, Zenon
    <3> QED BY <2>3, <3>1, Zenon DEF RequestInv
  <2>5. CASE ~misread /\ eol = {}
    <3>1. Right(conf) /\ (conf.i <= Len(args) => Whole(conf))
      BY <2>2, <2>5, Zenon DEF RequestInv, RightSoFar
    <3>2. CASE conf.i <= Len(args)
      <4>1. RightOn(Turn(conf, {}))
        BY <2>2, <2>3, <3>1, <3>2, TurnRight
      <4>2. conf' = Turn(conf, {})
        BY <2>1, <2>5, <3>2
      <4>3. RightOn(conf')
        BY <4>1, <4>2, Zenon
      <4>4. RightSoFar'
        BY <2>2, <4>3, Zenon DEF RightOn, RightSoFar, Right, Whole
      <4> QED BY <2>3, <4>4, Zenon DEF RequestInv
    <3>3. CASE ~(conf.i <= Len(args))
      <4>1. Right(Finish(conf)) /\ Finish(conf).ended # "no"
        BY <2>2, <3>1, FinishRight
      <4>2. conf' = Finish(conf)
        BY <2>1, <3>3
      <4>3. Right(conf') /\ conf'.ended # "no"
        BY <4>1, <4>2, Zenon
      <4>4. RightSoFar'
        BY <4>3, Zenon DEF RightSoFar, Right
      <4> QED BY <2>3, <4>4, Zenon DEF RequestInv
    <3> QED BY <3>2, <3>3
  <2>6. eol = {} \/ eol # {}
    OBVIOUS
  <2> QED BY <2>4, <2>5, <2>6, Zenon
<1> QED BY <1>1, <1>2 DEF ConfNext

(* For every command line that asks for a request of three words and fields,  *)
(* however many edits http_edit_request() makes, the request is the one they  *)
(* ask for, unless is_eol() took other memory for a line end.                 *)
THEOREM RequestAsEdited == ConfSpec /\ CleanCommand => []RequestEdited
<1>1. ConfInit /\ CleanCommand => ConfInv /\ RequestInv
  BY ConfInitially, RequestInitially
<1>2. (ConfInv /\ RequestInv) /\ [ConfNext]_confVars => (ConfInv /\ RequestInv)'
  BY ConfSteps, RequestSteps
<1>3. ConfInv /\ RequestInv => RequestEdited
  BY Zenon DEF RequestInv, RightSoFar, Right, RequestEdited
<1> QED BY <1>1, <1>2, <1>3, PTL DEF ConfSpec
==============================================================================
