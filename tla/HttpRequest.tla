----------------------------- MODULE HttpRequest -----------------------------
(***************************************************************************)
(* http_edit_request() of http-request.c, which builds the request the     *)
(* program sends, one edit after the other, from an empty one.  A header   *)
(* is a sequence of tokens: words without spaces or colons, and the        *)
(* characters the code looks for.  Offsets count from 0.                   *)
(***************************************************************************)
EXTENDS Integers, SequencesExt

CONSTANT Lower   \* tolower() of the words that occur, a function

CR == "\r"
LF == "\n"
Spaces == {" ", CR, LF}
Eol == <<CR, LF>>

Folded(name) == [j \in DOMAIN name |-> IF name[j] \in DOMAIN Lower THEN Lower[name[j]] ELSE name[j]]

(* is_equal() *)
Same(name, other) == Folded(name) = Folded(other)

(* tolower() makes no two of these names equal. *)
ASSUME LowerAssumption ==
  \A a, b \in {"method", "url", "version", "Host"} : Same(<<a>>, <<b>>) => a = b

(* _skip(): from offset o over the tokens in a set. *)
Over(h, o, tokens) ==
  CHOOSE k \in o..Len(h) :
    /\ k = Len(h) \/ h[k + 1] \notin tokens
    /\ \A j \in o..(k - 1) : h[j + 1] \in tokens

Words(h) == ToSet(h) \ Spaces

SkipWord(h, o) == Over(h, o, Words(h))
SkipName(h, o) == Over(h, o, Words(h) \ {":"})
SkipLine(h, o) ==
  LET k == Over(h, o, ToSet(h) \ {LF}) IN IF k < Len(h) THEN k + 1 ELSE k

(* Spaces are skipped up to the end of the line, and the CRs before its LF    *)
(* are a part of that end.                                                    *)
SkipSpaces(h, o) ==
  LET k == Over(h, o, Spaces \ {LF})
  IN IF k = Len(h) \/ h[k + 1] # LF THEN k
     ELSE CHOOSE j \in 0..k : /\ \A i \in (j + 1)..k : h[i] = CR
                              /\ j = 0 \/ h[j] # CR

(* _http_insert() *)
Insert(h, start, end, field) ==
  SubSeq(h, 1, start) \o field \o SubSeq(h, end + 1, Len(h))

(* One of the three words of the first line: it is put there when the header  *)
(* has none, and replaced when it is the one that is to be edited.  is_eol()  *)
(* is given a pointer to the pointer to the header, and looks at other        *)
(* memory: `eol' are the offsets at which that looks like the end of a line.  *)
Default(h, o, eol, word) == IF o = Len(h) \/ o \in eol THEN Insert(h, o, o, <<word>>) ELSE h

Word(h, o, eol, word, edited, value) ==
  LET some == Default(h, o, eol, word)
  IN IF edited THEN Insert(some, o, SkipWord(some, o), value) ELSE some

(* The line at which the loop over the fields stops: that of the name, or the *)
(* empty line.  It has stopped after as many turns as there are tokens.       *)
FieldOffset(h, o, eol, name) ==
  LET Stops(k) ==
        LET next == SkipName(h, k)
        IN k \in eol \/ k = next \/ Same(name, SubSeq(h, k + 1, next))
      Ahead(k) == IF Stops(k) THEN k ELSE SkipLine(h, k)
      after[n \in 0..Len(h)] == IF n = 0 THEN o ELSE Ahead(after[n - 1])
  IN after[Len(h)]

(* Mutant for RequestEdited: the new field is put before the old one. *)
WithoutFieldMutant(h, o, eol, name) == h

WithoutField(h, o, eol, name) ==
  LET next == SkipName(h, o)
  IN IF o \notin eol /\ o # next /\ Same(name, SubSeq(h, o + 1, next))
     THEN Insert(h, o, SkipLine(h, o), <<>>) ELSE h

(* The k-th word, and the place behind it.  Before the second and the third   *)
(* there is a space.                                                          *)
Names    == <<"method", "url", "version">>
Defaults == <<"GET", "/", "HTTP/1.1">>
Part(s, k, name, value, eol) ==
  LET spaced == IF k = 1 THEN s.h ELSE Default(s.h, s.o, eol, " ")
      o == SkipSpaces(spaced, s.o)
      h == Word(spaced, o, eol, Defaults[k], Same(name, <<Names[k]>>), value)
  IN [h |-> h, o |-> SkipWord(h, o)]

Ended(s) == [s EXCEPT !.h = IF s.o = Len(@) THEN @ \o Eol ELSE @]

NextLine(s) == [s EXCEPT !.o = SkipLine(s.h, SkipSpaces(s.h, @))]

(* The field of that name gives way to the new one, or the new one is the     *)
(* last; with no name the fields stay.                                        *)
WithField(s, name, value, eol) ==
  LET o == FieldOffset(s.h, s.o, eol, name)
      h == WithoutField(s.h, o, eol, name)
  IN IF name = <<>> THEN h ELSE Insert(h, o, o, name \o <<":", " ">> \o value \o Eol)

(* http_edit_request().  Once one of the three words was edited there is no   *)
(* name left to look for among the fields.                                    *)
Edit(h, name, value, eol) ==
  LET Then(s, k) == Part(s, k, name, value, eol)
      first == Then(Then(Then([h |-> h, o |-> 0], 1), 2), 3)
      field == IF \E k \in DOMAIN Names : Same(name, <<Names[k]>>) THEN <<>> ELSE name
  IN WithField(Ended(NextLine(Ended(first))), field, value, eol)

------------------------------------------------------------------------------
(* What is meant: a request as its parts, and an edit of one of them. *)

FreshRequest == [method |-> <<"GET">>, url |-> <<"/">>, version |-> <<"HTTP/1.1">>, fields |-> <<>>]

Edited(r, name, value) ==
  LET at == SelectInSeq(r.fields, LAMBDA f : Same(f[1], name))
      new == <<name, value>>
  IN CASE Same(name, <<"method">>)  -> [r EXCEPT !.method = value]
       [] Same(name, <<"url">>)     -> [r EXCEPT !.url = value]
       [] Same(name, <<"version">>) -> [r EXCEPT !.version = value]
       [] name = <<>>               -> r
       [] OTHER -> [r EXCEPT !.fields = IF at = 0 THEN Append(@, new) ELSE [@ EXCEPT ![at] = new]]

Written(r) ==
  r.method \o <<" ">> \o r.url \o <<" ">> \o r.version \o Eol
    \o FlattenSeq([j \in DOMAIN r.fields |-> r.fields[j][1] \o <<":", " ">> \o r.fields[j][2] \o Eol])
    \o Eol
==============================================================================
