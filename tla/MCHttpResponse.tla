--------------------------- MODULE MCHttpResponse ----------------------------
(***************************************************************************)
(* Responses for TLC: the magic and the field name are shortened, every    *)
(* kind of header line the parser tells apart is there.                    *)
(***************************************************************************)
EXTENDS ResponseStream, SequencesExt

MCMagic == <<"H", "/">>
MCName  == <<"C", "L", ":">>

Chars(chars) == [k \in DOMAIN chars |-> Byte(chars[k])]

EOL == Chars(<<CR, LF>>)
StatusLine == Chars(MCMagic) \o <<Digit(1), Byte("."), Digit(0), Byte(SP), Digit(2), Digit(0), Digit(0)>> \o EOL

(* Header lines: the length, a name it is a prefix of, one that begins like   *)
(* it, one that contains it, a line that is no field, and an empty value.     *)
LengthField(digits) == Chars(MCName) \o <<Byte(SP)>> \o [k \in DOMAIN digits |-> Digit(digits[k])]
Others == { <<>>,
            Chars(<<"C", "L", "x", ":", SP>>) \o <<Digit(7)>> \o EOL,
            Chars(<<"C", ":">>) \o <<Digit(7)>> \o EOL,
            Chars(<<"x", "C", "L", ":">>) \o <<Digit(7)>> \o EOL,
            Chars(<<"C", "L">>) \o EOL,
            Chars(<<"x", ":">>) \o EOL }

Body(size) == [k \in 1..size |-> IF k % 2 = 1 THEN Byte(LF) ELSE Byte("H")]

Response(before, digits, after, size, extra) ==
  LET header == StatusLine \o before \o LengthField(digits) \o EOL \o after \o EOL
  IN [bytes |-> header \o Body(size + extra), length |-> Len(header) + size]

(* Responses with a content length, and up to two bytes after their end. *)
WellFormed ==
  {Response(before, <<size>>, after, size, extra) :
     before \in Others, after \in Others, size \in {0, 3}, extra \in {0, 2}}
  \cup {Response(<<>>, <<1, 2>>, <<>>, 12, 1), Response(<<>>, <<0, 2>>, <<>>, 2, 1)}

(* Any bytes but CR after the status line; no length is promised.  A CR is not *)
(* among them: as the first byte of a buffer it is skipped, inside of a buffer *)
(* it belongs to the field name (http-response.c:226-228).                     *)
Alphabet == {Byte("C"), Byte("L"), Byte(":"), Byte(LF), Byte(SP), Digit(1), Byte("x")}
AnyHeader ==
  {[bytes |-> StatusLine \o header \o Body(2), length |-> 0] : header \in SeqOf(Alphabet, 4)}

Garbled == {[bytes |-> Chars(start) \o Body(3), length |-> 0] :
              start \in {<<"x">>, <<"H">>, <<"H", "/", "x">>, <<"H", "/", ".", "x">>,
                         <<"H", "/", ".", SP, "x">>, <<"H", "/", ".", SP, LF>>}}

Sent == WellFormed \cup AnyHeader \cup Garbled

ASSUME MCTextsAssumption == CRsEndLines /\ LengthsFit /\ Measured
==============================================================================
