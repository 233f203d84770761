----------------------------- MODULE HttpResponse ----------------------------
(***************************************************************************)
(* http_rsp_parse() of http-response.c: the byte-at-a-time parser of an    *)
(* HTTP response that the worker feeds with whatever recv() returned.      *)
(*                                                                         *)
(* A byte is a character, or a digit as its value.  The pattern matcher is *)
(* seen through what the parser asks of it: how much of the one field name *)
(* that matters, Content-Length, the current line has matched so far.  The *)
(* scan of the content for "<title" changes no result and is left out:     *)
(* CONTENT stands for CONTENT, CONTENT_TAG and CONTENT_FIELD.              *)
(***************************************************************************)
EXTENDS Integers, Sequences

CONSTANTS
  Magic,      \* the bytes of "HTTP/"
  LengthName, \* the bytes of "Content-Length:"
  Wide        \* 2^64, the width of content_length and content_seen

ASSUME HttpResponseAssumption ==
  /\ Magic # <<>>
  /\ LengthName # <<>>
  /\ \A k \in DOMAIN LengthName : LengthName[k] = ":" <=> k = Len(LengthName)
  /\ Wide \in Nat \ {0}

CR == "\r"
LF == "\n"
SP == " "

Byte(char)  == [char |-> char, value |-> 0]
Digit(d)    == [char |-> "digit", value |-> d]
IsDigit(b)  == b.char = "digit"
IsSpace(b)  == b.char \in {CR, LF, SP}
Is(b, char) == b.char = char

HeaderStates ==
  { "MAGIC", "VER_HI", "VER_LOW", "RSP_CODE_START", "RSP_CODE", "RSP_CODE_END",
    "FIELD_START", "FIELD_NAME", "FIELD_COLON", "FIELD_VALUE_CONTENTS",
    "FIELD_VALUE_END" }
BodyStates == {"CONTENT", "DONE_PARSING"}

Mismatch == -1   \* the line's name is none of the anchored patterns

(* http_response_t.  matched is the state of a byte matcher: how much of      *)
(* Magic, or of LengthName, is behind us.  scanning is local to a call: a     *)
(* search for the end of a name is under way in this very buffer.             *)
Http ==
  [ state : HeaderStates \cup BodyStates,
    matched : {Mismatch} \cup Nat, scanning : BOOLEAN, is_length : BOOLEAN,
    response_code : Nat, content_length : 0..(Wide - 1), content_seen : 0..(Wide - 1),
    is_error : BOOLEAN, is_content_length_seen : BOOLEAN ]

Cleared ==
  [ state |-> "MAGIC", matched |-> 0, scanning |-> FALSE, is_length |-> FALSE,
    response_code |-> 0, content_length |-> 0, content_seen |-> 0,
    is_error |-> FALSE, is_content_length_seen |-> FALSE ]

To(h, state) == [h EXCEPT !.state = state, !.scanning = FALSE]
Broken(h)    == [To(h, "DONE_PARSING") EXCEPT !.is_error = TRUE]

------------------------------------------------------------------------------
(* One byte of the header, per state. *)

InMagic(h, b) ==
  IF ~Is(b, Magic[h.matched + 1]) THEN Broken(h)
  ELSE [h EXCEPT !.is_error = FALSE, !.content_length = 0,
                 !.matched = IF h.matched + 1 = Len(Magic) THEN 0 ELSE @ + 1,
                 !.state   = IF h.matched + 1 = Len(Magic) THEN "VER_HI" ELSE @]

InVersionHigh(h, b) ==
  IF Is(b, ".") THEN To(h, "VER_LOW") ELSE IF IsDigit(b) THEN h ELSE Broken(h)

InVersionLow(h, b) ==
  IF IsSpace(b) THEN To(h, "RSP_CODE_START") ELSE IF IsDigit(b) THEN h ELSE Broken(h)

InCodeStart(h, b) ==
  IF IsDigit(b) THEN [To(h, "RSP_CODE") EXCEPT !.response_code = b.value]
  ELSE IF IsSpace(b) THEN h
  ELSE [To(h, "RSP_CODE_END") EXCEPT !.response_code = 0]

InCode(h, b) ==
  IF IsDigit(b) THEN [h EXCEPT !.response_code = (10 * @ + b.value) % 65536]
  ELSE IF Is(b, LF) THEN [To(h, "FIELD_START") EXCEPT !.response_code = 0]
  ELSE To(h, "RSP_CODE_END")

InCodeEnd(h, b) ==
  IF Is(b, LF)
  THEN [To(h, "FIELD_START") EXCEPT !.content_length = 0, !.is_content_length_seen = FALSE]
  ELSE h

(* smack_search_next() over the field names: a colon or the end of the line   *)
(* ends the name; the name is known when all of it, from the line's first     *)
(* byte on, is LengthName.  Only the byte a search starts with is tested for  *)
(* CR: further into the buffer a CR is a byte like any other.                 *)
InName(h, b) ==
  LET matches == h.matched # Mismatch /\ Is(b, LengthName[h.matched + 1])
  IN IF Is(b, CR) /\ ~h.scanning THEN h
     ELSE IF Is(b, LF) THEN To(h, "FIELD_START")
     ELSE IF Is(b, ":") THEN [To(h, "FIELD_COLON") EXCEPT
                                !.is_length = matches /\ h.matched + 1 = Len(LengthName)]
     ELSE [h EXCEPT !.scanning = TRUE, !.matched = IF matches THEN @ + 1 ELSE Mismatch]

InFieldStart(h, b) ==
  IF Is(b, CR) THEN h
  ELSE IF Is(b, LF) THEN [To(h, "CONTENT") EXCEPT !.content_seen = 0]
  ELSE InName([To(h, "FIELD_NAME") EXCEPT !.matched = 0], b)

(* The first byte of the value, FIELD_VALUE_START, is met in the same step. *)
InColon(h, b) ==
  IF Is(b, LF) THEN To(h, "FIELD_START")
  ELSE IF IsSpace(b) THEN h
  ELSE IF ~h.is_length THEN To(h, "FIELD_VALUE_CONTENTS")
  ELSE IF IsDigit(b)
       THEN [To(h, "FIELD_VALUE_CONTENTS") EXCEPT
               !.is_content_length_seen = TRUE, !.content_length = b.value % Wide]
       ELSE [To(h, "FIELD_VALUE_END") EXCEPT !.content_length = 0]

InValue(h, b) ==
  IF Is(b, LF) THEN To(h, "FIELD_START")
  ELSE IF ~h.is_length THEN h
  ELSE IF IsDigit(b) THEN [h EXCEPT !.content_length = (10 * @ + b.value) % Wide]
  ELSE To(h, "FIELD_VALUE_END")

InValueEnd(h, b) == IF Is(b, LF) THEN To(h, "FIELD_START") ELSE h

HeaderByte(h, b) ==
  CASE h.state = "MAGIC"                -> InMagic(h, b)
    [] h.state = "VER_HI"               -> InVersionHigh(h, b)
    [] h.state = "VER_LOW"              -> InVersionLow(h, b)
    [] h.state = "RSP_CODE_START"       -> InCodeStart(h, b)
    [] h.state = "RSP_CODE"             -> InCode(h, b)
    [] h.state = "RSP_CODE_END"         -> InCodeEnd(h, b)
    [] h.state = "FIELD_START"          -> InFieldStart(h, b)
    [] h.state = "FIELD_NAME"           -> InName(h, b)
    [] h.state = "FIELD_COLON"          -> InColon(h, b)
    [] h.state = "FIELD_VALUE_CONTENTS" -> InValue(h, b)
    [] h.state = "FIELD_VALUE_END"      -> InValueEnd(h, b)

(* Mutant for FragmentationIndependent: the matcher starts over in each call. *)
HeaderMutant(h, px) ==
  LET at[k \in 0..Len(px)] ==
        IF k = 0 THEN [http |-> [h EXCEPT !.scanning = FALSE, !.matched = 0], offset |-> 0]
        ELSE LET before == at[k - 1]
             IN IF before.http.state \in BodyStates THEN before
                ELSE [http |-> HeaderByte(before.http, px[k]), offset |-> k]
  IN at[Len(px)]

------------------------------------------------------------------------------
(* One call.  at[k] is the parser before byte k + 1 and how many bytes the    *)
(* header took; the content starts where the header's loop is left.           *)
Header(h, px) ==
  LET at[k \in 0..Len(px)] ==
        IF k = 0 THEN [http |-> [h EXCEPT !.scanning = FALSE], offset |-> 0]
        ELSE LET before == at[k - 1]
             IN IF before.http.state \in BodyStates THEN before
                ELSE [http |-> HeaderByte(before.http, px[k]), offset |-> k]
  IN at[Len(px)]

(* Mutant for ImplementsResponseCounter: what earlier calls have consumed of  *)
(* the content is forgotten when the end is looked for.                       *)
ContentMutant(h, offset, given) ==
  LET limit  == (offset + h.content_length) % Wide
      length == IF h.is_content_length_seen /\ given > limit THEN limit ELSE given
      total  == (h.content_seen + length - offset) % Wide
      done   == \/ h.state = "DONE_PARSING"
                \/ h.is_content_length_seen /\ h.content_length = total
  IN [ http    |-> [h EXCEPT !.content_seen = total,
                             !.state = IF done THEN "DONE_PARSING" ELSE @],
       count   |-> length,
       is_done |-> done ]

(* The content: no byte past content_length is consumed.  The arithmetic is   *)
(* unsigned, it wraps.                                                        *)
Content(h, offset, given) ==
  LET limit  == (offset + h.content_length - h.content_seen) % Wide
      length == IF h.is_content_length_seen /\ given > limit THEN limit ELSE given
      total  == (h.content_seen + length - offset) % Wide
      done   == \/ h.state = "DONE_PARSING"
                \/ h.is_content_length_seen /\ h.content_length = total
  IN [ http    |-> [h EXCEPT !.content_seen = total,
                             !.state = IF done THEN "DONE_PARSING" ELSE @],
       count   |-> length,
       is_done |-> done ]

http_rsp_parse(h, px) ==
  LET header == Header(h, px)
  IN IF header.http.state \in BodyStates
     THEN Content(header.http, header.offset, Len(px))
     ELSE [http |-> header.http, count |-> Len(px), is_done |-> FALSE]
==============================================================================
