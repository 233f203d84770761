--------------------------- MODULE ResponseStream ----------------------------
(***************************************************************************)
(* The parser at work on one connection: a server sends a response, recv() *)
(* cuts the stream where it likes, and the worker reacts to the result of  *)
(* each call as main.c:420-455 does.                                       *)
(***************************************************************************)
EXTENDS HttpResponse

CONSTANTS
  Texts,      \* what servers send: [bytes, length], length being that of the
              \* response the bytes begin with, header included,
              \* or 0 when the header promises none
  BufLen      \* the most recv() returns at once

ASSUME ResponseStreamAssumption ==
  /\ BufLen \in Nat
  /\ \A t \in Texts :
       LET bytes == {t.bytes[k] : k \in DOMAIN t.bytes}
       IN t.length \in Nat /\ t.bytes \in Seq(bytes) /\ \A b \in bytes : b.value \in Nat

VARIABLES
  text,       \* what the server sends this time
  pos,        \* how much of it was received
  http,       \* info->http
  outcome,    \* what the worker makes of the last result
  calls       \* calls of the parser since it reported the end of this response

vars == <<text, pos, http, outcome, calls>>

TypeOK ==
  /\ text \in Texts
  /\ pos \in 0..Len(text.bytes)
  /\ http \in Http
  /\ outcome \in {"reading", "complete", "overrun"}
  /\ calls \in 0..1

Init ==
  /\ text \in Texts
  /\ pos = 0
  /\ http = Cleared
  /\ outcome = "reading"
  /\ calls = 0

(* recv() returns some bytes and the parser is called with them.  When the    *)
(* request could not be sent again at once the parser is not cleared and a    *)
(* further call follows the one that reported the end (main.c:442-450).       *)
Recv ==
  /\ outcome # "overrun" /\ calls = 0
  /\ \E bytes \in 1..BufLen :
       /\ pos + bytes <= Len(text.bytes)
       /\ LET result == http_rsp_parse(http, SubSeq(text.bytes, pos + 1, pos + bytes))
          IN /\ http' = result.http
             /\ outcome' = IF result.count < bytes THEN "overrun"
                           ELSE IF result.is_done THEN "complete" ELSE "reading"
       /\ pos' = pos + bytes
  /\ calls' = IF outcome = "complete" THEN 1 ELSE 0
  /\ UNCHANGED text

(* _connection_recv_init(), and the server answers the next request. *)
Clear ==
  /\ outcome = "complete" /\ calls = 0
  /\ text' \in Texts
  /\ pos' = 0
  /\ http' = Cleared
  /\ outcome' = "reading"
  /\ UNCHANGED calls

Next == Recv \/ Clear

Spec == Init /\ [][Next]_vars

------------------------------------------------------------------------------
Counter == INSTANCE ResponseCounter WITH
  Most   <- BufLen,
  length <- text.length,
  seen   <- IF pos < text.length THEN pos ELSE text.length

(* However the stream is cut, the parser consumes exactly the response and    *)
(* reports its end with its last byte.                                        *)
ImplementsResponseCounter == Counter!Spec

(* What the worker and the self test see of the parser. *)
Visible(h) ==
  << h.state, h.response_code, h.content_length, h.content_seen,
     h.is_error, h.is_content_length_seen >>

(* Byte by byte or all at once, the parser comes to the same result           *)
(* (http-response.c:100-106).                                                 *)
FragmentationIndependent ==
  /\ TypeOK
  /\ calls = 0 =>
       Visible(http) = Visible(http_rsp_parse(Cleared, SubSeq(text.bytes, 1, pos)).http)

------------------------------------------------------------------------------
(* What the theorems suppose of the texts, and TLC's texts fulfil.  A CR ends *)
(* a line: elsewhere it is skipped as the first byte of a buffer and not      *)
(* further into one.  The sum of a header's size and the length it promises   *)
(* is less than 2^64: the parser adds them.                                   *)
CRsEndLines ==
  \A t \in Texts : \A k \in 1..(Len(t.bytes) - 1) :
    Is(t.bytes[k], CR) => Is(t.bytes[k + 1], LF)

LengthsFit ==
  \A t \in Texts :
    LET header == Header(Cleared, t.bytes)
    IN /\ Len(t.bytes) < Wide
       /\ header.http.state \in BodyStates => header.offset + header.http.content_length < Wide

(* A text with a length has a header that says so. *)
Measured ==
  \A t \in Texts :
    LET header == Header(Cleared, t.bytes)
    IN t.length > 0 =>
         /\ header.http.state = "CONTENT" /\ header.http.is_content_length_seen
         /\ t.length = header.offset + header.http.content_length
==============================================================================
