------------------------- MODULE HttpResponse_proofs -------------------------
(***************************************************************************)
(* The parser at work on a connection: its result does not depend on how   *)
(* the stream is cut, and it consumes exactly the response.  A parser that *)
(* got the text in pieces is compared with one that got all of it, first   *)
(* byte by byte in the header, then in what they count of the content.     *)
(***************************************************************************)
EXTENDS ResponseStream, Induction, SequenceTheorems

-------------------------------------------------------------------------------
(* One byte. *)

LEMMA BytesPerState ==
  ASSUME NEW h, NEW b
  PROVE  /\ h.state = "MAGIC"                => HeaderByte(h, b) = InMagic(h, b)
         /\ h.state = "VER_HI"               => HeaderByte(h, b) = InVersionHigh(h, b)
         /\ h.state = "VER_LOW"              => HeaderByte(h, b) = InVersionLow(h, b)
         /\ h.state = "RSP_CODE_START"       => HeaderByte(h, b) = InCodeStart(h, b)
         /\ h.state = "RSP_CODE"             => HeaderByte(h, b) = InCode(h, b)
         /\ h.state = "RSP_CODE_END"         => HeaderByte(h, b) = InCodeEnd(h, b)
         /\ h.state = "FIELD_START"          => HeaderByte(h, b) = InFieldStart(h, b)
         /\ h.state = "FIELD_NAME"           => HeaderByte(h, b) = InName(h, b)
         /\ h.state = "FIELD_COLON"          => HeaderByte(h, b) = InColon(h, b)
         /\ h.state = "FIELD_VALUE_CONTENTS" => HeaderByte(h, b) = InValue(h, b)
         /\ h.state = "FIELD_VALUE_END"      => HeaderByte(h, b) = InValueEnd(h, b)
BY DEF HeaderByte

LEMMA ToType ==
  ASSUME NEW h \in Http, NEW state \in HeaderStates \cup BodyStates
  PROVE  To(h, state) \in Http
BY DEF To, Http

LEMMA BrokenType == ASSUME NEW h \in Http PROVE Broken(h) \in Http
BY DEF Broken, To, Http, HeaderStates, BodyStates

LEMMA MagicType == ASSUME NEW h \in Http, NEW b PROVE InMagic(h, b) \in Http
<1>1. CASE ~Is(b, Magic[h.matched + 1])
  BY <1>1, BrokenType DEF InMagic
<1>2. CASE Is(b, Magic[h.matched + 1])
  <2> DEFINE m == IF h.matched + 1 = Len(Magic) THEN 0 ELSE h.matched + 1
             s == IF h.matched + 1 = Len(Magic) THEN "VER_HI" ELSE h.state
  <2>1. InMagic(h, b) = [h EXCEPT !.is_error = FALSE, !.content_length = 0, !.matched = m, !.state = s]
    BY <1>2 DEF InMagic
  <2>2. m \in {Mismatch} \cup Nat /\ s \in HeaderStates \cup BodyStates /\ 0 \in 0..(Wide - 1)
    BY HttpResponseAssumption DEF Http, Mismatch, HeaderStates
  <2> HIDE DEF m, s
  <2> QED BY <2>1, <2>2 DEF Http
<1> QED BY <1>1, <1>2

LEMMA NameType == ASSUME NEW h \in Http, NEW b PROVE InName(h, b) \in Http
<1> DEFINE matches == h.matched # Mismatch /\ Is(b, LengthName[h.matched + 1])
           known   == matches /\ h.matched + 1 = Len(LengthName)
           m       == IF matches THEN h.matched + 1 ELSE Mismatch
<1>1. /\ known \in BOOLEAN /\ m \in {Mismatch} \cup Nat
      /\ \A s \in {"FIELD_START", "FIELD_COLON"} : s \in HeaderStates \cup BodyStates
  BY DEF Http, Mismatch, HeaderStates
<1>2. \/ InName(h, b) = h \/ InName(h, b) = To(h, "FIELD_START")
      \/ InName(h, b) = [To(h, "FIELD_COLON") EXCEPT !.is_length = known]
      \/ InName(h, b) = [h EXCEPT !.scanning = TRUE, !.matched = m]
  BY Zenon DEF InName
<1> HIDE DEF known, m
<1>3. To(h, "FIELD_START") \in Http /\ To(h, "FIELD_COLON") \in Http
  BY <1>1, ToType
<1>4. [To(h, "FIELD_COLON") EXCEPT !.is_length = known] \in Http
  BY <1>1, <1>3 DEF Http
<1>5. [h EXCEPT !.scanning = TRUE, !.matched = m] \in Http
  BY <1>1 DEF Http
<1> QED BY <1>2, <1>3, <1>4, <1>5

LEMMA CodeType == ASSUME NEW h \in Http, NEW b, b.value \in Nat PROVE InCode(h, b) \in Http
<1> DEFINE r == (10 * h.response_code + b.value) % 65536
<1>1. r \in Nat
  BY DEF Http
<1> HIDE DEF r
<1>2. [h EXCEPT !.response_code = r] \in Http
  BY <1>1 DEF Http
<1>3. To(h, "FIELD_START") \in Http /\ To(h, "RSP_CODE_END") \in Http
  BY ToType DEF HeaderStates
<1>4. [To(h, "FIELD_START") EXCEPT !.response_code = 0] \in Http
  BY <1>3 DEF Http
<1> QED BY <1>2, <1>3, <1>4 DEF InCode, r

LEMMA ValueType == ASSUME NEW h \in Http, NEW b, b.value \in Nat PROVE InValue(h, b) \in Http
<1> DEFINE l == (10 * h.content_length + b.value) % Wide
<1>1. l \in 0..(Wide - 1)
  BY HttpResponseAssumption DEF Http
<1> HIDE DEF l
<1>2. [h EXCEPT !.content_length = l] \in Http
  BY <1>1 DEF Http
<1>3. To(h, "FIELD_START") \in Http /\ To(h, "FIELD_VALUE_END") \in Http
  BY ToType DEF HeaderStates
<1> QED BY <1>2, <1>3 DEF InValue, l

LEMMA ColonType == ASSUME NEW h \in Http, NEW b, b.value \in Nat PROVE InColon(h, b) \in Http
<1> DEFINE l == b.value % Wide
<1>1. l \in 0..(Wide - 1) /\ 0 \in 0..(Wide - 1)
  BY HttpResponseAssumption
<1> HIDE DEF l
<1>2. To(h, "FIELD_START") \in Http /\ To(h, "FIELD_VALUE_END") \in Http /\ To(h, "FIELD_VALUE_CONTENTS") \in Http
  BY ToType DEF HeaderStates
<1>3. [To(h, "FIELD_VALUE_CONTENTS") EXCEPT !.is_content_length_seen = TRUE, !.content_length = l] \in Http
  BY <1>1, <1>2 DEF Http
<1>4. [To(h, "FIELD_VALUE_END") EXCEPT !.content_length = 0] \in Http
  BY <1>1, <1>2 DEF Http
<1> QED BY <1>2, <1>3, <1>4 DEF InColon, l

LEMMA FieldStartType == ASSUME NEW h \in Http, NEW b PROVE InFieldStart(h, b) \in Http
<1>1. To(h, "CONTENT") \in Http /\ To(h, "FIELD_NAME") \in Http
  BY ToType DEF HeaderStates, BodyStates
<1> DEFINE c == To(h, "CONTENT")
<1>2. [c EXCEPT !.content_seen = 0] \in Http
  <2>1. c \in Http /\ 0 \in 0..(Wide - 1)
    BY <1>1, HttpResponseAssumption
  <2> HIDE DEF c
  <2> QED BY <2>1 DEF Http
<1> DEFINE g == To(h, "FIELD_NAME")
<1>3. [g EXCEPT !.matched = 0] \in Http
  <2>1. g \in Http
    BY <1>1
  <2> HIDE DEF g
  <2> QED BY <2>1 DEF Http
<1>4. InName([To(h, "FIELD_NAME") EXCEPT !.matched = 0], b) \in Http
  BY <1>3, NameType
<1> QED BY <1>2, <1>4 DEF InFieldStart

LEMMA OtherTypes ==
  ASSUME NEW h \in Http, NEW b, b.value \in Nat
  PROVE  /\ InVersionHigh(h, b) \in Http /\ InVersionLow(h, b) \in Http /\ InCodeStart(h, b) \in Http
         /\ InCodeEnd(h, b) \in Http /\ InValueEnd(h, b) \in Http
<1>0. \A s \in {"VER_LOW", "RSP_CODE_START", "RSP_CODE", "RSP_CODE_END", "FIELD_START"} :
        s \in HeaderStates \cup BodyStates
  BY DEF HeaderStates
<1>1. /\ To(h, "VER_LOW") \in Http /\ To(h, "RSP_CODE_START") \in Http /\ To(h, "RSP_CODE") \in Http
      /\ To(h, "RSP_CODE_END") \in Http /\ To(h, "FIELD_START") \in Http
  BY <1>0, ToType
<1>2. [To(h, "RSP_CODE") EXCEPT !.response_code = b.value] \in Http
  BY <1>1 DEF Http
<1>3. [To(h, "RSP_CODE_END") EXCEPT !.response_code = 0] \in Http
  BY <1>1 DEF Http
<1> DEFINE g == To(h, "FIELD_START")
<1>4. [g EXCEPT !.content_length = 0, !.is_content_length_seen = FALSE] \in Http
  <2>1. g \in Http /\ 0 \in 0..(Wide - 1)
    BY <1>1, HttpResponseAssumption
  <2> HIDE DEF g
  <2> QED BY <2>1 DEF Http
<1>5. Broken(h) \in Http
  BY BrokenType
<1>6. InVersionHigh(h, b) \in Http /\ InVersionLow(h, b) \in Http
  BY <1>1, <1>5 DEF InVersionHigh, InVersionLow
<1>7. InCodeStart(h, b) \in Http
  BY <1>2, <1>3 DEF InCodeStart
<1>8. InCodeEnd(h, b) \in Http /\ InValueEnd(h, b) \in Http
  BY <1>1, <1>4 DEF InCodeEnd, InValueEnd
<1> QED BY <1>6, <1>7, <1>8

LEMMA ByteType ==
  ASSUME NEW h \in Http, h.state \in HeaderStates, NEW b, b.value \in Nat
  PROVE  HeaderByte(h, b) \in Http
<1>1. /\ InMagic(h, b) \in Http /\ InName(h, b) \in Http /\ InCode(h, b) \in Http
      /\ InValue(h, b) \in Http /\ InColon(h, b) \in Http /\ InFieldStart(h, b) \in Http
  BY MagicType, NameType, CodeType, ValueType, ColonType, FieldStartType
<1>2. /\ InVersionHigh(h, b) \in Http /\ InVersionLow(h, b) \in Http /\ InCodeStart(h, b) \in Http
      /\ InCodeEnd(h, b) \in Http /\ InValueEnd(h, b) \in Http
  BY OtherTypes
<1> QED BY <1>1, <1>2, BytesPerState DEF HeaderStates

-------------------------------------------------------------------------------
(* Two parsers that a cut of the stream tells apart in nothing that matters:  *)
(* how much of a name the matcher has behind it counts only within one, and   *)
(* no more when a CR has ended the line.                                      *)
Alike(h1, h2, ended) ==
  /\ h1.state = h2.state /\ h1.response_code = h2.response_code
  /\ h1.content_length = h2.content_length /\ h1.content_seen = 0 /\ h2.content_seen = 0
  /\ h1.is_error = h2.is_error /\ h1.is_content_length_seen = h2.is_content_length_seen
  /\ h1.is_length = h2.is_length
  /\ (h1.state = "MAGIC" \/ (h1.state = "FIELD_NAME" /\ ~ended)) => h1.matched = h2.matched

LEMMA ToAlike ==
  ASSUME NEW h1 \in Http, NEW h2 \in Http, NEW ended, Alike(h1, h2, ended),
         NEW state, state \notin {"MAGIC", "FIELD_NAME"}, NEW then
  PROVE  Alike(To(h1, state), To(h2, state), then)
BY DEF To, Http, Alike

LEMMA AlikeLater ==
  ASSUME NEW h1 \in Http, NEW h2 \in Http, NEW ended, Alike(h1, h2, ended),
         h1.state \notin {"MAGIC", "FIELD_NAME"}, NEW then
  PROVE  Alike(h1, h2, then)
BY DEF Alike

LEMMA BrokenAlike ==
  ASSUME NEW h1 \in Http, NEW h2 \in Http, NEW ended, Alike(h1, h2, ended), NEW then
  PROVE  Alike(Broken(h1), Broken(h2), then)
BY DEF To, Broken, Http, Alike

LEMMA MagicAlike ==
  ASSUME NEW h1 \in Http, NEW h2 \in Http, NEW ended, Alike(h1, h2, ended), h1.state = "MAGIC",
         NEW b, NEW then
  PROVE  Alike(InMagic(h1, b), InMagic(h2, b), then)
BY BrokenAlike DEF InMagic, Http, Alike

LEMMA NameAlike ==
  ASSUME NEW h1 \in Http, NEW h2 \in Http, NEW ended, Alike(h1, h2, ended), h1.state = "FIELD_NAME",
         NEW b, ended => Is(b, LF)
  PROVE  Alike(InName(h1, b), InName(h2, b), Is(b, CR))
<1> DEFINE Matches(h) == h.matched # Mismatch /\ Is(b, LengthName[h.matched + 1])
           Known(h)   == Matches(h) /\ h.matched + 1 = Len(LengthName)
           M(h)       == IF Matches(h) THEN h.matched + 1 ELSE Mismatch
           Colon(h)   == [To(h, "FIELD_COLON") EXCEPT !.is_length = Known(h)]
           On(h)      == [h EXCEPT !.scanning = TRUE, !.matched = M(h)]
<1>1. \A h : InName(h, b) = IF Is(b, CR) /\ ~h.scanning THEN h
                           ELSE IF Is(b, LF) THEN To(h, "FIELD_START")
                           ELSE IF Is(b, ":") THEN Colon(h) ELSE On(h)
  BY DEF InName
<1>2. CASE Is(b, CR)
  <2>1. ~Is(b, LF) /\ ~Is(b, ":")
    BY <1>2 DEF Is, CR, LF
  <2> HIDE DEF Colon, M
  <2>2. \A g1, g2 : g1 \in {h1, On(h1)} /\ g2 \in {h2, On(h2)} => Alike(g1, g2, TRUE)
    BY DEF Alike, Http
  <2> HIDE DEF On
  <2>3. Alike(InName(h1, b), InName(h2, b), TRUE)
    BY <1>1, <1>2, <2>1, <2>2
  <2> QED BY <1>2, <2>3 DEF Alike
<1>3. CASE Is(b, LF)
  <2>1. ~Is(b, CR)
    BY <1>3 DEF Is, CR, LF
  <2>2. InName(h1, b) = To(h1, "FIELD_START") /\ InName(h2, b) = To(h2, "FIELD_START")
    BY <1>1, <1>3, <2>1
  <2> QED BY <2>2, ToAlike
<1>4. CASE Is(b, ":")
  <2>1. ~Is(b, CR) /\ ~Is(b, LF)
    BY <1>4 DEF Is, CR, LF
  <2>2. h1.matched = h2.matched
    BY <2>1 DEF Alike
  <2>3. InName(h1, b) = Colon(h1) /\ InName(h2, b) = Colon(h2) /\ Known(h1) = Known(h2)
    BY <1>1, <1>4, <2>1, <2>2
  <2>4. Alike(To(h1, "FIELD_COLON"), To(h2, "FIELD_COLON"), FALSE)
    BY ToAlike
  <2> HIDE DEF Known
  <2>5. Alike(Colon(h1), Colon(h2), Is(b, CR))
    BY <2>3 DEF Alike, Http, To
  <2> QED BY <2>3, <2>5
<1>5. CASE ~Is(b, CR) /\ ~Is(b, LF) /\ ~Is(b, ":")
  <2>1. h1.matched = h2.matched
    BY <1>5 DEF Alike
  <2>2. InName(h1, b) = On(h1) /\ InName(h2, b) = On(h2) /\ M(h1) = M(h2)
    BY <1>1, <1>5, <2>1
  <2> HIDE DEF M
  <2>3. Alike(On(h1), On(h2), Is(b, CR))
    BY <2>2 DEF Alike, Http
  <2> QED BY <2>2, <2>3
<1> QED BY <1>2, <1>3, <1>4, <1>5

LEMMA VersionAlike ==
  ASSUME NEW h1 \in Http, NEW h2 \in Http, NEW ended, Alike(h1, h2, ended), NEW b, NEW then
  PROVE  /\ h1.state = "VER_HI"  => Alike(InVersionHigh(h1, b), InVersionHigh(h2, b), then)
         /\ h1.state = "VER_LOW" => Alike(InVersionLow(h1, b), InVersionLow(h2, b), then)
BY ToAlike, BrokenAlike, AlikeLater DEF InVersionHigh, InVersionLow

LEMMA CodeAlike ==
  ASSUME NEW h1 \in Http, NEW h2 \in Http, NEW ended, Alike(h1, h2, ended),
         h1.state \notin {"MAGIC", "FIELD_NAME"}, NEW b, NEW then
  PROVE  /\ Alike(InCodeStart(h1, b), InCodeStart(h2, b), then)
         /\ Alike(InCode(h1, b), InCode(h2, b), then)
         /\ Alike(InCodeEnd(h1, b), InCodeEnd(h2, b), then)
<1> DEFINE r == (10 * h1.response_code + b.value) % 65536
           C1 == To(h1, "RSP_CODE")
           C2 == To(h2, "RSP_CODE")
           E1 == To(h1, "RSP_CODE_END")
           E2 == To(h2, "RSP_CODE_END")
           S1 == To(h1, "FIELD_START")
           S2 == To(h2, "FIELD_START")
<1>1. Alike(h1, h2, then)
  BY AlikeLater
<1>2. Alike(C1, C2, then) /\ Alike(E1, E2, then) /\ Alike(S1, S2, then)
  BY ToAlike
<1>3. C1 \in Http /\ C2 \in Http /\ E1 \in Http /\ E2 \in Http /\ S1 \in Http /\ S2 \in Http
  BY ToType DEF HeaderStates
<1>4. r = (10 * h2.response_code + b.value) % 65536
  BY DEF Alike
<1> DEFINE N1 == [C1 EXCEPT !.response_code = b.value]
           N2 == [C2 EXCEPT !.response_code = b.value]
           X1 == [E1 EXCEPT !.response_code = 0]
           X2 == [E2 EXCEPT !.response_code = 0]
           R1 == [h1 EXCEPT !.response_code = r]
           R2 == [h2 EXCEPT !.response_code = r]
           Y1 == [S1 EXCEPT !.response_code = 0]
           Y2 == [S2 EXCEPT !.response_code = 0]
           Z1 == [S1 EXCEPT !.content_length = 0, !.is_content_length_seen = FALSE]
           Z2 == [S2 EXCEPT !.content_length = 0, !.is_content_length_seen = FALSE]
<1>5. /\ InCodeStart(h1, b) = IF IsDigit(b) THEN N1 ELSE IF IsSpace(b) THEN h1 ELSE X1
      /\ InCodeStart(h2, b) = IF IsDigit(b) THEN N2 ELSE IF IsSpace(b) THEN h2 ELSE X2
  BY DEF InCodeStart
<1>6. /\ InCode(h1, b) = IF IsDigit(b) THEN R1 ELSE IF Is(b, LF) THEN Y1 ELSE E1
      /\ InCode(h2, b) = IF IsDigit(b) THEN R2 ELSE IF Is(b, LF) THEN Y2 ELSE E2
  BY <1>4 DEF InCode
<1>7. /\ InCodeEnd(h1, b) = IF Is(b, LF) THEN Z1 ELSE h1
      /\ InCodeEnd(h2, b) = IF Is(b, LF) THEN Z2 ELSE h2
  BY DEF InCodeEnd
<1> HIDE DEF r, C1, C2, E1, E2, S1, S2
<1>8. Alike(N1, N2, then) /\ Alike(X1, X2, then)
  BY <1>2, <1>3 DEF Alike, Http
<1>9. Alike(R1, R2, then) /\ Alike(Y1, Y2, then)
  BY <1>1, <1>2, <1>3 DEF Alike, Http
<1>10. Alike(Z1, Z2, then)
  BY <1>2, <1>3 DEF Alike, Http
<1> HIDE DEF N1, N2, X1, X2, R1, R2, Y1, Y2, Z1, Z2
<1> QED BY <1>1, <1>2, <1>5, <1>6, <1>7, <1>8, <1>9, <1>10

LEMMA ValueAlike ==
  ASSUME NEW h1 \in Http, NEW h2 \in Http, NEW ended, Alike(h1, h2, ended),
         h1.state \notin {"MAGIC", "FIELD_NAME"}, NEW b, NEW then
  PROVE  /\ Alike(InColon(h1, b), InColon(h2, b), then)
         /\ Alike(InValue(h1, b), InValue(h2, b), then)
         /\ Alike(InValueEnd(h1, b), InValueEnd(h2, b), then)
<1> DEFINE l == (10 * h1.content_length + b.value) % Wide
           d == b.value % Wide
           V1 == To(h1, "FIELD_VALUE_CONTENTS")
           V2 == To(h2, "FIELD_VALUE_CONTENTS")
           E1 == To(h1, "FIELD_VALUE_END")
           E2 == To(h2, "FIELD_VALUE_END")
           S1 == To(h1, "FIELD_START")
           S2 == To(h2, "FIELD_START")
<1>1. Alike(h1, h2, then) /\ h1.is_length = h2.is_length
  BY AlikeLater DEF Alike
<1>2. Alike(V1, V2, then) /\ Alike(E1, E2, then) /\ Alike(S1, S2, then)
  BY ToAlike
<1>3. V1 \in Http /\ V2 \in Http /\ E1 \in Http /\ E2 \in Http /\ S1 \in Http /\ S2 \in Http
  BY ToType DEF HeaderStates
<1>4. l = (10 * h2.content_length + b.value) % Wide
  BY DEF Alike
<1> DEFINE D1 == [V1 EXCEPT !.is_content_length_seen = TRUE, !.content_length = d]
           D2 == [V2 EXCEPT !.is_content_length_seen = TRUE, !.content_length = d]
           Z1 == [E1 EXCEPT !.content_length = 0]
           Z2 == [E2 EXCEPT !.content_length = 0]
           L1 == [h1 EXCEPT !.content_length = l]
           L2 == [h2 EXCEPT !.content_length = l]
<1>5. /\ InColon(h1, b) = IF Is(b, LF) THEN S1 ELSE IF IsSpace(b) THEN h1
                          ELSE IF ~h1.is_length THEN V1 ELSE IF IsDigit(b) THEN D1 ELSE Z1
      /\ InColon(h2, b) = IF Is(b, LF) THEN S2 ELSE IF IsSpace(b) THEN h2
                          ELSE IF ~h2.is_length THEN V2 ELSE IF IsDigit(b) THEN D2 ELSE Z2
  BY DEF InColon
<1>6. /\ InValue(h1, b) = IF Is(b, LF) THEN S1 ELSE IF ~h1.is_length THEN h1
                          ELSE IF IsDigit(b) THEN L1 ELSE E1
      /\ InValue(h2, b) = IF Is(b, LF) THEN S2 ELSE IF ~h2.is_length THEN h2
                          ELSE IF IsDigit(b) THEN L2 ELSE E2
  BY <1>4 DEF InValue
<1>7. /\ InValueEnd(h1, b) = IF Is(b, LF) THEN S1 ELSE h1
      /\ InValueEnd(h2, b) = IF Is(b, LF) THEN S2 ELSE h2
  BY DEF InValueEnd
<1> HIDE DEF l, d, V1, V2, E1, E2, S1, S2
<1>8. Alike(D1, D2, then)
  BY <1>2, <1>3 DEF Alike, Http
<1>9. Alike(Z1, Z2, then) /\ Alike(L1, L2, then)
  BY <1>1, <1>2, <1>3 DEF Alike, Http
<1> HIDE DEF D1, D2, Z1, Z2, L1, L2
<1> QED BY <1>1, <1>2, <1>5, <1>6, <1>7, <1>8, <1>9

LEMMA FieldStartAlike ==
  ASSUME NEW h1 \in Http, NEW h2 \in Http, NEW ended, Alike(h1, h2, ended), h1.state = "FIELD_START",
         NEW b
  PROVE  Alike(InFieldStart(h1, b), InFieldStart(h2, b), Is(b, CR))
<1> DEFINE N(h) == [To(h, "FIELD_NAME") EXCEPT !.matched = 0]
           C(h) == [To(h, "CONTENT") EXCEPT !.content_seen = 0]
<1>1. \A h : InFieldStart(h, b) = IF Is(b, CR) THEN h ELSE IF Is(b, LF) THEN C(h) ELSE InName(N(h), b)
  BY DEF InFieldStart
<1>2. Alike(h1, h2, Is(b, CR))
  BY AlikeLater
<1>3. Alike(C(h1), C(h2), Is(b, CR))
  <2>1. Alike(To(h1, "CONTENT"), To(h2, "CONTENT"), Is(b, CR))
    BY ToAlike
  <2> QED BY <2>1 DEF Alike, To, Http
<1>4. Alike(N(h1), N(h2), FALSE) /\ N(h1).state = "FIELD_NAME"
  BY DEF Alike, To, Http
<1>5. N(h1) \in Http /\ N(h2) \in Http
  <2>1. To(h1, "FIELD_NAME") \in Http /\ To(h2, "FIELD_NAME") \in Http
    BY ToType DEF HeaderStates
  <2> QED BY <2>1 DEF Http
<1> HIDE DEF N, C
<1>6. Alike(InName(N(h1), b), InName(N(h2), b), Is(b, CR))
  BY <1>4, <1>5, NameAlike
<1> QED BY <1>1, <1>2, <1>3, <1>6

(* A byte keeps two such parsers alike, when a CR is followed by LF. *)
LEMMA ByteAlike ==
  ASSUME NEW h1 \in Http, NEW h2 \in Http, NEW ended, Alike(h1, h2, ended),
         h1.state \in HeaderStates, NEW b, ended => Is(b, LF)
  PROVE  Alike(HeaderByte(h1, b), HeaderByte(h2, b), Is(b, CR))
<1>1. h2.state = h1.state
  BY DEF Alike
<1>2. CASE h1.state = "MAGIC"
  BY <1>1, <1>2, BytesPerState, MagicAlike
<1>3. CASE h1.state = "FIELD_NAME"
  BY <1>1, <1>3, BytesPerState, NameAlike
<1>4. CASE h1.state = "FIELD_START"
  BY <1>1, <1>4, BytesPerState, FieldStartAlike
<1>5. CASE h1.state \in {"VER_HI", "VER_LOW"}
  BY <1>1, <1>5, BytesPerState, VersionAlike
<1>6. CASE h1.state \in {"RSP_CODE_START", "RSP_CODE", "RSP_CODE_END"}
  BY <1>1, <1>6, BytesPerState, CodeAlike
<1>7. CASE h1.state \in {"FIELD_COLON", "FIELD_VALUE_CONTENTS", "FIELD_VALUE_END"}
  BY <1>1, <1>7, BytesPerState, ValueAlike
<1> QED BY <1>2, <1>3, <1>4, <1>5, <1>6, <1>7 DEF HeaderStates

-------------------------------------------------------------------------------
(* The loop of the header: what the parser is after each byte. *)
Start(h) == [http |-> [h EXCEPT !.scanning = FALSE], offset |-> 0]

HeaderStep(r, b, k) ==
  IF r.http.state \in BodyStates THEN r ELSE [http |-> HeaderByte(r.http, b), offset |-> k]

IsRun(f, h, px) ==
  f[0] = Start(h) /\ \A k \in 1..Len(px) : f[k] = HeaderStep(f[k - 1], px[k], k)

LEMMA HeaderRun ==
  ASSUME NEW h, NEW S, NEW px \in Seq(S)
  PROVE  \E f : IsRun(f, h, px) /\ f[Len(px)] = Header(h, px)
<1> DEFINE N == Len(px)
           Turn(g, k) == IF k = 0 THEN Start(h) ELSE HeaderStep(g[k - 1], px[k], k)
           UpTo(g, n) == g = [k \in 0..n |-> Turn(g, k)]
           f == CHOOSE g : UpTo(g, N)
<1>1. N \in Nat
  OBVIOUS
<1>2. Header(h, px) = f[N]
  BY DEF Header, Start, HeaderStep
<1> HIDE DEF N
<1>3. \E g : UpTo(g, N)
  <2> DEFINE R == {n \in Nat : \E g : UpTo(g, n)}
  <2>1. 0 \in R
    <3>1. UpTo([k \in 0..0 |-> Start(h)], 0)
      OBVIOUS
    <3> QED BY <3>1
  <2>2. ASSUME NEW n \in Nat, n \in R PROVE n + 1 \in R
    <3>1. PICK g : UpTo(g, n)
      BY <2>2
    <3> DEFINE e == [k \in 0..(n + 1) |-> IF k <= n THEN g[k] ELSE Turn(g, n + 1)]
    <3>2. \A k \in 0..(n + 1) : e[k] = Turn(e, k)
      <4> SUFFICES ASSUME NEW k \in 0..(n + 1) PROVE e[k] = Turn(e, k)
        OBVIOUS
      <4>1. k # 0 => k - 1 \in 0..n /\ e[k - 1] = g[k - 1]
        OBVIOUS
      <4>2. Turn(e, k) = Turn(g, k)
        <5> HIDE DEF e
        <5> QED BY <4>1
      <4>3. e[k] = Turn(g, k)
        <5>1. CASE k <= n
          <6>1. k \in 0..n /\ e[k] = g[k]
            BY <5>1
          <6> HIDE DEF e, Turn
          <6> QED BY <3>1, <6>1
        <5>2. CASE k = n + 1
          <6> HIDE DEF Turn
          <6> QED BY <5>2
        <5> HIDE DEF Turn, e
        <5> QED BY <5>1, <5>2
      <4> QED BY <4>2, <4>3
    <3>3. e = [k \in 0..(n + 1) |-> e[k]]
      OBVIOUS
    <3> HIDE DEF e, Turn
    <3>4. UpTo(e, n + 1)
      BY <3>2, <3>3
    <3> HIDE DEF UpTo
    <3> QED BY <3>4
  <2> HIDE DEF R
  <2>3. Nat \subseteq R
    BY <2>1, <2>2, NatSetInduction
  <2> QED BY <1>1, <2>3 DEF R
<1>4. UpTo(f, N)
  <2> HIDE DEF UpTo
  <2> QED BY <1>3
<1> HIDE DEF f
<1>5. \A k \in 0..N : f[k] = Turn(f, k)
  <2> HIDE DEF Turn
  <2> QED BY <1>4
<1>6. f[0] = Start(h)
  <2>1. Turn(f, 0) = Start(h)
    BY Zenon
  <2> HIDE DEF Turn
  <2> QED BY <1>1, <1>5, <2>1
<1>7. \A k \in 1..N : f[k] = Turn(f, k) /\ k # 0
  <2> HIDE DEF Turn
  <2> QED BY <1>1, <1>5
<1>8. IsRun(f, h, px)
  BY <1>6, <1>7 DEF IsRun, N
<1> QED BY <1>2, <1>8 DEF N

(* Texts with the same first bytes are parsed alike over these. *)
LEMMA RunsAgree ==
  ASSUME NEW h, NEW f, NEW g, NEW px, NEW py, IsRun(f, h, px), IsRun(g, h, py),
         NEW n \in Nat, n <= Len(px), n <= Len(py), Len(px) \in Nat, Len(py) \in Nat,
         \A k \in 1..n : px[k] = py[k]
  PROVE  f[n] = g[n]
<1> DEFINE R == {k \in Nat : k <= n => f[k] = g[k]}
<1>1. 0 \in R
  BY DEF IsRun
<1>2. ASSUME NEW k \in Nat, k \in R PROVE k + 1 \in R
  <2> SUFFICES ASSUME k + 1 <= n PROVE f[k + 1] = g[k + 1]
    OBVIOUS
  <2>1. f[k] = g[k] /\ k + 1 \in 1..Len(px) /\ k + 1 \in 1..Len(py) /\ px[k + 1] = py[k + 1] /\ (k + 1) - 1 = k
    BY <1>2
  <2>2. f[k + 1] = HeaderStep(f[k], px[k + 1], k + 1) /\ g[k + 1] = HeaderStep(g[k], py[k + 1], k + 1)
    BY <2>1 DEF IsRun
  <2> QED BY <2>1, <2>2
<1> HIDE DEF R
<1>3. Nat \subseteq R
  BY <1>1, <1>2, NatSetInduction
<1> QED BY <1>3 DEF R

(* What a run reaches: a parser, that has taken the bytes so far or has left  *)
(* the header before.                                                         *)
Reached(r, k) ==
  /\ r = [http |-> r.http, offset |-> r.offset] /\ r.http \in Http /\ r.offset \in 0..k
  /\ r.http.state \in HeaderStates => r.offset = k

Bytes(px) == \A k \in 1..Len(px) : px[k].value \in Nat

LEMMA StatesApart == HeaderStates \cap BodyStates = {}
BY DEF HeaderStates, BodyStates

LEMMA StepReaches ==
  ASSUME NEW r, NEW k \in Nat, Reached(r, k), NEW b, b.value \in Nat
  PROVE  Reached(HeaderStep(r, b, k + 1), k + 1)
<1>1. CASE r.http.state \in BodyStates
  <2>1. HeaderStep(r, b, k + 1) = r
    BY <1>1 DEF HeaderStep
  <2> QED BY <1>1, <2>1, StatesApart DEF Reached
<1>2. CASE r.http.state \notin BodyStates
  <2>1. HeaderStep(r, b, k + 1) = [http |-> HeaderByte(r.http, b), offset |-> k + 1]
    BY <1>2 DEF HeaderStep
  <2>2. r.http \in Http /\ r.http.state \in HeaderStates
    BY <1>2 DEF Reached, Http
  <2>3. HeaderByte(r.http, b) \in Http
    BY <2>2, ByteType
  <2> QED BY <2>1, <2>3 DEF Reached
<1> QED BY <1>1, <1>2

LEMMA RunReaches ==
  ASSUME NEW h \in Http, NEW f, NEW px, Len(px) \in Nat, IsRun(f, h, px), Bytes(px),
         h.state \in HeaderStates \/ h.state \in BodyStates
  PROVE  \A k \in 0..Len(px) : Reached(f[k], k)
<1> DEFINE R == {k \in Nat : k <= Len(px) => Reached(f[k], k)}
<1>1. 0 \in R
  <2>1. [h EXCEPT !.scanning = FALSE] \in Http
    BY DEF Http
  <2>2. Reached(Start(h), 0)
    BY <2>1 DEF Reached, Start
  <2> QED BY <2>2 DEF IsRun
<1>2. ASSUME NEW k \in Nat, k \in R PROVE k + 1 \in R
  <2> SUFFICES ASSUME k + 1 <= Len(px) PROVE Reached(f[k + 1], k + 1)
    OBVIOUS
  <2>1. Reached(f[k], k) /\ k + 1 \in 1..Len(px) /\ (k + 1) - 1 = k
    BY <1>2
  <2>2. f[k + 1] = HeaderStep(f[k], px[k + 1], k + 1) /\ px[k + 1].value \in Nat
    BY <2>1 DEF IsRun, Bytes
  <2> QED BY <2>1, <2>2, StepReaches
<1> HIDE DEF R
<1>3. Nat \subseteq R
  BY <1>1, <1>2, NatSetInduction
<1> QED BY <1>3 DEF R

(* The content is never taken for header again. *)
LEMMA RunStays ==
  ASSUME NEW h, NEW f, NEW px, Len(px) \in Nat, IsRun(f, h, px),
         NEW p \in 0..Len(px), f[p].http.state \in BodyStates
  PROVE  \A k \in p..Len(px) : f[k] = f[p]
<1> DEFINE R == {n \in Nat : p + n <= Len(px) => f[p + n] = f[p]}
<1>1. 0 \in R
  OBVIOUS
<1>2. ASSUME NEW n \in Nat, n \in R PROVE n + 1 \in R
  <2> SUFFICES ASSUME p + (n + 1) <= Len(px) PROVE f[p + (n + 1)] = f[p]
    OBVIOUS
  <2> DEFINE k == p + (n + 1)
  <2>1. k \in 1..Len(px) /\ k - 1 = p + n /\ f[p + n] = f[p]
    BY <1>2
  <2> HIDE DEF k
  <2>2. f[k] = HeaderStep(f[p], px[k], k)
    BY <2>1 DEF IsRun
  <2>3. f[k] = f[p]
    BY <2>2 DEF HeaderStep
  <2> QED BY <2>3 DEF k
<1> HIDE DEF R
<1>3. Nat \subseteq R
  BY <1>1, <1>2, NatSetInduction
<1>4. ASSUME NEW k \in p..Len(px) PROVE f[k] = f[p]
  <2>1. k - p \in Nat /\ p + (k - p) = k
    OBVIOUS
  <2>2. k - p \in R
    BY <1>3, <2>1
  <2> QED BY <2>1, <2>2 DEF R
<1> QED BY <1>4

-------------------------------------------------------------------------------
(* A piece of the text, and the text up to the end of the piece. *)
Ended(bytes, p) == p # 0 /\ Is(bytes[p], CR)

Joint(g, f, p, ended) ==
  Alike(g.http, f.http, ended) /\ (g.http.state \in BodyStates => f.offset = p + g.offset)

LEMMA AlikeSame ==
  ASSUME NEW h1, NEW h2, NEW e1, NEW e2, Alike(h1, h2, e1), e1 <=> e2
  PROVE  Alike(h1, h2, e2)
BY DEF Alike

LEMMA RunsAlike ==
  ASSUME NEW bytes, Len(bytes) \in Nat, Bytes(bytes),
         \A k \in 1..(Len(bytes) - 1) : Is(bytes[k], CR) => Is(bytes[k + 1], LF),
         NEW p \in Nat, NEW n \in Nat, p + n <= Len(bytes),
         NEW f, IsRun(f, Cleared, bytes), \A k \in 0..Len(bytes) : Reached(f[k], k),
         NEW piece, Len(piece) = n, \A k \in 1..n : piece[k] = bytes[p + k],
         NEW h \in Http, Alike(h, f[p].http, Ended(bytes, p)), h.state \in HeaderStates,
         NEW g, IsRun(g, h, piece), \A k \in 0..n : Reached(g[k], k)
  PROVE  \A k \in 0..n : Joint(g[k], f[p + k], p, Ended(bytes, p + k))
<1> DEFINE R == {k \in Nat : k <= n => Joint(g[k], f[p + k], p, Ended(bytes, p + k))}
<1>1. 0 \in R
  <2>1. g[0] = Start(h) /\ f[p + 0] = f[p]
    BY DEF IsRun
  <2>2. Alike([h EXCEPT !.scanning = FALSE], f[p].http, Ended(bytes, p))
    BY DEF Alike, Http
  <2>3. [h EXCEPT !.scanning = FALSE].state \notin BodyStates
    BY StatesApart DEF Http
  <2> DEFINE s == [h EXCEPT !.scanning = FALSE]
  <2>4. g[0].http = s /\ Alike(s, f[p].http, Ended(bytes, p)) /\ s.state \notin BodyStates
    BY <2>1, <2>2, <2>3 DEF Start
  <2> HIDE DEF s
  <2>5. Joint(g[0], f[p], p, Ended(bytes, p))
    BY <2>4 DEF Joint
  <2> QED BY <2>1, <2>5
<1>2. ASSUME NEW k \in Nat, k \in R PROVE k + 1 \in R
  <2> SUFFICES ASSUME k + 1 <= n PROVE Joint(g[k + 1], f[p + (k + 1)], p, Ended(bytes, p + (k + 1)))
    OBVIOUS
  <2> DEFINE j == p + k
             b == piece[k + 1]
  <2>1. Joint(g[k], f[j], p, Ended(bytes, j))
    BY <1>2
  <2>2. /\ k \in 0..n /\ k + 1 \in 1..n /\ (k + 1) - 1 = k
        /\ j \in 0..Len(bytes) /\ j + 1 \in 1..Len(bytes) /\ (j + 1) - 1 = j /\ j + 1 = p + (k + 1)
        /\ j # 0 => j \in 1..(Len(bytes) - 1)
    OBVIOUS
  <2>3. b = bytes[j + 1] /\ b.value \in Nat
    BY <2>2 DEF Bytes
  <2> HIDE DEF b, j
  <2>4. g[k + 1] = HeaderStep(g[k], b, k + 1) /\ f[j + 1] = HeaderStep(f[j], b, j + 1)
    BY <2>2, <2>3 DEF IsRun, b
  <2>5. Reached(g[k], k) /\ Reached(f[j], j)
    BY <2>2
  <2>6. g[k].http \in Http /\ f[j].http \in Http /\ Alike(g[k].http, f[j].http, Ended(bytes, j))
    BY <2>1, <2>5 DEF Joint, Reached
  <2>7. g[k].http.state = f[j].http.state
    BY <2>6 DEF Alike
  <2>8. CASE g[k].http.state \in BodyStates
    <3>1. g[k + 1] = g[k] /\ f[j + 1] = f[j]
      BY <2>4, <2>7, <2>8 DEF HeaderStep
    <3>2. Alike(g[k].http, f[j].http, Ended(bytes, j + 1))
      BY <2>6, <2>8, AlikeLater DEF BodyStates
    <3>3. f[j].offset = p + g[k].offset
      BY <2>1, <2>8 DEF Joint
    <3> QED BY <2>2, <3>1, <3>2, <3>3 DEF Joint
  <2>9. CASE g[k].http.state \notin BodyStates
    <3>1. /\ g[k + 1] = [http |-> HeaderByte(g[k].http, b), offset |-> k + 1]
          /\ f[j + 1] = [http |-> HeaderByte(f[j].http, b), offset |-> j + 1]
      BY <2>4, <2>7, <2>9 DEF HeaderStep
    <3>2. g[k].http.state \in HeaderStates
      BY <2>6, <2>9 DEF Http
    <3>3. Ended(bytes, j) => Is(b, LF)
      BY <2>2, <2>3 DEF Ended
    <3>4. Alike(HeaderByte(g[k].http, b), HeaderByte(f[j].http, b), Is(b, CR))
      BY <2>6, <3>2, <3>3, ByteAlike
    <3>5. Is(b, CR) <=> Ended(bytes, j + 1)
      BY <2>2, <2>3 DEF Ended
    <3>6. Alike(HeaderByte(g[k].http, b), HeaderByte(f[j].http, b), Ended(bytes, j + 1))
      BY <3>4, <3>5, AlikeSame
    <3> QED BY <2>2, <3>1, <3>6 DEF Joint, j
  <2> QED BY <2>8, <2>9
<1> HIDE DEF R
<1>3. Nat \subseteq R
  BY <1>1, <1>2, NatSetInduction
<1> QED BY <1>3 DEF R

-------------------------------------------------------------------------------
(* The content. *)
SameHeader(h1, h2) ==
  /\ h1.state = h2.state /\ h1.response_code = h2.response_code
  /\ h1.content_length = h2.content_length /\ h1.is_error = h2.is_error
  /\ h1.is_content_length_seen = h2.is_content_length_seen

(* A parser in the content of a text whose header r is: it has counted the    *)
(* content's bytes, and the length it promises is not reached.                *)
Counting(h, r, p) ==
  /\ h.state = "CONTENT" /\ SameHeader(h, r.http) /\ r.http.content_seen = 0
  /\ r.offset <= p /\ h.content_seen = p - r.offset
  /\ h.is_content_length_seen => h.content_seen < h.content_length

Consumed(c, given) == given - c.count

LEMMA Modulo == ASSUME NEW a \in Nat, NEW w \in Nat, a < w PROVE a % w = a
OBVIOUS

LEMMA ModuloType == ASSUME NEW a \in Int, NEW w \in Nat \ {0} PROVE a % w \in 0..(w - 1)
OBVIOUS

LEMMA ContentType ==
  ASSUME NEW h \in Http, NEW offset \in Nat, NEW given \in Nat
  PROVE  /\ Content(h, offset, given).http \in Http /\ Content(h, offset, given).is_done \in BOOLEAN
         /\ Content(h, offset, given).count \in Int /\ Content(h, offset, given).count <= given
<1> DEFINE toEnd  == offset + h.content_length - h.content_seen
           limit  == toEnd % Wide
           length == IF h.is_content_length_seen /\ given > limit THEN limit ELSE given
           count  == h.content_seen + length - offset
           total  == count % Wide
           done   == \/ h.state = "DONE_PARSING"
                     \/ h.is_content_length_seen /\ h.content_length = total
           state  == IF done THEN "DONE_PARSING" ELSE h.state
<1>1. toEnd \in Int /\ h.content_seen \in Int
  BY DEF Http
<1> HIDE DEF toEnd
<1>2. limit \in 0..(Wide - 1)
  BY <1>1, ModuloType, HttpResponseAssumption
<1> HIDE DEF limit
<1>3. length \in Int /\ length <= given
  BY <1>2
<1>7. count \in Int
  <2> HIDE DEF length
  <2> QED BY <1>1, <1>3
<1> HIDE DEF count
<1>4. total \in 0..(Wide - 1)
  BY <1>7, ModuloType, HttpResponseAssumption
<1>5. Content(h, offset, given).http = [h EXCEPT !.content_seen = total, !.state = state]
      /\ Content(h, offset, given).is_done = done /\ Content(h, offset, given).count = length
  BY DEF Content, toEnd, limit, count
<1> HIDE DEF total
<1>6. state \in HeaderStates \cup BodyStates /\ done \in BOOLEAN
  BY DEF Http, BodyStates
<1> HIDE DEF state
<1> HIDE DEF length
<1> QED BY <1>3, <1>4, <1>5, <1>6 DEF Http

(* What is left of a piece that begins a bytes behind where the whole text    *)
(* does is treated as what is left of the text.                               *)
LEMMA ContentAlike ==
  ASSUME NEW h1 \in Http, NEW h2 \in Http, SameHeader(h1, h2), h2.content_seen = 0,
         NEW a \in Nat, NEW n \in Nat, a <= n, NEW o \in Nat, NEW q \in Nat, o <= q,
         n <= q, q < Wide,
         q - o = h1.content_seen + (n - a),
         h1.is_content_length_seen => h1.content_seen <= h1.content_length,
         o + h1.content_length < Wide
  PROVE  LET c1 == Content(h1, a, n)  c2 == Content(h2, o, q)
         IN /\ Visible(c1.http) = Visible(c2.http)
            /\ c1.is_done <=> c2.is_done
            /\ Consumed(c1, n) = Consumed(c2, q)
            /\ c1.count = n /\ ~c1.is_done /\ h1.state \in BodyStates =>
                 Counting(c1.http, [http |-> h2, offset |-> o], q)
<1> DEFINE L      == h1.content_length
           s      == h1.content_seen
           seen   == h1.is_content_length_seen
           toEnd1 == a + h1.content_length - h1.content_seen
           limit1 == toEnd1 % Wide
           toEnd2 == o + h2.content_length - h2.content_seen
           limit2 == toEnd2 % Wide
           count1 == IF seen /\ n > limit1 THEN limit1 ELSE n
           count2 == IF h2.is_content_length_seen /\ q > limit2 THEN limit2 ELSE q
           taken1 == h1.content_seen + count1 - a
           taken2 == h2.content_seen + count2 - o
<1>1. /\ L \in Nat /\ s \in Nat /\ h2.content_length = L /\ h2.content_seen = 0
      /\ h2.is_content_length_seen = seen /\ seen \in BOOLEAN
  BY HttpResponseAssumption DEF Http, SameHeader
<1>2. toEnd2 = o + L /\ (seen => toEnd1 \in Nat /\ toEnd1 < Wide /\ toEnd1 = a + L - s)
  <2>1. toEnd2 = o + L /\ toEnd1 = a + L - s
    BY <1>1
  <2>2. o + L < Wide /\ Wide \in Nat /\ (seen => s <= L) /\ q - o = s + (n - a)
    BY HttpResponseAssumption
  <2> HIDE DEF toEnd1, toEnd2, L, s, seen
  <2> QED BY <1>1, <2>1, <2>2
<1> HIDE DEF toEnd1, toEnd2
<1>3. limit2 = o + L /\ (seen => limit1 = a + L - s)
  <2>1. toEnd2 \in Nat /\ toEnd2 < Wide /\ Wide \in Nat
    BY <1>1, <1>2, HttpResponseAssumption
  <2>2. limit2 = toEnd2
    BY <2>1, Modulo
  <2>3. ASSUME seen PROVE limit1 = toEnd1
    BY <1>2, <2>1, <2>3, Modulo
  <2> QED BY <1>2, <2>2, <2>3
<1>4. /\ Content(h1, a, n).count = count1 /\ Content(h2, o, q).count = count2
      /\ Content(h1, a, n).is_done = \/ h1.state = "DONE_PARSING"
                                     \/ seen /\ h1.content_length = taken1 % Wide
      /\ Content(h2, o, q).is_done = \/ h2.state = "DONE_PARSING"
                                     \/ h2.is_content_length_seen /\ h2.content_length = taken2 % Wide
  BY DEF Content, toEnd1, toEnd2
<1> DEFINE state1 == IF \/ h1.state = "DONE_PARSING"
                        \/ seen /\ h1.content_length = taken1 % Wide
                     THEN "DONE_PARSING" ELSE h1.state
           state2 == IF \/ h2.state = "DONE_PARSING"
                        \/ h2.is_content_length_seen /\ h2.content_length = taken2 % Wide
                     THEN "DONE_PARSING" ELSE h2.state
           t1 == taken1 % Wide
           t2 == taken2 % Wide
<1>5. /\ Content(h1, a, n).http = [h1 EXCEPT !.content_seen = t1, !.state = state1]
      /\ Content(h2, o, q).http = [h2 EXCEPT !.content_seen = t2, !.state = state2]
  BY DEF Content, toEnd1, toEnd2
<1> HIDE DEF limit1, limit2
<1>6. /\ count1 = n => taken1 = q - o /\ (seen => q - o <= L)
      /\ n - count1 = q - count2
      /\ taken1 = taken2
  <2>1. CASE ~seen
    <3>1. count1 = n /\ count2 = q
      BY <1>1, <2>1
    <3> HIDE DEF count1, count2
    <3> QED BY <1>1, <2>1, <3>1
  <2>2. CASE seen /\ q > o + L
    <3>1. count1 = a + L - s /\ count2 = o + L
      BY <1>1, <1>3, <2>2
    <3> HIDE DEF count1, count2
    <3> QED BY <1>1, <2>2, <3>1
  <2>3. CASE seen /\ q <= o + L
    <3>1. count1 = n /\ count2 = q
      BY <1>1, <1>3, <2>3
    <3> HIDE DEF count1, count2
    <3> QED BY <1>1, <2>3, <3>1
  <2> HIDE DEF count1, count2, taken1, taken2
  <2> QED BY <1>1, <2>1, <2>2, <2>3
<1> HIDE DEF count1, count2, taken1, taken2
<1>7. q - o \in Nat /\ q - o < Wide
  BY HttpResponseAssumption
<1>8. t1 = t2 /\ (count1 = n => t1 = q - o)
  BY <1>6, <1>7, Modulo, HttpResponseAssumption
<1>9. h2.state = h1.state /\ h2.content_length = h1.content_length
  BY DEF SameHeader
<1>10. state1 = state2 /\ (Content(h1, a, n).is_done <=> Content(h2, o, q).is_done)
  BY <1>1, <1>4, <1>8, <1>9
<1> HIDE DEF t1, t2, state1, state2
<1>11. Visible(Content(h1, a, n).http) = Visible(Content(h2, o, q).http)
  BY <1>5, <1>8, <1>10 DEF Visible, Http, SameHeader
<1>12. ASSUME count1 = n, ~Content(h1, a, n).is_done, h1.state \in BodyStates
       PROVE  Counting(Content(h1, a, n).http, [http |-> h2, offset |-> o], q)
  <2>1. t1 = q - o /\ h1.state = "CONTENT" /\ state1 = "CONTENT" /\ (seen => t1 < L)
    BY <1>1, <1>4, <1>6, <1>8, <1>12 DEF BodyStates, state1, t1
  <2>2. /\ Content(h1, a, n).http.state = state1 /\ Content(h1, a, n).http.content_seen = t1
        /\ Content(h1, a, n).http.content_length = h1.content_length
        /\ Content(h1, a, n).http.response_code = h1.response_code
        /\ Content(h1, a, n).http.is_error = h1.is_error
        /\ Content(h1, a, n).http.is_content_length_seen = h1.is_content_length_seen
    BY <1>5 DEF Http
  <2> QED BY <1>1, <1>9, <2>1, <2>2 DEF Counting, SameHeader
<1> QED BY <1>4, <1>6, <1>8, <1>10, <1>11, <1>12 DEF Consumed

-------------------------------------------------------------------------------
(* A call of the parser, with the next piece of a text. *)

(* Where the header of the first p bytes of a text leaves the parser. *)
Upto(t, p) == Header(Cleared, SubSeq(t.bytes, 1, p))

(* The parser has what those bytes say: it is still in the header, or counts  *)
(* the content that follows.                                                  *)
Following(h, r, p, ended) ==
  IF r.http.state \in HeaderStates THEN Alike(h, r.http, ended) ELSE Counting(h, r, p)

LEMMA TextLength == ASSUME NEW t \in Texts PROVE t.length \in Nat
BY ResponseStreamAssumption

LEMMA TextBytes ==
  ASSUME NEW t \in Texts
  PROVE  \E S : t.bytes \in Seq(S) /\ Bytes(t.bytes) /\ Len(t.bytes) \in Nat
<1> DEFINE S == {t.bytes[k] : k \in DOMAIN t.bytes}
<1>1. t.bytes \in Seq(S) /\ \A b \in S : b.value \in Nat
  BY ResponseStreamAssumption
<1>2. Bytes(t.bytes) /\ Len(t.bytes) \in Nat
  <2>1. \A k \in 1..Len(t.bytes) : k \in DOMAIN t.bytes
    BY <1>1
  <2>2. \A k \in 1..Len(t.bytes) : t.bytes[k] \in S
    BY <2>1
  <2> HIDE DEF S
  <2> QED BY <1>1, <2>2 DEF Bytes
<1> HIDE DEF S
<1> QED BY <1>1, <1>2

LEMMA ClearedType == Cleared \in Http /\ Cleared.state \in HeaderStates
BY HttpResponseAssumption DEF Cleared, Http, HeaderStates

LEMMA Piece ==
  ASSUME NEW S, NEW px \in Seq(S), NEW p \in Nat, NEW n \in Nat, p + n <= Len(px)
  PROVE  /\ SubSeq(px, p + 1, p + n) \in Seq(S) /\ Len(SubSeq(px, p + 1, p + n)) = n
         /\ \A k \in 1..n : SubSeq(px, p + 1, p + n)[k] = px[p + k]
<1>1. \A k \in (p + 1)..(p + n) : px[k] \in S
  OBVIOUS
<1>2. SubSeq(px, p + 1, p + n) \in Seq(S)
  BY <1>1, SubSeqProperties
<1>3. Len(SubSeq(px, p + 1, p + n)) = n
  OBVIOUS
<1> QED BY <1>2, <1>3

LEMMA TextRun ==
  ASSUME NEW t \in Texts
  PROVE  \E f : /\ IsRun(f, Cleared, t.bytes)
                /\ \A k \in 0..Len(t.bytes) : Reached(f[k], k) /\ Upto(t, k) = f[k]
                /\ f[Len(t.bytes)] = Header(Cleared, t.bytes)
<1>1. PICK S : t.bytes \in Seq(S) /\ Bytes(t.bytes) /\ Len(t.bytes) \in Nat
  BY TextBytes
<1>2. PICK f : IsRun(f, Cleared, t.bytes) /\ f[Len(t.bytes)] = Header(Cleared, t.bytes)
  BY <1>1, HeaderRun
<1>3. \A k \in 0..Len(t.bytes) : Reached(f[k], k)
  BY <1>1, <1>2, ClearedType, RunReaches
<1>4. ASSUME NEW k \in 0..Len(t.bytes) PROVE Upto(t, k) = f[k]
  <2> DEFINE px == SubSeq(t.bytes, 1, k)
  <2>0. k \in Nat /\ 0 + k <= Len(t.bytes) /\ 0 + k = k /\ 0 + 1 = 1
    BY <1>1
  <2>1. px \in Seq(S) /\ Len(px) = k /\ \A j \in 1..k : px[j] = t.bytes[j]
    BY <1>1, <2>0, Piece
  <2>2. Upto(t, k) = Header(Cleared, px)
    BY DEF Upto
  <2> HIDE DEF px
  <2>3. PICK g : IsRun(g, Cleared, px) /\ g[Len(px)] = Header(Cleared, px)
    BY <2>1, HeaderRun
  <2>4. g[k] = f[k]
    BY <1>1, <1>2, <2>0, <2>1, <2>3, RunsAgree
  <2> QED BY <2>1, <2>2, <2>3, <2>4
<1> QED BY <1>2, <1>3, <1>4

LEMMA HttpNumbers ==
  ASSUME NEW h \in Http
  PROVE  h.content_length \in Nat /\ h.content_seen \in Nat
<1>1. h.content_length \in 0..(Wide - 1) /\ h.content_seen \in 0..(Wide - 1)
  BY DEF Http
<1> QED BY <1>1, HttpResponseAssumption

LEMMA PieceParsed ==
  ASSUME CRsEndLines, LengthsFit, NEW t \in Texts,
         NEW p \in Nat, NEW n \in Nat, p + n <= Len(t.bytes),
         NEW h \in Http, Following(h, Upto(t, p), p, Ended(t.bytes, p))
  PROVE  LET c == http_rsp_parse(h, SubSeq(t.bytes, p + 1, p + n))
             w == http_rsp_parse(Cleared, SubSeq(t.bytes, 1, p + n))
         IN /\ c.http \in Http /\ c.is_done \in BOOLEAN
            /\ Visible(c.http) = Visible(w.http)
            /\ c.is_done <=> w.is_done
            /\ Consumed(c, n) = Consumed(w, p + n)
            /\ c.count = n /\ ~c.is_done =>
                 Following(c.http, Upto(t, p + n), p + n, Ended(t.bytes, p + n))
<1>1. PICK S : t.bytes \in Seq(S) /\ Bytes(t.bytes) /\ Len(t.bytes) \in Nat
  BY TextBytes
<1>2. PICK f : /\ IsRun(f, Cleared, t.bytes)
               /\ \A k \in 0..Len(t.bytes) : Reached(f[k], k) /\ Upto(t, k) = f[k]
               /\ f[Len(t.bytes)] = Header(Cleared, t.bytes)
  BY TextRun
<1> DEFINE q     == p + n
           piece == SubSeq(t.bytes, p + 1, q)
           c     == http_rsp_parse(h, piece)
           w     == http_rsp_parse(Cleared, SubSeq(t.bytes, 1, q))
<1>3. q \in 0..Len(t.bytes) /\ p \in 0..Len(t.bytes) /\ q \in Nat /\ n <= q /\ q \in p..Len(t.bytes)
  BY <1>1
<1>4. piece \in Seq(S) /\ Len(piece) = n /\ \A k \in 1..n : piece[k] = t.bytes[p + k]
  BY <1>1, Piece
<1>5. /\ Upto(t, p) = f[p] /\ Upto(t, q) = f[q] /\ Reached(f[p], p) /\ Reached(f[q], q)
      /\ q < Wide
  BY <1>1, <1>2, <1>3, HttpResponseAssumption DEF LengthsFit
<1>6. Len(SubSeq(t.bytes, 1, q)) = q
  BY <1>1, <1>3
<1>7. w = IF f[q].http.state \in BodyStates THEN Content(f[q].http, f[q].offset, q)
          ELSE [http |-> f[q].http, count |-> q, is_done |-> FALSE]
  <2>1. f[q] = Header(Cleared, SubSeq(t.bytes, 1, q))
    BY <1>5 DEF Upto
  <2> HIDE DEF q
  <2> QED BY <1>6, <2>1 DEF http_rsp_parse
<1>8. PICK g : IsRun(g, h, piece) /\ g[n] = Header(h, piece)
  <2> HIDE DEF piece
  <2> QED BY <1>4, HeaderRun
<1>9. Bytes(piece)
  <2> HIDE DEF piece
  <2>1. \A k \in 1..n : p + k \in 1..Len(t.bytes)
    BY <1>1
  <2> QED BY <1>1, <1>4, <2>1 DEF Bytes
<1>10. \A k \in 0..n : Reached(g[k], k)
  <2> HIDE DEF piece
  <2> QED BY <1>4, <1>8, <1>9, RunReaches DEF Http
<1>11. c = IF g[n].http.state \in BodyStates THEN Content(g[n].http, g[n].offset, n)
           ELSE [http |-> g[n].http, count |-> n, is_done |-> FALSE]
  <2> HIDE DEF piece
  <2> QED BY <1>4, <1>8 DEF http_rsp_parse
<1>12. /\ g[n].http \in Http /\ g[n].offset \in Nat /\ g[n].offset <= n
       /\ f[q].http \in Http /\ f[q].offset \in Nat /\ f[q].offset <= q
       /\ f[q] = [http |-> f[q].http, offset |-> f[q].offset]
  <2>1. Reached(g[n], n) /\ Reached(f[q], q)
    <3>1. n \in 0..n
      OBVIOUS
    <3> QED BY <1>5, <1>10, <3>1
  <2> QED BY <1>3, <2>1 DEF Reached
<1>13. f[q].http.state \in BodyStates => f[q].offset + f[q].http.content_length < Wide
  <2> SUFFICES ASSUME f[q].http.state \in BodyStates
               PROVE  f[q].offset + f[q].http.content_length < Wide
    OBVIOUS
  <2>1. f[Len(t.bytes)] = f[q]
    BY <1>1, <1>2, <1>3, RunStays
  <2> QED BY <1>2, <2>1 DEF LengthsFit
<1> HIDE DEF c, w, piece, q
<1>14. c.http \in Http /\ c.is_done \in BOOLEAN
  BY <1>11, <1>12, ContentType
<1> DEFINE Goal == /\ Visible(c.http) = Visible(w.http)
                   /\ c.is_done <=> w.is_done
                   /\ Consumed(c, n) = Consumed(w, q)
                   /\ c.count = n /\ ~c.is_done => Following(c.http, f[q], q, Ended(t.bytes, q))
<1> HIDE DEF Goal
<1>15. ASSUME g[n].http.state \in BodyStates, SameHeader(g[n].http, f[q].http),
              f[q].http.content_seen = 0,
              q - f[q].offset = g[n].http.content_seen + (n - g[n].offset),
              g[n].http.is_content_length_seen => g[n].http.content_seen <= g[n].http.content_length
       PROVE  Goal
  <2>1. f[q].http.state \in BodyStates /\ f[q].http.content_length = g[n].http.content_length
    BY <1>15 DEF SameHeader
  <2>2. c = Content(g[n].http, g[n].offset, n) /\ w = Content(f[q].http, f[q].offset, q)
    BY <1>7, <1>11, <1>15, <2>1
  <2>3. f[q].offset + g[n].http.content_length < Wide
    BY <1>13, <2>1
  <2>4. /\ Visible(c.http) = Visible(w.http)
        /\ c.is_done <=> w.is_done
        /\ Consumed(c, n) = Consumed(w, q)
        /\ c.count = n /\ ~c.is_done /\ g[n].http.state \in BodyStates =>
             Counting(c.http, [http |-> f[q].http, offset |-> f[q].offset], q)
    <3> DEFINE h1 == g[n].http
               h2 == f[q].http
               a  == g[n].offset
               o  == f[q].offset
    <3>1. /\ h1 \in Http /\ h2 \in Http /\ SameHeader(h1, h2) /\ h2.content_seen = 0
          /\ a \in Nat /\ a <= n /\ o \in Nat /\ o <= q
          /\ q - o = h1.content_seen + (n - a)
          /\ h1.is_content_length_seen => h1.content_seen <= h1.content_length
          /\ o + h1.content_length < Wide /\ h1.state \in BodyStates
          /\ c = Content(h1, a, n) /\ w = Content(h2, o, q)
      BY <1>12, <1>15, <2>2, <2>3
    <3> HIDE DEF h1, h2, a, o
    <3>2. /\ Visible(c.http) = Visible(w.http)
          /\ c.is_done <=> w.is_done
          /\ Consumed(c, n) = Consumed(w, q)
          /\ c.count = n /\ ~c.is_done /\ h1.state \in BodyStates =>
               Counting(c.http, [http |-> h2, offset |-> o], q)
      BY <1>3, <1>5, <3>1, ContentAlike
    <3> QED BY <3>2 DEF h1, h2, o
  <2>5. f[q].http.state \notin HeaderStates
    BY <2>1, StatesApart
  <2>6. c.count = n /\ ~c.is_done => Following(c.http, f[q], q, Ended(t.bytes, q))
    BY <1>12, <1>15, <2>4, <2>5 DEF Following
  <2> QED BY <2>4, <2>6 DEF Goal
<1>16. ASSUME f[p].http.state \in HeaderStates PROVE Goal
  <2>1. Alike(h, f[p].http, Ended(t.bytes, p)) /\ h.state \in HeaderStates
    BY <1>5, <1>16 DEF Following, Alike
  <2>2. Joint(g[n], f[q], p, Ended(t.bytes, q))
    <3>1. \A k \in 1..(Len(t.bytes) - 1) : Is(t.bytes[k], CR) => Is(t.bytes[k + 1], LF)
      BY DEF CRsEndLines
    <3>2. \A k \in 0..n : Joint(g[k], f[p + k], p, Ended(t.bytes, p + k))
      BY <1>1, <1>2, <1>4, <1>8, <1>10, <2>1, <3>1, RunsAlike
    <3> QED BY <3>2 DEF q
  <2>3. Alike(g[n].http, f[q].http, Ended(t.bytes, q))
    BY <2>2 DEF Joint
  <2>4. CASE g[n].http.state \in BodyStates
    <3>1. /\ SameHeader(g[n].http, f[q].http) /\ f[q].http.content_seen = 0
          /\ g[n].http.content_seen = 0
      BY <2>3 DEF Alike, SameHeader
    <3>2. q - f[q].offset = g[n].http.content_seen + (n - g[n].offset)
      <4>1. f[q].offset = p + g[n].offset
        BY <2>2, <2>4 DEF Joint
      <4>2. q = p + n /\ g[n].offset \in Nat /\ g[n].http.content_seen = 0
        BY <1>12, <3>1 DEF q
      <4> QED BY <4>1, <4>2
    <3>3. g[n].http.content_length \in Nat
      BY <1>12, HttpNumbers
    <3>4. g[n].http.content_seen <= g[n].http.content_length
      BY <3>1, <3>3
    <3> QED BY <1>15, <2>4, <3>1, <3>2, <3>4
  <2>5. CASE g[n].http.state \notin BodyStates
    <3>1. f[q].http.state \notin BodyStates /\ f[q].http.state \in HeaderStates
      BY <1>12, <2>3, <2>5 DEF Alike, Http
    <3>2. c = [http |-> g[n].http, count |-> n, is_done |-> FALSE]
          /\ w = [http |-> f[q].http, count |-> q, is_done |-> FALSE]
      BY <1>7, <1>11, <2>5, <3>1
    <3>3. Visible(g[n].http) = Visible(f[q].http)
      BY <2>3 DEF Alike, Visible
    <3>4. Following(g[n].http, f[q], q, Ended(t.bytes, q))
      BY <2>3, <3>1 DEF Following
    <3>5. Consumed(c, n) = Consumed(w, q)
      BY <1>3, <3>2 DEF Consumed
    <3> QED BY <3>2, <3>3, <3>4, <3>5 DEF Goal
  <2> QED BY <2>4, <2>5
<1>17. ASSUME f[p].http.state \notin HeaderStates PROVE Goal
  <2>1. Counting(h, f[p], p)
    BY <1>5, <1>17 DEF Following
  <2>2. f[p].http.state \in BodyStates /\ h.state \in BodyStates
    BY <1>5, <1>17, <2>1 DEF Reached, Http, Counting, SameHeader
  <2>3. f[q] = f[p]
    BY <1>1, <1>2, <1>3, <2>2, RunStays
  <2>4. g[0] = Start(h)
    BY <1>8 DEF IsRun
  <2> DEFINE s == [h EXCEPT !.scanning = FALSE]
  <2>5. s.state = h.state /\ s.content_seen = h.content_seen /\ s.content_length = h.content_length
        /\ s.is_content_length_seen = h.is_content_length_seen
        /\ s.response_code = h.response_code /\ s.is_error = h.is_error
    BY DEF Http
  <2>6. g[0].http = s /\ g[0].offset = 0
    BY <2>4 DEF Start
  <2> HIDE DEF s
  <2>7. g[n] = g[0]
    <3>1. g[0].http.state \in BodyStates /\ Len(piece) \in Nat /\ 0 \in 0..Len(piece) /\ n \in 0..Len(piece)
      BY <1>4, <2>2, <2>5, <2>6
    <3> QED BY <1>8, <3>1, RunStays
  <2>8. /\ SameHeader(g[n].http, f[q].http) /\ f[q].http.content_seen = 0
        /\ g[n].http.content_seen = p - f[q].offset /\ g[n].offset = 0
        /\ g[n].http.state \in BodyStates
        /\ g[n].http.is_content_length_seen => g[n].http.content_seen < g[n].http.content_length
    BY <2>1, <2>2, <2>3, <2>5, <2>6, <2>7 DEF Counting, SameHeader
  <2>9. q - f[q].offset = g[n].http.content_seen + (n - g[n].offset)
    BY <1>12, <2>8 DEF q
  <2>10. g[n].http.content_length \in Nat /\ g[n].http.content_seen \in Nat
    BY <1>12, HttpNumbers
  <2>11. g[n].http.is_content_length_seen => g[n].http.content_seen <= g[n].http.content_length
    <3> DEFINE s1 == g[n].http.content_seen
               s2 == g[n].http.content_length
    <3>1. s1 \in Nat /\ s2 \in Nat /\ (g[n].http.is_content_length_seen => s1 < s2)
      BY <2>8, <2>10
    <3> HIDE DEF s1, s2
    <3>2. g[n].http.is_content_length_seen => s1 <= s2
      BY <3>1
    <3> QED BY <3>2 DEF s1, s2
  <2> QED BY <1>15, <2>8, <2>9, <2>11
<1>18. Goal
  BY <1>16, <1>17
<1>19. /\ c.http \in Http /\ c.is_done \in BOOLEAN
       /\ Visible(c.http) = Visible(w.http)
       /\ c.is_done <=> w.is_done
       /\ Consumed(c, n) = Consumed(w, q)
       /\ c.count = n /\ ~c.is_done => Following(c.http, Upto(t, q), q, Ended(t.bytes, q))
  BY <1>5, <1>14, <1>18 DEF Goal
<1> QED BY <1>19 DEF c, w, piece, q

LEMMA ParseType ==
  ASSUME NEW S, NEW px \in Seq(S), Bytes(px), NEW h \in Http
  PROVE  /\ http_rsp_parse(h, px).http \in Http /\ http_rsp_parse(h, px).is_done \in BOOLEAN
         /\ http_rsp_parse(h, px).count \in Int /\ http_rsp_parse(h, px).count <= Len(px)
<1> DEFINE r == Header(h, px)
           n == Len(px)
<1>1. n \in Nat
  OBVIOUS
<1>2. Reached(r, n)
  <2>1. PICK g : IsRun(g, h, px) /\ g[n] = r
    BY HeaderRun
  <2>2. \A k \in 0..n : Reached(g[k], k)
    BY <1>1, <2>1, RunReaches DEF Http
  <2>3. n \in 0..n
    BY <1>1
  <2> QED BY <2>1, <2>2, <2>3
<1>3. http_rsp_parse(h, px) =
        IF r.http.state \in BodyStates THEN Content(r.http, r.offset, n)
        ELSE [http |-> r.http, count |-> n, is_done |-> FALSE]
  BY DEF http_rsp_parse
<1> HIDE DEF r, n
<1>4. r.http \in Http /\ r.offset \in Nat
  BY <1>1, <1>2 DEF Reached
<1> DEFINE c == http_rsp_parse(h, px)
<1>5. ASSUME r.http.state \in BodyStates
      PROVE  c.http \in Http /\ c.is_done \in BOOLEAN /\ c.count \in Int /\ c.count <= n
  <2>1. c = Content(r.http, r.offset, n)
    BY <1>3, <1>5
  <2> HIDE DEF c
  <2> QED BY <1>1, <1>4, <2>1, ContentType
<1>6. ASSUME r.http.state \notin BodyStates
      PROVE  c.http \in Http /\ c.is_done \in BOOLEAN /\ c.count \in Int /\ c.count <= n
  <2>1. c = [http |-> r.http, count |-> n, is_done |-> FALSE]
    BY <1>3, <1>6
  <2> HIDE DEF c
  <2> QED BY <1>1, <1>4, <2>1
<1>7. c.http \in Http /\ c.is_done \in BOOLEAN /\ c.count \in Int /\ c.count <= n
  BY <1>5, <1>6
<1> QED BY <1>7 DEF n

-------------------------------------------------------------------------------
(* The stream. *)

(* The parser never leaves the states and numbers of http_response_t,         *)
(* whatever bytes a server sends and however recv() cuts them.                *)
THEOREM ResponseTypeOK == Spec => []TypeOK
<1>1. ASSUME Init PROVE TypeOK
  <2>1. Len(text.bytes) \in Nat
    BY <1>1, TextBytes DEF Init
  <2> QED BY <1>1, <2>1, ClearedType DEF Init, TypeOK
<1>2. ASSUME TypeOK, Recv PROVE TypeOK'
  <2>1. PICK bytes \in 1..BufLen :
          /\ pos + bytes <= Len(text.bytes)
          /\ http' = http_rsp_parse(http, SubSeq(text.bytes, pos + 1, pos + bytes)).http
          /\ outcome' \in {"reading", "complete", "overrun"}
          /\ pos' = pos + bytes
    BY <1>2 DEF Recv
  <2>2. PICK S : text.bytes \in Seq(S) /\ Bytes(text.bytes) /\ Len(text.bytes) \in Nat
    BY <1>2, TextBytes DEF TypeOK
  <2>3. pos \in Nat /\ bytes \in Nat /\ pos' \in 0..Len(text.bytes)
    BY <1>2, <2>1, <2>2, ResponseStreamAssumption DEF TypeOK
  <2> DEFINE piece == SubSeq(text.bytes, pos + 1, pos + bytes)
  <2>4. piece \in Seq(S) /\ Len(piece) = bytes /\ \A k \in 1..bytes : piece[k] = text.bytes[pos + k]
    BY <2>1, <2>2, <2>3, Piece
  <2> HIDE DEF piece
  <2>5. \A k \in 1..bytes : pos + k \in 1..Len(text.bytes)
    BY <2>1, <2>2, <2>3
  <2>6. Bytes(piece)
    BY <2>2, <2>4, <2>5 DEF Bytes
  <2>7. http' \in Http
    BY <1>2, <2>1, <2>4, <2>6, ParseType DEF TypeOK, piece
  <2> QED BY <1>2, <2>1, <2>3, <2>7 DEF TypeOK, Recv
<1>3. ASSUME TypeOK, Clear PROVE TypeOK'
  <2>1. text' \in Texts /\ Len(text'.bytes) \in Nat
    BY <1>3, TextBytes DEF Clear
  <2> QED BY <1>3, <2>1, ClearedType DEF Clear, TypeOK
<1>4. ASSUME TypeOK, UNCHANGED vars PROVE TypeOK'
  BY <1>4 DEF TypeOK, vars
<1> QED BY <1>1, <1>2, <1>3, <1>4, PTL DEF Spec, Next

(* All at once, up to here. *)
Whole == http_rsp_parse(Cleared, SubSeq(text.bytes, 1, pos))

(* Between the calls the parser is where the whole text so far would have     *)
(* taken it, and as long as it reads on, also in what the worker cannot see.  *)
StreamInv ==
  /\ TypeOK
  /\ calls = 0 => Visible(http) = Visible(Whole.http)
  /\ calls = 0 /\ outcome = "reading" =>
       Following(http, Upto(text, pos), pos, Ended(text.bytes, pos))

LEMMA Fresh ==
  ASSUME NEW t \in Texts
  PROVE  /\ Following(Cleared, Upto(t, 0), 0, Ended(t.bytes, 0))
         /\ Visible(Cleared) = Visible(http_rsp_parse(Cleared, SubSeq(t.bytes, 1, 0)).http)
<1>1. Upto(t, 0) = Start(Cleared)
  <2>1. PICK f : /\ IsRun(f, Cleared, t.bytes)
                 /\ \A k \in 0..Len(t.bytes) : Reached(f[k], k) /\ Upto(t, k) = f[k]
    BY TextRun
  <2>2. 0 \in 0..Len(t.bytes)
    BY TextBytes
  <2> QED BY <2>1, <2>2 DEF IsRun
<1> DEFINE s == [Cleared EXCEPT !.scanning = FALSE]
<1>2. /\ Start(Cleared) = [http |-> s, offset |-> 0] /\ s.state \in HeaderStates
      /\ Visible(s) = Visible(Cleared) /\ Alike(Cleared, s, Ended(t.bytes, 0))
  BY DEF Start, Cleared, HeaderStates, Visible, Alike
<1> HIDE DEF s
<1>3. s.state \notin BodyStates
  BY <1>2, StatesApart
<1>4. http_rsp_parse(Cleared, SubSeq(t.bytes, 1, 0)).http = s
  BY <1>1, <1>2, <1>3 DEF http_rsp_parse, Upto
<1> QED BY <1>1, <1>2, <1>4 DEF Following

(* What a call of recv() and of the parser does while the worker reads on. *)
LEMMA RecvReads ==
  ASSUME CRsEndLines, LengthsFit, StreamInv, Recv, outcome = "reading"
  PROVE  \E bytes \in 1..BufLen :
           /\ pos' = pos + bytes /\ pos' \in 0..Len(text.bytes) /\ text' = text /\ calls' = 0
           /\ Visible(http') = Visible(Whole.http)'
           /\ outcome' = IF Consumed(Whole', pos') > 0 THEN "overrun"
                         ELSE IF Whole.is_done' THEN "complete" ELSE "reading"
           /\ outcome' = "reading" =>
                Following(http', Upto(text', pos'), pos', Ended(text'.bytes, pos'))
<1>1. PICK bytes \in 1..BufLen :
        LET c == http_rsp_parse(http, SubSeq(text.bytes, pos + 1, pos + bytes))
        IN /\ pos + bytes <= Len(text.bytes) /\ pos' = pos + bytes
           /\ http' = c.http
           /\ outcome' = IF c.count < bytes THEN "overrun"
                         ELSE IF c.is_done THEN "complete" ELSE "reading"
  BY DEF Recv
<1>2. text' = text /\ calls' = 0 /\ calls = 0
  BY DEF Recv
<1>3. PICK S : text.bytes \in Seq(S) /\ Bytes(text.bytes) /\ Len(text.bytes) \in Nat
  BY TextBytes DEF StreamInv, TypeOK
<1>4. pos \in Nat /\ bytes \in Nat /\ pos' \in 0..Len(text.bytes) /\ pos' \in Nat
  BY <1>1, <1>3, ResponseStreamAssumption DEF StreamInv, TypeOK
<1> DEFINE piece == SubSeq(text.bytes, pos + 1, pos + bytes)
           c     == http_rsp_parse(http, piece)
           w     == http_rsp_parse(Cleared, SubSeq(text.bytes, 1, pos + bytes))
<1>5. /\ c.http \in Http /\ c.is_done \in BOOLEAN
      /\ Visible(c.http) = Visible(w.http)
      /\ c.is_done <=> w.is_done
      /\ Consumed(c, bytes) = Consumed(w, pos + bytes)
      /\ c.count = bytes /\ ~c.is_done =>
           Following(c.http, Upto(text, pos + bytes), pos + bytes, Ended(text.bytes, pos + bytes))
  <2>1. text \in Texts /\ http \in Http /\ Following(http, Upto(text, pos), pos, Ended(text.bytes, pos))
    BY <1>2 DEF StreamInv, TypeOK
  <2> QED BY <1>1, <1>4, <2>1, PieceParsed
<1>6. piece \in Seq(S) /\ Len(piece) = bytes /\ \A k \in 1..bytes : piece[k] = text.bytes[pos + k]
  BY <1>1, <1>3, <1>4, Piece
<1> HIDE DEF piece
<1>7. c.count \in Int /\ c.count <= bytes
  <2>1. \A k \in 1..bytes : pos + k \in 1..Len(text.bytes)
    BY <1>1, <1>3, <1>4
  <2>2. Bytes(piece)
    BY <1>3, <1>6, <2>1 DEF Bytes
  <2> QED BY <1>6, <2>2, ParseType DEF StreamInv, TypeOK
<1>8. Whole' = w
  BY <1>1, <1>2 DEF Whole
<1>9. http' = c.http /\ outcome' = IF c.count < bytes THEN "overrun"
                                   ELSE IF c.is_done THEN "complete" ELSE "reading"
  BY <1>1 DEF piece
<1> HIDE DEF c, w
<1>10. c.count < bytes <=> Consumed(c, bytes) > 0
  BY <1>4, <1>7 DEF Consumed
<1>11. Consumed(Whole', pos') = Consumed(c, bytes) /\ (Whole.is_done' <=> c.is_done)
       /\ Visible(http') = Visible(Whole.http)'
  BY <1>1, <1>5, <1>8, <1>9
<1>12. outcome' = IF Consumed(Whole', pos') > 0 THEN "overrun"
                  ELSE IF Whole.is_done' THEN "complete" ELSE "reading"
  BY <1>9, <1>10, <1>11
<1>13. ASSUME outcome' = "reading"
       PROVE  Following(http', Upto(text', pos'), pos', Ended(text'.bytes, pos'))
  <2>1. c.count = bytes /\ ~c.is_done
    BY <1>4, <1>7, <1>9, <1>13
  <2> QED BY <1>1, <1>2, <1>5, <1>9, <2>1
<1> QED BY <1>1, <1>2, <1>4, <1>11, <1>12, <1>13

LEMMA StreamInvariant ==
  ASSUME CRsEndLines, LengthsFit
  PROVE  Spec => []StreamInv
<1>1. ASSUME Init PROVE StreamInv
  <2>1. Visible(http) = Visible(Whole.http)
    BY <1>1, Fresh DEF Init, Whole
  <2>2. Following(http, Upto(text, pos), pos, Ended(text.bytes, pos))
    BY <1>1, Fresh DEF Init
  <2>3. TypeOK
    <3>1. Len(text.bytes) \in Nat
      BY <1>1, TextBytes DEF Init
    <3> QED BY <1>1, <3>1, ClearedType DEF Init, TypeOK
  <2> QED BY <2>1, <2>2, <2>3 DEF StreamInv
<1>2. ASSUME StreamInv, TypeOK', Recv PROVE StreamInv'
  <2>1. CASE outcome = "reading"
    <3>1. Visible(http') = Visible(Whole.http)'
      BY <1>2, <2>1, RecvReads
    <3>2. outcome' = "reading" => Following(http', Upto(text', pos'), pos', Ended(text'.bytes, pos'))
      BY <1>2, <2>1, RecvReads
    <3> QED BY <1>2, <3>1, <3>2 DEF StreamInv
  <2>2. CASE outcome # "reading"
    <3>1. outcome = "complete"
      BY <1>2, <2>2 DEF StreamInv, TypeOK, Recv
    <3>2. calls' = 1
      BY <1>2, <3>1 DEF Recv
    <3> QED BY <1>2, <3>2 DEF StreamInv
  <2> QED BY <2>1, <2>2
<1>3. ASSUME StreamInv, TypeOK', Clear PROVE StreamInv'
  <2>1. text' \in Texts /\ pos' = 0 /\ http' = Cleared
    BY <1>3 DEF Clear
  <2>2. Visible(http') = Visible(Whole.http)'
    BY <2>1, Fresh DEF Whole
  <2>3. Following(http', Upto(text', pos'), pos', Ended(text'.bytes, pos'))
    BY <2>1, Fresh
  <2> QED BY <1>3, <2>2, <2>3 DEF StreamInv
<1>4. ASSUME StreamInv, UNCHANGED vars PROVE StreamInv'
  BY <1>4 DEF StreamInv, TypeOK, Whole, vars, Visible
<1> QED BY <1>1, <1>2, <1>3, <1>4, ResponseTypeOK, PTL DEF Spec, Next

(* However the stream is cut, the parser comes to the state in which one call *)
(* with all of it would have left it (http-response.c:100-106), for any       *)
(* responses in which a CR ends a line and whose lengths do not overflow.     *)
THEOREM CutsDoNotMatter ==
  ASSUME CRsEndLines, LengthsFit
  PROVE  Spec => []FragmentationIndependent
<1>1. StreamInv => FragmentationIndependent
  BY DEF StreamInv, FragmentationIndependent, Whole
<1> QED BY <1>1, StreamInvariant, PTL

-------------------------------------------------------------------------------
(* The size of a response. *)

(* A header that ends after the first p bytes ends behind them. *)
LEMMA HeaderGrows ==
  ASSUME NEW h, NEW f, NEW px, Len(px) \in Nat, IsRun(f, h, px),
         NEW p \in 0..Len(px), f[p].http.state \notin BodyStates
  PROVE  \A k \in p..Len(px) : f[k].http.state \in BodyStates => f[k].offset > p
<1> DEFINE R == {n \in Nat : p + n <= Len(px) => (f[p + n].http.state \in BodyStates => f[p + n].offset > p)}
<1>1. 0 \in R
  OBVIOUS
<1>2. ASSUME NEW n \in Nat, n \in R PROVE n + 1 \in R
  <2> SUFFICES ASSUME p + (n + 1) <= Len(px), f[p + (n + 1)].http.state \in BodyStates
               PROVE  f[p + (n + 1)].offset > p
    OBVIOUS
  <2> DEFINE k == p + (n + 1)
  <2>1. k \in 1..Len(px) /\ k - 1 = p + n /\ k > p
        /\ (f[p + n].http.state \in BodyStates => f[p + n].offset > p)
    BY <1>2
  <2> HIDE DEF k
  <2>2. f[k] = HeaderStep(f[p + n], px[k], k)
    BY <2>1 DEF IsRun
  <2>3. CASE f[p + n].http.state \in BodyStates
    BY <2>1, <2>2, <2>3 DEF HeaderStep, k
  <2>4. CASE f[p + n].http.state \notin BodyStates
    <3>1. f[k].offset = k
      BY <2>2, <2>4 DEF HeaderStep
    <3> QED BY <2>1, <3>1 DEF k
  <2> QED BY <2>3, <2>4
<1> HIDE DEF R
<1>3. Nat \subseteq R
  BY <1>1, <1>2, NatSetInduction
<1>4. ASSUME NEW k \in p..Len(px) PROVE f[k].http.state \in BodyStates => f[k].offset > p
  <2>1. k - p \in Nat /\ p + (k - p) = k
    OBVIOUS
  <2>2. k - p \in R
    BY <1>3, <2>1
  <2> QED BY <2>1, <2>2 DEF R
<1> QED BY <1>4

LEMMA ContentMeasured ==
  ASSUME NEW h \in Http, h.state = "CONTENT", h.is_content_length_seen, h.content_seen = 0,
         NEW o \in Nat, NEW q \in Nat, o <= q, q < Wide, o + h.content_length < Wide
  PROVE  LET c == Content(h, o, q)
             end == o + h.content_length
         IN /\ c.is_done <=> q >= end
            /\ Consumed(c, q) = IF q > end THEN q - end ELSE 0
            /\ c.is_done => /\ c.http.state = "DONE_PARSING" /\ c.http.is_content_length_seen
                            /\ c.http.content_seen = c.http.content_length
<1> DEFINE L      == h.content_length
           toEnd  == o + h.content_length - h.content_seen
           limit  == toEnd % Wide
           count  == IF h.is_content_length_seen /\ q > limit THEN limit ELSE q
           taken  == h.content_seen + count - o
           total  == taken % Wide
           done   == \/ h.state = "DONE_PARSING"
                     \/ h.is_content_length_seen /\ h.content_length = total
           state  == IF done THEN "DONE_PARSING" ELSE h.state
           c      == Content(h, o, q)
<1>1. c.http = [h EXCEPT !.content_seen = total, !.state = state] /\ c.count = count /\ c.is_done = done
  BY DEF Content
<1>2. L \in Nat /\ Wide \in Nat
  BY HttpNumbers, HttpResponseAssumption
<1>3. toEnd = o + L
  BY <1>2
<1> HIDE DEF toEnd
<1>4. limit = o + L
  <2>1. o + L \in Nat /\ o + L < Wide
    BY <1>2
  <2> HIDE DEF L
  <2> QED BY <1>2, <1>3, <2>1, Modulo
<1> HIDE DEF limit
<1>5. count = IF q > o + L THEN o + L ELSE q
  BY <1>4
<1> HIDE DEF count
<1>6. taken = IF q > o + L THEN L ELSE q - o
  BY <1>2, <1>5
<1>7. taken \in Nat /\ taken < Wide /\ (taken = L <=> q >= o + L)
  <2> HIDE DEF taken
  <2>1. o + L < Wide
    OBVIOUS
  <2> HIDE DEF L
  <2> QED BY <1>2, <1>6, <2>1
<1> HIDE DEF taken
<1>8. total = taken
  BY <1>2, <1>7, Modulo
<1> HIDE DEF total
<1>9. done <=> q >= o + L
  BY <1>7, <1>8
<1> HIDE DEF done
<1>10. ASSUME done
       PROVE  /\ c.http.state = "DONE_PARSING" /\ c.http.is_content_length_seen
              /\ c.http.content_seen = c.http.content_length
  <2>1. state = "DONE_PARSING" /\ total = L
    BY <1>7, <1>8, <1>9, <1>10
  <2> HIDE DEF c, state
  <2> QED BY <1>1, <2>1 DEF Http
<1> HIDE DEF c, state
<1>11. Consumed(c, q) = IF q > o + L THEN q - (o + L) ELSE 0
  BY <1>1, <1>2, <1>5 DEF Consumed
<1> QED BY <1>1, <1>9, <1>10, <1>11 DEF c

(* Of a response with a length, one call with its first q bytes takes those   *)
(* that belong to it, and is done when these are all.                         *)
LEMMA WholeMeasured ==
  ASSUME CRsEndLines, LengthsFit, Measured, NEW t \in Texts, t.length > 0, NEW q \in 0..Len(t.bytes)
  PROVE  LET w == http_rsp_parse(Cleared, SubSeq(t.bytes, 1, q))
         IN /\ w.is_done <=> q >= t.length
            /\ Consumed(w, q) = IF q > t.length THEN q - t.length ELSE 0
            /\ w.is_done => /\ w.http.state = "DONE_PARSING" /\ w.http.is_content_length_seen
                            /\ w.http.content_seen = w.http.content_length
<1>1. PICK S : t.bytes \in Seq(S) /\ Bytes(t.bytes) /\ Len(t.bytes) \in Nat
  BY TextBytes
<1>2. PICK f : /\ IsRun(f, Cleared, t.bytes)
               /\ \A k \in 0..Len(t.bytes) : Reached(f[k], k) /\ Upto(t, k) = f[k]
               /\ f[Len(t.bytes)] = Header(Cleared, t.bytes)
  BY TextRun
<1> DEFINE w == http_rsp_parse(Cleared, SubSeq(t.bytes, 1, q))
           N == Len(t.bytes)
           o == f[N].offset
           L == f[N].http.content_length
<1>3. q \in Nat /\ N \in 0..N /\ N \in q..N /\ q <= N
  BY <1>1
<1>4. /\ f[N].http.state = "CONTENT" /\ f[N].http.is_content_length_seen
      /\ t.length = o + L /\ N < Wide /\ o + L < Wide
  BY <1>2 DEF Measured, LengthsFit, BodyStates
<1>5. f[N].http \in Http /\ o \in Nat /\ L \in Nat
  <2>1. Reached(f[N], N)
    BY <1>2, <1>3
  <2> QED BY <2>1, HttpNumbers DEF Reached
<1>6. f[N].http.content_seen = 0
  <2>1. Alike(Cleared, f[0].http, Ended(t.bytes, 0))
    <3>1. Upto(t, 0) = f[0] /\ Upto(t, 0).http.state \in HeaderStates
      <4>1. 0 \in 0..N /\ f[0] = Start(Cleared)
        BY <1>3, <1>2 DEF IsRun
      <4> QED BY <1>2, <4>1 DEF Start, Cleared, HeaderStates
    <3> QED BY <3>1, Fresh DEF Following
  <2>2. \A k \in 1..(Len(t.bytes) - 1) : Is(t.bytes[k], CR) => Is(t.bytes[k + 1], LF)
    BY DEF CRsEndLines
  <2>3. 0 \in Nat /\ 0 + N <= N /\ \A k \in 1..N : t.bytes[k] = t.bytes[0 + k]
    BY <1>3
  <2>4. \A k \in 0..N : Joint(f[k], f[0 + k], 0, Ended(t.bytes, 0 + k))
    BY <1>1, <1>2, <2>1, <2>2, <2>3, ClearedType, RunsAlike
  <2>5. Joint(f[N], f[0 + N], 0, Ended(t.bytes, 0 + N))
    BY <1>3, <2>4
  <2> QED BY <2>5 DEF Joint, Alike
<1>7. Upto(t, q) = f[q] /\ Reached(f[q], q) /\ Len(SubSeq(t.bytes, 1, q)) = q
  BY <1>1, <1>2, <1>3
<1>8. w = IF f[q].http.state \in BodyStates THEN Content(f[q].http, f[q].offset, q)
          ELSE [http |-> f[q].http, count |-> q, is_done |-> FALSE]
  <2>1. f[q] = Header(Cleared, SubSeq(t.bytes, 1, q))
    BY <1>7 DEF Upto
  <2> QED BY <1>7, <2>1 DEF http_rsp_parse
<1> HIDE DEF w
<1> DEFINE Goal == /\ w.is_done <=> q >= t.length
                   /\ Consumed(w, q) = IF q > t.length THEN q - t.length ELSE 0
                   /\ w.is_done => /\ w.http.state = "DONE_PARSING" /\ w.http.is_content_length_seen
                                   /\ w.http.content_seen = w.http.content_length
<1> HIDE DEF Goal
<1>9. ASSUME f[q].http.state \in BodyStates PROVE Goal
  <2>1. f[q] = f[N]
    BY <1>1, <1>2, <1>3, <1>9, RunStays
  <2>2. w = Content(f[N].http, o, q)
    BY <1>8, <1>9, <2>1
  <2>3. o <= q
    BY <1>7, <2>1 DEF Reached
  <2>4. q < Wide
    <3> HIDE DEF o, L
    <3> QED BY <1>1, <1>3, <1>4, HttpResponseAssumption
  <2> DEFINE h == f[N].http
  <2>5. /\ h \in Http /\ h.state = "CONTENT" /\ h.is_content_length_seen /\ h.content_seen = 0
        /\ t.length = o + h.content_length /\ o + h.content_length < Wide /\ w = Content(h, o, q)
    BY <1>4, <1>5, <1>6, <2>2
  <2> HIDE DEF h, o
  <2> QED BY <1>3, <1>5, <2>3, <2>4, <2>5, ContentMeasured DEF Goal
<1>10. ASSUME f[q].http.state \notin BodyStates PROVE Goal
  <2>1. w = [http |-> f[q].http, count |-> q, is_done |-> FALSE]
    BY <1>8, <1>10
  <2>2. o > q
    BY <1>1, <1>2, <1>3, <1>4, <1>10, HeaderGrows DEF BodyStates
  <2>3. q < t.length
    BY <1>3, <1>4, <1>5, <2>2
  <2>4. ~w.is_done /\ Consumed(w, q) = 0
    BY <1>3, <2>1 DEF Consumed
  <2>5. t.length \in Nat
    BY <1>4, <1>5
  <2> HIDE DEF o
  <2> QED BY <1>3, <2>3, <2>4, <2>5 DEF Goal
<1> QED BY <1>9, <1>10 DEF Goal, w

(* While the worker reads, something of the response is missing; when it is   *)
(* complete, its last byte was the last one received.                         *)
Placed ==
  calls = 0 /\ text.length > 0 =>
    /\ outcome = "reading" => pos < text.length
    /\ outcome = "complete" =>
         /\ pos = text.length /\ http.state = "DONE_PARSING"
         /\ http.is_content_length_seen /\ http.content_seen = http.content_length

LEMMA RecvPlaces ==
  ASSUME CRsEndLines, LengthsFit, Measured, StreamInv, Placed, Recv,
         outcome = "reading", text.length > 0
  PROVE  /\ Placed'
         /\ \E bytes \in 1..BufLen :
              /\ pos' = pos + bytes /\ pos < text.length
              /\ outcome' = IF pos' > text.length THEN "overrun"
                            ELSE IF pos' = text.length THEN "complete" ELSE "reading"
<1>1. PICK bytes \in 1..BufLen :
           /\ pos' = pos + bytes /\ pos' \in 0..Len(text.bytes) /\ text' = text /\ calls' = 0
           /\ Visible(http') = Visible(Whole.http)'
           /\ outcome' = IF Consumed(Whole', pos') > 0 THEN "overrun"
                         ELSE IF Whole.is_done' THEN "complete" ELSE "reading"
  BY RecvReads
<1>2. text \in Texts /\ text.length \in Nat /\ Len(text.bytes) \in Nat /\ pos' \in Nat /\ pos \in Nat
  <2>1. text \in Texts /\ pos \in 0..Len(text.bytes)
    BY DEF StreamInv, TypeOK
  <2>2. text.length \in Nat /\ Len(text.bytes) \in Nat
    BY <2>1, TextBytes, TextLength
  <2> QED BY <1>1, <2>1, <2>2
<1>3. pos < text.length
  BY DEF Placed, Recv
<1> DEFINE w == http_rsp_parse(Cleared, SubSeq(text.bytes, 1, pos'))
<1>4. Whole' = w
  BY <1>1 DEF Whole
<1>5. /\ w.is_done <=> pos' >= text.length
      /\ Consumed(w, pos') = IF pos' > text.length THEN pos' - text.length ELSE 0
      /\ w.is_done => /\ w.http.state = "DONE_PARSING" /\ w.http.is_content_length_seen
                      /\ w.http.content_seen = w.http.content_length
  BY <1>1, <1>2, WholeMeasured
<1> HIDE DEF w
<1>6. Consumed(w, pos') > 0 <=> pos' > text.length
  BY <1>2, <1>5
<1>7. outcome' = IF pos' > text.length THEN "overrun"
                 ELSE IF pos' >= text.length THEN "complete" ELSE "reading"
  BY <1>1, <1>4, <1>5, <1>6
<1>8. outcome' = IF pos' > text.length THEN "overrun"
                 ELSE IF pos' = text.length THEN "complete" ELSE "reading"
  BY <1>2, <1>7
<1>9. ASSUME outcome' = "complete"
      PROVE  /\ pos' = text.length /\ http'.state = "DONE_PARSING"
             /\ http'.is_content_length_seen /\ http'.content_seen = http'.content_length
  <2>1. pos' = text.length /\ w.is_done
    BY <1>2, <1>5, <1>8, <1>9
  <2>2. Visible(http') = Visible(w.http)
    BY <1>1, <1>4
  <2> QED BY <1>5, <2>1, <2>2 DEF Visible
<1>10. outcome' = "reading" => pos' < text.length
  BY <1>2, <1>8
<1> QED BY <1>1, <1>3, <1>8, <1>9, <1>10 DEF Placed

LEMMA PlacedInvariant ==
  ASSUME CRsEndLines, LengthsFit, Measured
  PROVE  Spec => []Placed
<1>1. ASSUME Init PROVE Placed
  BY <1>1, TextLength DEF Init, Placed
<1>2. ASSUME StreamInv, Placed, Recv PROVE Placed'
  <2>1. CASE outcome = "reading" /\ text.length > 0
    BY <1>2, <2>1, RecvPlaces
  <2>2. CASE ~(text.length > 0)
    <3>1. text' = text
      BY <1>2 DEF Recv
    <3> QED BY <2>2, <3>1 DEF Placed
  <2>3. CASE outcome # "reading"
    <3>1. calls' = 1
      BY <1>2, <2>3 DEF Recv, StreamInv, TypeOK
    <3> QED BY <3>1 DEF Placed
  <2> QED BY <2>1, <2>2, <2>3
<1>3. ASSUME Placed, Clear PROVE Placed'
  BY <1>3, TextLength DEF Clear, Placed
<1>4. ASSUME Placed, UNCHANGED vars PROVE Placed'
  BY <1>4 DEF Placed, vars
<1> QED BY <1>1, <1>2, <1>3, <1>4, StreamInvariant, PTL DEF Spec, Next

(* After the end nothing more is taken. *)
LEMMA NothingTaken ==
  ASSUME NEW S, NEW px \in Seq(S), Len(px) > 0, NEW h \in Http, h.state = "DONE_PARSING",
         h.is_content_length_seen, h.content_seen = h.content_length
  PROVE  http_rsp_parse(h, px).count = 0
<1> DEFINE n == Len(px)
           r == Header(h, px)
<1>1. n \in Nat /\ n > 0
  OBVIOUS
<1>2. PICK g : IsRun(g, h, px) /\ g[n] = r
  BY HeaderRun
<1> DEFINE s == [h EXCEPT !.scanning = FALSE]
<1>3. /\ s.state = h.state /\ s.content_length = h.content_length /\ s.content_seen = h.content_seen
      /\ s.is_content_length_seen = h.is_content_length_seen
  BY DEF Http
<1>4. g[0] = [http |-> s, offset |-> 0]
  BY <1>2 DEF IsRun, Start
<1> HIDE DEF s
<1>5. g[0].http.state \in BodyStates
  BY <1>3, <1>4 DEF BodyStates
<1>6. r = g[0]
  <2>1. 0 \in 0..Len(px) /\ n \in 0..Len(px)
    BY <1>1
  <2> HIDE DEF r
  <2> QED BY <1>1, <1>2, <1>5, <2>1, RunStays
<1>7. http_rsp_parse(h, px) = Content(s, 0, n)
  BY <1>4, <1>5, <1>6 DEF http_rsp_parse
<1>8. (0 + s.content_length - s.content_seen) % Wide = 0
  <2>1. s.content_length \in Nat /\ s.content_seen = s.content_length
    BY <1>3, HttpNumbers
  <2>2. 0 + s.content_length - s.content_seen = 0
    BY <2>1
  <2> QED BY <2>2, Modulo, HttpResponseAssumption
<1> QED BY <1>1, <1>3, <1>7, <1>8 DEF Content

(* However recv() cuts a response of a known length, the parser takes what    *)
(* belongs to it and no more, and says with its last byte that it is          *)
(* complete: what RunLoop supposes of the parser.                             *)
THEOREM ParserCounts ==
  ASSUME CRsEndLines, LengthsFit, Measured
  PROVE  Spec => ImplementsResponseCounter
<1> DEFINE Seen == IF pos < text.length THEN pos ELSE text.length
<1>1. ASSUME Init PROVE Counter!Init
  <2>1. text.length \in Nat /\ pos = 0 /\ outcome = "reading"
    BY <1>1, TextLength DEF Init
  <2> QED BY <2>1 DEF Counter!Init
<1>2. ASSUME StreamInv, Placed, Recv PROVE Counter!Next
  <2>1. text' = text /\ text \in Texts /\ text.length \in Nat /\ calls = 0
        /\ outcome \in {"reading", "complete"}
    BY <1>2, TextLength DEF Recv, StreamInv, TypeOK
  <2>2. CASE text.length = 0
    <3>1. outcome' \in {"reading", "complete", "overrun"}
      BY <1>2 DEF Recv
    <3>2. pos \in Nat /\ pos' \in Nat
      <4>1. Len(text.bytes) \in Nat
        BY <2>1, TextBytes
      <4> QED BY <1>2, <4>1, ResponseStreamAssumption DEF Recv, StreamInv, TypeOK
    <3>3. Counter!TakeUnmeasured
      BY <2>1, <2>2, <3>1, <3>2 DEF Counter!TakeUnmeasured
    <3> QED BY <3>3 DEF Counter!Next
  <2>3. CASE text.length > 0 /\ outcome = "reading"
    <3>1. PICK bytes \in 1..BufLen :
              /\ pos' = pos + bytes /\ pos < text.length
              /\ outcome' = IF pos' > text.length THEN "overrun"
                            ELSE IF pos' = text.length THEN "complete" ELSE "reading"
      BY <1>2, <2>3, RecvPlaces
    <3>2. pos \in Nat /\ bytes \in Nat
      <4>1. Len(text.bytes) \in Nat
        BY <2>1, TextBytes
      <4> QED BY <1>2, <4>1, ResponseStreamAssumption DEF StreamInv, TypeOK
    <3>3. Counter!Take(bytes)
      BY <2>1, <2>3, <3>1, <3>2 DEF Counter!Take
    <3> QED BY <3>3 DEF Counter!Next
  <2>4. CASE text.length > 0 /\ outcome = "complete"
    <3>1. pos = text.length /\ http.state = "DONE_PARSING"
          /\ http.is_content_length_seen /\ http.content_seen = http.content_length
      BY <2>1, <2>4, <1>2 DEF Placed
    <3>2. PICK bytes \in 1..BufLen :
            LET c == http_rsp_parse(http, SubSeq(text.bytes, pos + 1, pos + bytes))
            IN /\ pos + bytes <= Len(text.bytes) /\ pos' = pos + bytes
               /\ outcome' = IF c.count < bytes THEN "overrun"
                             ELSE IF c.is_done THEN "complete" ELSE "reading"
      BY <1>2 DEF Recv
    <3>3. PICK S : text.bytes \in Seq(S) /\ Len(text.bytes) \in Nat
      BY <2>1, TextBytes
    <3>4. pos \in Nat /\ bytes \in Nat /\ bytes > 0
      BY <1>2, <3>3, ResponseStreamAssumption DEF StreamInv, TypeOK
    <3> DEFINE piece == SubSeq(text.bytes, pos + 1, pos + bytes)
    <3>5. piece \in Seq(S) /\ Len(piece) = bytes
      BY <3>2, <3>3, <3>4, Piece
    <3>6. outcome' = IF http_rsp_parse(http, piece).count < bytes THEN "overrun"
                     ELSE IF http_rsp_parse(http, piece).is_done THEN "complete" ELSE "reading"
      BY <3>2
    <3> HIDE DEF piece
    <3>7. http_rsp_parse(http, piece).count = 0
      BY <1>2, <3>1, <3>4, <3>5, NothingTaken DEF StreamInv, TypeOK
    <3>8. outcome' = "overrun"
      BY <3>4, <3>6, <3>7
    <3>9. Counter!Take(bytes)
      BY <2>1, <2>4, <3>1, <3>2, <3>4, <3>8 DEF Counter!Take
    <3> QED BY <3>9 DEF Counter!Next
  <2> QED BY <2>1, <2>2, <2>3, <2>4
<1>3. ASSUME Clear PROVE Counter!Next
  <2>1. text' \in Texts /\ text'.length \in Nat /\ pos' = 0
    BY <1>3, TextLength DEF Clear
  <2>2. Counter!Clear
    BY <1>3, <2>1 DEF Clear, Counter!Clear
  <2> QED BY <2>2 DEF Counter!Next
<1>4. ASSUME UNCHANGED vars PROVE UNCHANGED Counter!vars
  BY <1>4 DEF vars, Counter!vars
<1> QED BY <1>1, <1>2, <1>3, <1>4, StreamInvariant, PlacedInvariant, PTL
        DEF Spec, Next, ImplementsResponseCounter, Counter!Spec
===============================================================================
