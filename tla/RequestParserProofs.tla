------------------------- MODULE RequestParserProofs ------------------------
(***************************************************************************)
(* Proofs about RequestParser, for requests, spoiled characters and        *)
(* incomplete reads of any kind.                                           *)
(***************************************************************************)
EXTENDS RequestParser, TLAPS

Header == [name : Seq(Characters), value : Seq(Characters)]

Steps(c) ==
    \/ Method(c) \/ PathStart(c) \/ InHandlerPath(c) \/ InUri(c) \/ OneChar(c)
    \/ Version(c) \/ HeaderLineStart(c) \/ HeaderLws(c) \/ HeaderName(c)
    \/ HeaderValue(c) \/ Body(c)

(***************************************************************************)
(* The beginnings of a sequence.                                           *)
(***************************************************************************)
LEMMA Grows ==
    ASSUME NEW S, NEW s \in Seq(S), NEW k \in 0 .. Len(s) - 1
    PROVE  SubSeq(s, 1, k + 1) = Append(SubSeq(s, 1, k), s[k + 1])
OBVIOUS

LEMMA Whole ==
    ASSUME NEW S, NEW s \in Seq(S)
    PROVE  SubSeq(s, 1, 0) = << >> /\ SubSeq(s, 1, Len(s)) = s
OBVIOUS

\* One more character at the end.
LEMMA Joined ==
    ASSUME NEW s \in Seq(Characters), NEW t \in Seq(Characters), NEW c \in Characters
    PROVE  Append(s \o t, c) = s \o Append(t, c)
OBVIOUS

LEMMA Empty ==
    ASSUME NEW S, NEW s \in Seq(S), Len(s) = 0
    PROVE  s = << >>
OBVIOUS

LEMMA Begins ==
    ASSUME NEW S, NEW s \in Seq(S), NEW k \in 0 .. Len(s)
    PROVE  IsPrefix(SubSeq(s, 1, k), s) /\ IsPrefix(<< >>, s) /\ IsPrefix(s, s)
BY DEF IsPrefix
-----------------------------------------------------------------------------
(***************************************************************************)
(* The client: where it is in the text.                                    *)
(***************************************************************************)
InHeader == {"name", "colon", "line", "fold"}
InRequestLine == {"method", "sp", "uri", "http", "major", "dot", "minor"}

Place ==
    /\ sent \in Requests
    /\ part \in InRequestLine \cup InHeader \cup {"eol", "end", "body"}
    /\ header \in 0 .. Len(sent.headers) /\ line \in Nat
    /\ part \in InHeader => header > 0
    /\ header > 0 => line \in 1 .. Len(sent.headers[header].lines)
    /\ part \in {"name", "colon"} => line = 1
    /\ part = "fold" => line > 1
    /\ part \in InRequestLine => header = 0
    /\ part \in {"end", "body"} => header = Len(sent.headers)

Pos == Place /\ n \in 0 .. Len(Piece)

LEMMA SentType ==
    ASSUME Place
    PROVE  /\ sent \in Request
           /\ sent.method \in Seq(Characters) /\ sent.uri \in Seq(Characters)
           /\ sent.major \in Seq(Characters) /\ sent.minor \in Seq(Characters)
           /\ sent.body \in Seq(Characters)
           /\ Len(sent.headers) \in Nat
           /\ \A i \in 1 .. Len(sent.headers) :
                /\ sent.headers[i] \in [name : Seq(Tokens), lines : Seq(Seq(Printed))]
                /\ sent.headers[i].name \in Seq(Characters)
                /\ \A l \in 1 .. Len(sent.headers[i].lines) :
                     sent.headers[i].lines[l] \in Seq(Characters)
<1>1. sent \in Request
  BY RequestAssumption DEF Place
<1>2. Tokens \subseteq Characters /\ Printed \subseteq Characters /\ Digits \subseteq Characters
  BY DEF Tokens, Printed, Digits
<1>3. \A s \in Seq(Tokens) : s \in Seq(Characters)
  BY <1>2
<1>4. \A s \in Seq(Printed) : s \in Seq(Characters)
  BY <1>2
<1>5. \A s \in Seq(Digits) : s \in Seq(Characters)
  BY <1>2
<1>6. \A s \in Seq(Printed \ {"space"}) : s \in Seq(Characters)
  BY <1>2
<1>7. /\ sent.method \in Seq(Tokens) /\ sent.uri \in Seq(Printed \ {"space"})
      /\ sent.major \in Seq(Digits) /\ sent.minor \in Seq(Digits) /\ sent.body \in Seq(Characters)
      /\ sent.headers \in Seq([name : Seq(Tokens), lines : Seq(Seq(Printed))])
  BY <1>1 DEF Request
<1>8. ASSUME NEW i \in 1 .. Len(sent.headers)
      PROVE  /\ sent.headers[i] \in [name : Seq(Tokens), lines : Seq(Seq(Printed))]
             /\ sent.headers[i].name \in Seq(Characters)
             /\ \A l \in 1 .. Len(sent.headers[i].lines) :
                  sent.headers[i].lines[l] \in Seq(Characters)
  <2>1. sent.headers[i] \in [name : Seq(Tokens), lines : Seq(Seq(Printed))]
    <3> DEFINE T == [name : Seq(Tokens), lines : Seq(Seq(Printed))]
    <3>1. sent.headers \in Seq(T)
      BY <1>7
    <3> HIDE DEF T
    <3>2. sent.headers[i] \in T
      BY <3>1
    <3> QED
      BY <3>2 DEF T
  <2>2. sent.headers[i].name \in Seq(Tokens) /\ sent.headers[i].lines \in Seq(Seq(Printed))
    BY <2>1
  <2>3. \A l \in 1 .. Len(sent.headers[i].lines) : sent.headers[i].lines[l] \in Seq(Printed)
    BY <2>2
  <2> QED
    BY <1>3, <1>4, <2>1, <2>2, <2>3
<1>9. Len(sent.headers) \in Nat
  BY <1>7
<1> QED
  BY <1>1, <1>3, <1>5, <1>6, <1>7, <1>8, <1>9

\* The part that is written, case by case.
LEMMA Pieces ==
    ASSUME Place
    PROVE  /\ part = "method" => Piece = sent.method
           /\ part = "uri" => Piece = sent.uri
           /\ part = "major" => Piece = sent.major
           /\ part = "minor" => Piece = sent.minor
           /\ part = "body" => Piece = sent.body
           /\ part = "name" => Piece = sent.headers[header].name
           /\ part = "line" => Piece = sent.headers[header].lines[line]
           /\ part \in {"sp", "fold"} => Piece = <<"space">>
           /\ part = "http" => Piece = <<"space", "H", "T", "T", "P", "/">>
           /\ part = "dot" => Piece = <<".">>
           /\ part \in {"eol", "end"} => Piece = <<"cr", "nl">>
           /\ part = "colon" => Piece = <<":", "space">>
BY DEF Piece, Between, Place

LEMMA PieceType == Place => Piece \in Seq(Characters)
<1> SUFFICES ASSUME Place PROVE Piece \in Seq(Characters)
  OBVIOUS
<1>1. {"space", "H", "T", "P", "/", ".", "cr", "nl", ":"} \subseteq Characters
  BY DEF Characters
<1>2. <<"space">> \in Seq(Characters) /\ <<".">> \in Seq(Characters)
      /\ <<"cr", "nl">> \in Seq(Characters) /\ <<":", "space">> \in Seq(Characters)
      /\ <<"space", "H", "T", "T", "P", "/">> \in Seq(Characters)
  BY <1>1
<1>3. CASE part \in {"name", "line"}
  <2>1. header \in 1 .. Len(sent.headers) /\ line \in 1 .. Len(sent.headers[header].lines)
    BY <1>3 DEF Place, InHeader
  <2> QED
    BY <1>3, <2>1, Pieces, SentType
<1>4. CASE part \in {"method", "uri", "major", "minor", "body"}
  BY <1>4, Pieces, SentType
<1>5. CASE part \notin {"name", "line", "method", "uri", "major", "minor", "body"}
  BY <1>2, <1>5, Pieces DEF Place, InRequestLine, InHeader
<1> QED
  BY <1>3, <1>4, <1>5

LEMMA PieceTypeNext == (Place => Piece \in Seq(Characters))'
BY PieceType, PTL

LEMMA PiecesNext == (Place /\ part = "end" => Piece = <<"cr", "nl">>)'
<1>1. Place /\ part = "end" => Piece = <<"cr", "nl">>
  BY Pieces
<1> QED
  BY <1>1, PTL

LEMMA PosInit == RequestInit => Pos
<1> SUFFICES ASSUME RequestInit PROVE Pos
  OBVIOUS
<1>0. Len(sent.headers) \in Nat
  BY RequestAssumption DEF RequestInit, Request
<1>1. Place
  BY <1>0 DEF RequestInit, Place, InRequestLine, InHeader
<1>2. Len(Piece) \in Nat
  BY <1>1, PieceType
<1> QED
  BY <1>1, <1>2 DEF Pos, RequestInit

\* Between two parts.
LEMMA NextPartPos == Pos /\ NextPart => Pos'
<1> SUFFICES ASSUME Pos, NextPart PROVE Pos'
  OBVIOUS
<1>1. Place'
  <2>1. /\ sent' = sent /\ sent \in Requests /\ Len(sent.headers) \in Nat
        /\ header \in 0 .. Len(sent.headers)
    BY SentType DEF NextPart, Pos, Place
  <2>2. CASE part \in DOMAIN After /\ part' = After[part] /\ UNCHANGED <<header, line>>
    BY <2>1, <2>2 DEF Pos, Place, After, InRequestLine, InHeader
  <2>3. CASE part = "eol" /\ GoOnWithValue /\ part' = "fold" /\ line' = line + 1 /\ header' = header
    <3>1. Len(sent.headers[header].lines) \in Nat
      <4>1. header \in 1 .. Len(sent.headers)
        BY <2>1, <2>3 DEF GoOnWithValue
      <4>2. sent.headers[header] \in [name : Seq(Tokens), lines : Seq(Seq(Printed))]
        BY <4>1, SentType DEF Pos
      <4> QED
        BY <4>2
    <3> QED
      BY <2>1, <2>3, <3>1 DEF Pos, Place, GoOnWithValue, InRequestLine, InHeader
  <2>4. CASE /\ part = "eol" /\ header < Len(sent.headers)
             /\ part' = "name" /\ header' = header + 1 /\ line' = 1
    <3>1. header + 1 \in 1 .. Len(sent.headers)
      BY <2>1, <2>4
    <3>2. sent.headers[header + 1].lines # << >>
          /\ sent.headers[header + 1].lines \in Seq(Seq(Printed))
      BY <3>1, SentType, RequestAssumption DEF Pos, Place
    <3>3. 1 \in 1 .. Len(sent.headers[header + 1].lines)
      BY <3>2
    <3> QED
      BY <2>1, <2>4, <3>1, <3>3 DEF Pos, Place, InRequestLine, InHeader
  <2>5. CASE part = "eol" /\ ~(header < Len(sent.headers)) /\ part' = "end"
             /\ UNCHANGED <<header, line>>
    BY <2>1, <2>5 DEF Pos, Place, InRequestLine, InHeader
  <2> QED
    BY <2>2, <2>3, <2>4, <2>5 DEF NextPart
<1>2. Piece' \in Seq(Characters)
  BY <1>1, PieceTypeNext
<1>3. n' = 0
  BY DEF NextPart
<1> QED
  BY <1>1, <1>2, <1>3 DEF Pos

LEMMA WritesPos == ASSUME Pos, NEW c, Writes(c) PROVE Pos' /\ c \in Characters
<1>1. UNCHANGED <<sent, part, header, line>> /\ n < Len(Piece) /\ n' = n + 1
      /\ (c = Piece[n + 1] \/ c \in Spoilers)
  BY DEF Writes
<1>2. Piece \in Seq(Characters)
  BY PieceType DEF Pos
<1>3. Place' /\ Piece' = Piece
  BY <1>1 DEF Pos, Place, Piece
<1>4. c \in Characters
  BY <1>1, <1>2, RequestAssumption DEF Pos
<1> QED
  BY <1>1, <1>2, <1>3, <1>4 DEF Pos
-----------------------------------------------------------------------------
(***************************************************************************)
(* The parser: which action a state has, and what it does with a character *)
(* of the part that is written.                                            *)
(***************************************************************************)
\* Each group of states has one action.
LEMMA Which ==
    ASSUME NEW c, Steps(c)
    PROVE  /\ state \in {"method_start", "method_inside"} => Method(c)
           /\ state = "handler_path_start" => PathStart(c)
           /\ state = "handler_path" => InHandlerPath(c)
           /\ state = "uri_inside" => InUri(c)
           /\ state \in DOMAIN Expected => OneChar(c)
           /\ state \in {"http_version_major_start", "http_version_major",
                         "http_version_minor_start", "http_version_minor"} => Version(c)
           /\ state = "header_line_start" => HeaderLineStart(c)
           /\ state = "header_lws" => HeaderLws(c)
           /\ state = "header_name" => HeaderName(c)
           /\ state = "header_value" => HeaderValue(c)
           /\ state \in {"expecting_newline_3", "body_state"} => Body(c)
           /\ Writes(c) /\ parsed_status # "bad" /\ state \in States
<1>1. /\ Method(c) => state \in {"method_start", "method_inside"}
      /\ PathStart(c) => state = "handler_path_start"
      /\ InHandlerPath(c) => state = "handler_path"
      /\ InUri(c) => state = "uri_inside"
      /\ OneChar(c) => state \in DOMAIN Expected
      /\ Version(c) => state \in {"http_version_major_start", "http_version_major",
                                  "http_version_minor_start", "http_version_minor"}
      /\ HeaderLineStart(c) => state = "header_line_start"
      /\ HeaderLws(c) => state = "header_lws"
      /\ HeaderName(c) => state = "header_name"
      /\ HeaderValue(c) => state = "header_value"
      /\ Body(c) => state \in {"expecting_newline_3", "body_state"}
  BY Zenon DEF Method, PathStart, InHandlerPath, InUri, OneChar, Version, HeaderLineStart,
      HeaderLws, HeaderName, HeaderValue, Body, Reads
<1>2. Writes(c) /\ parsed_status # "bad"
  BY Zenon DEF Steps, Method, PathStart, InHandlerPath, InUri, OneChar, Version, HeaderLineStart,
      HeaderLws, HeaderName, HeaderValue, Body, Reads
<1>3. DOMAIN Expected = {"http_version_h", "http_version_t_1", "http_version_t_2",
          "http_version_p", "http_version_slash", "expecting_newline_1",
          "space_before_header_value", "expecting_newline_2"}
  BY DEF Expected
<1> QED
  BY <1>1, <1>2, <1>3 DEF Steps, States

\* The character that comes next in each part is of its class.
LEMMA CharOf ==
    ASSUME Pos, n < Len(Piece), NEW c, c = Piece[n + 1]
    PROVE  /\ part \in {"method", "name"} => IsToken(c)
           /\ part = "uri" => ~IsCtl(c) /\ c # "space" /\ (n = 0 => c = "/")
           /\ part \in {"major", "minor"} => IsDigit(c)
           /\ part = "line" => ~IsCtl(c) /\ (line > 1 /\ n = 0 => c # "space")
           /\ part \in {"sp", "fold"} => n = 0 /\ c = "space"
           /\ part = "dot" => n = 0 /\ c = "."
           /\ part = "colon" => n \in {0, 1} /\ c = IF n = 0 THEN ":" ELSE "space"
           /\ part \in {"eol", "end"} => n \in {0, 1} /\ c = IF n = 0 THEN "cr" ELSE "nl"
           /\ part = "http" => n \in 0 .. 5 /\ c = <<"space", "H", "T", "T", "P", "/">>[n + 1]
<1>0. sent \in Requests
  BY DEF Pos, Place
<1>1. Place /\ n \in Nat /\ n + 1 \in 1 .. Len(Piece) /\ sent \in Request
  BY SentType, PieceType DEF Pos
<1>2. CASE part = "method"
  <2>1. sent.method \in Seq(Tokens) /\ Piece = sent.method
    BY <1>1, <1>2, Pieces DEF Request
  <2>2. c \in Tokens
    BY <1>1, <2>1
  <2> QED
    BY <1>2, <2>2 DEF Tokens
<1>3. CASE part = "uri"
  <2>1. sent.uri \in Seq(Printed \ {"space"}) /\ Piece = sent.uri
    BY <1>1, <1>3, Pieces DEF Request
  <2>2. c \in Printed \ {"space"}
    BY <1>1, <2>1
  <2>3. n = 0 => c = "/"
    BY <1>1, <2>1, RequestAssumption DEF Place
  <2> QED
    BY <1>3, <2>2, <2>3 DEF Printed
<1>4. CASE part \in {"major", "minor"}
  <2>1. Piece \in Seq(Digits)
    BY <1>1, <1>4, Pieces DEF Request
  <2>2. c \in Digits
    BY <1>1, <2>1
  <2> QED
    BY <1>4, <2>2 DEF Digits
<1>5. CASE part \in {"name", "line"}
  <2>1. header \in 1 .. Len(sent.headers) /\ line \in 1 .. Len(sent.headers[header].lines)
    BY <1>1, <1>5, SentType DEF Place, InHeader
  <2>2. sent.headers[header] \in [name : Seq(Tokens), lines : Seq(Seq(Printed))]
    BY <1>1, <2>1, SentType
  <2>3. sent.headers[header].name \in Seq(Tokens)
        /\ sent.headers[header].lines[line] \in Seq(Printed)
    BY <2>1, <2>2
  <2>4. CASE part = "name"
    <3>1. c \in Tokens
      BY <1>1, <2>3, <2>4, Pieces
    <3> QED
      BY <2>4, <3>1 DEF Tokens
  <2>5. CASE part = "line"
    <3>1. c \in Printed /\ Piece = sent.headers[header].lines[line]
      BY <1>1, <2>3, <2>5, Pieces
    <3>2. line > 1 => line \in 2 .. Len(sent.headers[header].lines)
      BY <2>1
    <3>3. line > 1 /\ n = 0 => c # "space"
      <4> SUFFICES ASSUME line > 1, n = 0 PROVE c # "space"
        OBVIOUS
      <4>1. sent.headers[header].lines[line] # << >>
        BY <1>1, <2>3, <3>1
      <4> QED
        BY <1>0, <2>1, <3>1, <3>2, <4>1, RequestAssumption
    <3> QED
      BY <2>5, <3>1, <3>3 DEF Printed
  <2> QED
    BY <1>5, <2>4, <2>5
<1>6. CASE part \in {"sp", "fold", "dot"}
  BY <1>1, <1>6, Pieces
<1>7. CASE part \in {"colon", "eol", "end"}
  BY <1>1, <1>7, Pieces
<1>8. CASE part = "http"
  <2>1. Piece = <<"space", "H", "T", "T", "P", "/">> /\ Len(Piece) = 6
    BY <1>1, <1>8, Pieces
  <2> QED
    BY <1>1, <1>8, <2>1
<1>9. CASE part = "body"
  BY <1>9
<1> QED
  BY <1>1, <1>2, <1>3, <1>4, <1>5, <1>6, <1>7, <1>8, <1>9 DEF Place, InRequestLine, InHeader

\* Where the parser is when the client is in each part.
StateFits ==
    /\ part = "method" => state = IF n = 0 THEN "method_start" ELSE "method_inside"
    /\ part = "sp" => state = IF n = 0 THEN "method_inside" ELSE "handler_path_start"
    /\ part = "uri" => IF n = 0 THEN state = "handler_path_start"
                       ELSE state \in {"handler_path", "uri_inside"}
    /\ part = "http" => IF n = 0 THEN state \in {"handler_path", "uri_inside"}
                        ELSE state = <<"http_version_h", "http_version_t_1", "http_version_t_2",
                                       "http_version_p", "http_version_slash",
                                       "http_version_major_start">>[n]
    /\ part = "major" => state = IF n = 0 THEN "http_version_major_start"
                                 ELSE "http_version_major"
    /\ part = "dot" => state = IF n = 0 THEN "http_version_major" ELSE "http_version_minor_start"
    /\ part = "minor" => state = IF n = 0 THEN "http_version_minor_start"
                                 ELSE "http_version_minor"
    /\ part = "eol" =>
         CASE n = 0 -> state \in IF header = 0 THEN {"http_version_minor"}
                                 ELSE {"header_value", "header_lws"}
           [] n = 1 -> state = IF header = 0 THEN "expecting_newline_1" ELSE "expecting_newline_2"
           [] OTHER -> state = "header_line_start"
    /\ part = "name" => state = IF n = 0 THEN "header_line_start" ELSE "header_name"
    /\ part = "colon" => state = CASE n = 0 -> "header_name"
                                   [] n = 1 -> "space_before_header_value"
                                   [] OTHER -> "header_value"
    /\ part = "line" => state = IF n = 0 /\ line > 1 THEN "header_lws" ELSE "header_value"
    /\ part = "fold" => state = IF n = 0 THEN "header_line_start" ELSE "header_lws"
    /\ part = "end" => state = CASE n = 0 -> "header_line_start"
                                 [] n = 1 -> "expecting_newline_3"
                                 [] OTHER -> "body_state"
    /\ part = "body" => state = "body_state"

\* What consuming the next character c of the part does to the fields.
FieldEffect(c) ==
    /\ part = "method" => method' = Append(method, c) /\ UNCHANGED notMethod
    /\ part = "uri" => /\ uri' = Append(uri, c) /\ UNCHANGED notUri
                       /\ IF state' = "handler_path"
                          THEN handler_path' = Append(handler_path, c) /\ file_path' = file_path
                          ELSE file_path' = Append(file_path, c) /\ handler_path' = handler_path
                       /\ state = "uri_inside" => state' = "uri_inside"
    /\ part \in {"major", "dot", "minor"} => version' = Append(version, c) /\ UNCHANGED notVersion
    /\ part = "name" => /\ IF n = 0 THEN headers' = Append(headers, NewHeader(c))
                           ELSE headers' = [headers EXCEPT ![Len(headers)] =
                                              [Back EXCEPT !.name = Append(@, c)]]
                        /\ UNCHANGED notHeaders
    /\ part = "line" => /\ headers' = [headers EXCEPT ![Len(headers)] =
                                         [Back EXCEPT !.value = Append(@, c)]]
                        /\ UNCHANGED notHeaders
    /\ part = "body" => body' = Append(body, c) /\ UNCHANGED notBody
    /\ part \in {"sp", "http", "eol", "colon", "fold", "end"} => UNCHANGED fields

StatusAfter ==
    CASE part = "body" -> parsed_status' = parsed_status
      [] part = "end" /\ n = 1 -> parsed_status' = "good"
      [] OTHER -> parsed_status' = "indeterminate"

\* A character of the text moves the parser on as it moves the client on.
LEMMA Effect ==
    ASSUME Pos, StateFits, part = "fold" => headers # << >>,
           n < Len(Piece), NEW c, c = Piece[n + 1], Steps(c)
    PROVE  StateFits' /\ FieldEffect(c) /\ StatusAfter
<1>1. /\ n' = n + 1 /\ part' = part /\ header' = header /\ line' = line /\ n \in Nat
      /\ n + 1 # 0
  BY Which, PieceType DEF Writes, Pos
<1>2. CASE part = "method"
  <2>1. Method(c) /\ IsToken(c)
    BY <1>2, Which, CharOf DEF StateFits
  <2>2. c # "space"
    BY <2>1 DEF IsToken, IsTspecial
  <2>3. Goto("method_inside") /\ method' = Append(method, c) /\ UNCHANGED notMethod
    BY <2>1, <2>2 DEF Method
  <2> QED
    BY <1>1, <1>2, <2>3 DEF StateFits, FieldEffect, StatusAfter, Goto
<1>3. CASE part = "sp"
  <2>1. Method(c) /\ c = "space" /\ n = 0 /\ state = "method_inside"
    BY <1>3, Which, CharOf DEF StateFits
  <2>2. Goto("handler_path_start") /\ UNCHANGED fields
    BY <2>1 DEF Method, IsToken, IsTspecial
  <2> QED
    BY <1>1, <1>3, <2>1, <2>2 DEF StateFits, FieldEffect, StatusAfter, Goto
<1>4. CASE part = "uri"
  <2>1. ~IsCtl(c) /\ c # "space" /\ (n = 0 => c = "/")
    BY <1>4, CharOf
  <2>2. CASE n = 0
    <3>1. PathStart(c) /\ c = "/"
      BY <1>4, <2>1, <2>2, Which DEF StateFits
    <3> QED
      BY <1>1, <1>4, <2>2, <3>1 DEF PathStart, StateFits, FieldEffect, StatusAfter, Goto
  <2>3. CASE n # 0 /\ state = "handler_path"
    <3>1. InHandlerPath(c)
      BY <2>3, Which
    <3> QED
      BY <1>1, <1>4, <2>1, <2>3, <3>1
         DEF InHandlerPath, StateFits, FieldEffect, StatusAfter, Goto
  <2>4. CASE n # 0 /\ state = "uri_inside"
    <3>1. InUri(c)
      BY <2>4, Which
    <3> QED
      BY <1>1, <1>4, <2>1, <2>4, <3>1 DEF InUri, StateFits, FieldEffect, StatusAfter, Goto
  <2> QED
    BY <1>4, <2>2, <2>3, <2>4 DEF StateFits
<1>5. CASE part = "http"
  <2>1. n \in 0 .. 5 /\ c = <<"space", "H", "T", "T", "P", "/">>[n + 1]
    BY <1>5, CharOf
  <2>2. CASE n = 0
    <3>1. c = "space" /\ (InHandlerPath(c) \/ InUri(c))
      BY <1>5, <2>1, <2>2, Which DEF StateFits
    <3>2. Goto("http_version_h") /\ UNCHANGED fields
      BY <3>1 DEF InHandlerPath, InUri, IsCtl
    <3> QED
      BY <1>1, <1>5, <2>2, <3>2 DEF StateFits, FieldEffect, StatusAfter, Goto
  <2>3. CASE n # 0
    <3>1. state = <<"http_version_h", "http_version_t_1", "http_version_t_2",
                    "http_version_p", "http_version_slash">>[n]
      BY <1>5, <2>1, <2>3 DEF StateFits
    <3>2. /\ OneChar(c) /\ c = Expected[state][1]
          /\ Expected[state][2] = <<"http_version_h", "http_version_t_1", "http_version_t_2",
                    "http_version_p", "http_version_slash", "http_version_major_start">>[n + 1]
      BY <2>1, <2>3, <3>1, Which DEF Expected
    <3>3. Goto(Expected[state][2]) /\ UNCHANGED fields
      BY <3>2 DEF OneChar
    <3> QED
      BY <1>1, <1>5, <2>3, <3>2, <3>3 DEF StateFits, FieldEffect, StatusAfter, Goto
  <2> QED
    BY <2>2, <2>3
<1>6. CASE part \in {"major", "minor"}
  <2>1. Version(c) /\ IsDigit(c)
    BY <1>6, Which, CharOf DEF StateFits
  <2>2. /\ Goto(IF part = "major" THEN "http_version_major" ELSE "http_version_minor")
        /\ version' = Append(version, c) /\ UNCHANGED notVersion
    BY <1>6, <2>1 DEF Version, IsDigit, StateFits
  <2> QED
    BY <1>1, <1>6, <2>2 DEF StateFits, FieldEffect, StatusAfter, Goto
<1>7. CASE part = "dot"
  <2>1. Version(c) /\ n = 0 /\ c = "." /\ state = "http_version_major"
    BY <1>7, Which, CharOf DEF StateFits
  <2>2. /\ Goto("http_version_minor_start")
        /\ version' = Append(version, c) /\ UNCHANGED notVersion
    BY <2>1 DEF Version, IsDigit
  <2> QED
    BY <1>1, <1>7, <2>1, <2>2 DEF StateFits, FieldEffect, StatusAfter, Goto
<1>8. CASE part = "eol"
  <2>1. n \in {0, 1} /\ c = IF n = 0 THEN "cr" ELSE "nl"
    BY <1>8, CharOf
  <2>2. CASE n = 0 /\ header = 0
    <3>1. Version(c) /\ state = "http_version_minor" /\ c = "cr"
      BY <1>8, <2>1, <2>2, Which DEF StateFits
    <3>2. Goto("expecting_newline_1") /\ UNCHANGED fields
      BY <3>1 DEF Version, IsDigit
    <3> QED
      BY <1>1, <1>8, <2>2, <3>2 DEF StateFits, FieldEffect, StatusAfter, Goto
  <2>3. CASE n = 0 /\ header # 0
    <3>1. c = "cr" /\ (HeaderLws(c) \/ HeaderValue(c))
      BY <1>8, <2>1, <2>3, Which DEF StateFits
    <3>2. Goto("expecting_newline_2") /\ UNCHANGED fields
      BY <3>1 DEF HeaderLws, HeaderValue
    <3> QED
      BY <1>1, <1>8, <2>3, <3>2 DEF StateFits, FieldEffect, StatusAfter, Goto
  <2>4. CASE n = 1
    <3>1. state \in {"expecting_newline_1", "expecting_newline_2"} /\ c = "nl"
      BY <1>8, <2>1, <2>4 DEF StateFits
    <3>2. OneChar(c) /\ Expected[state] = <<"nl", "header_line_start">>
      BY <3>1, Which DEF Expected
    <3>3. Goto("header_line_start") /\ UNCHANGED fields
      BY <3>1, <3>2 DEF OneChar
    <3> QED
      BY <1>1, <1>8, <2>4, <3>3 DEF StateFits, FieldEffect, StatusAfter, Goto
  <2> QED
    BY <2>1, <2>2, <2>3, <2>4
<1>9. CASE part = "name"
  <2>1. IsToken(c) /\ c \notin {"cr", "space", "tab", ":"}
    BY <1>9, CharOf DEF IsToken, IsCtl, IsTspecial
  <2>2. CASE n = 0
    <3>1. HeaderLineStart(c)
      BY <1>9, <2>2, Which DEF StateFits
    <3>2. /\ Goto("header_name") /\ headers' = Append(headers, NewHeader(c))
          /\ UNCHANGED notHeaders
      BY <2>1, <3>1 DEF HeaderLineStart
    <3> QED
      BY <1>1, <1>9, <2>2, <3>2 DEF StateFits, FieldEffect, StatusAfter, Goto
  <2>3. CASE n # 0
    <3>1. HeaderName(c)
      BY <1>9, <2>3, Which DEF StateFits
    <3>2. Goto("header_name") /\ AddToName(c)
      BY <2>1, <3>1 DEF HeaderName
    <3> QED
      BY <1>1, <1>9, <2>3, <3>2
         DEF StateFits, FieldEffect, StatusAfter, Goto, AddToName, ChangeBack
  <2> QED
    BY <2>2, <2>3
<1>10. CASE part = "colon"
  <2>1. n \in {0, 1} /\ c = IF n = 0 THEN ":" ELSE "space"
    BY <1>10, CharOf
  <2>2. CASE n = 0
    <3>1. HeaderName(c) /\ c = ":"
      BY <1>10, <2>1, <2>2, Which DEF StateFits
    <3>2. Goto("space_before_header_value") /\ UNCHANGED fields
      BY <3>1 DEF HeaderName, IsToken, IsTspecial
    <3> QED
      BY <1>1, <1>10, <2>2, <3>2 DEF StateFits, FieldEffect, StatusAfter, Goto
  <2>3. CASE n = 1
    <3>1. state = "space_before_header_value" /\ c = "space"
      BY <1>10, <2>1, <2>3 DEF StateFits
    <3>2. OneChar(c) /\ Expected[state] = <<"space", "header_value">>
      BY <3>1, Which DEF Expected
    <3>3. Goto("header_value") /\ UNCHANGED fields
      BY <3>1, <3>2 DEF OneChar
    <3> QED
      BY <1>1, <1>10, <2>3, <3>3 DEF StateFits, FieldEffect, StatusAfter, Goto
  <2> QED
    BY <2>1, <2>2, <2>3
<1>11. CASE part = "line"
  <2>1. ~IsCtl(c) /\ (line > 1 /\ n = 0 => c # "space")
    BY <1>11, CharOf
  <2>2. Goto("header_value") /\ AddToValue(c)
    <3>1. CASE state = "header_lws"
      <4>1. n = 0 /\ line > 1
        BY <1>11, <3>1 DEF StateFits
      <4>2. HeaderLws(c) /\ c \notin {"cr", "space", "tab", "ctl", "nl"}
        BY <2>1, <3>1, <4>1, Which DEF IsCtl
      <4> QED
        BY <4>2 DEF HeaderLws
    <3>2. CASE state = "header_value"
      <4>1. HeaderValue(c) /\ c # "cr"
        BY <2>1, <3>2, Which DEF IsCtl
      <4> QED
        BY <2>1, <4>1 DEF HeaderValue
    <3> QED
      BY <1>11, <3>1, <3>2 DEF StateFits
  <2> QED
    BY <1>1, <1>11, <2>2 DEF StateFits, FieldEffect, StatusAfter, Goto, AddToValue, ChangeBack
<1>12. CASE part = "fold"
  <2>1. HeaderLineStart(c) /\ c = "space" /\ n = 0 /\ MayFold
    BY <1>12, Which, CharOf DEF StateFits, MayFold
  <2>2. Goto("header_lws") /\ UNCHANGED fields
    BY <2>1 DEF HeaderLineStart, IsToken, IsTspecial
  <2> QED
    BY <1>1, <1>12, <2>1, <2>2 DEF StateFits, FieldEffect, StatusAfter, Goto
<1>13. CASE part = "end"
  <2>1. n \in {0, 1} /\ c = IF n = 0 THEN "cr" ELSE "nl"
    BY <1>13, CharOf
  <2>2. CASE n = 0
    <3>1. HeaderLineStart(c) /\ c = "cr"
      BY <1>13, <2>1, <2>2, Which DEF StateFits
    <3>2. Goto("expecting_newline_3") /\ UNCHANGED fields
      BY <3>1 DEF HeaderLineStart, IsToken, IsCtl
    <3> QED
      BY <1>1, <1>13, <2>2, <3>2 DEF StateFits, FieldEffect, StatusAfter, Goto
  <2>3. CASE n = 1
    <3>1. Body(c) /\ state = "expecting_newline_3" /\ c = "nl"
      BY <1>13, <2>1, <2>3, Which DEF StateFits
    <3>2. state' = "body_state" /\ parsed_status' = "good" /\ UNCHANGED fields
      BY <3>1 DEF Body, Reads
    <3> QED
      BY <1>1, <1>13, <2>3, <3>2 DEF StateFits, FieldEffect, StatusAfter
  <2> QED
    BY <2>1, <2>2, <2>3
<1>14. CASE part = "body"
  <2>1. Body(c) /\ state = "body_state"
    BY <1>14, Which DEF StateFits
  <2>2. body' = Append(body, c) /\ UNCHANGED notBody /\ UNCHANGED <<state, parsed_status>>
    BY <2>1 DEF Body, Reads
  <2> QED
    BY <1>1, <1>14, <2>1, <2>2 DEF StateFits, FieldEffect, StatusAfter
<1> QED
  BY <1>2, <1>3, <1>4, <1>5, <1>6, <1>7, <1>8, <1>9, <1>10, <1>11, <1>12, <1>13, <1>14
     DEF Pos, Place, InRequestLine, InHeader
-----------------------------------------------------------------------------
(***************************************************************************)
(* BackIsThere.  headers_ only grows, and consume comes to a state that    *)
(* uses headers_.back() from one that does, or by adding a header, or past *)
(* the test that there is one.                                             *)
(***************************************************************************)
TypeInv ==
    /\ Pos
    /\ spoiler \in Spoilers \cup {"none"}
    /\ state \in States
    /\ method \in Seq(Characters) /\ uri \in Seq(Characters)
    /\ handler_path \in Seq(Characters) /\ file_path \in Seq(Characters)
    /\ version \in Seq(Characters) /\ body \in Seq(Characters)
    /\ headers \in Seq(Header)
    /\ parsed_status \in {"good", "bad", "indeterminate"}

BackInv == TypeInv /\ BackIsThere

LEMMA HeaderAdded ==
    ASSUME NEW c \in Characters, headers \in Seq(Header)
    PROVE  /\ Append(headers, NewHeader(c)) \in Seq(Header)
           /\ Append(headers, NewHeader(c)) # << >>
<1> DEFINE h == NewHeader(c)
           r == Append(headers, h)
<1>1. h \in Header
  BY DEF NewHeader, Header
<1> HIDE DEF h
<1>2. r \in Seq(Header) /\ Len(r) # 0
  BY <1>1
<1> HIDE DEF r
<1>3. r # << >>
  BY <1>2
<1> QED
  BY <1>2, <1>3 DEF h, r

LEMMA HeaderGrown ==
    ASSUME NEW h \in Header, NEW c \in Characters
    PROVE  /\ [h EXCEPT !.name = Append(@, c)] \in Header
           /\ [h EXCEPT !.value = Append(@, c)] \in Header
<1>1. /\ h.name \in Seq(Characters) /\ Append(h.name, c) \in Seq(Characters)
      /\ h.value \in Seq(Characters) /\ Append(h.value, c) \in Seq(Characters)
  BY DEF Header
<1> QED
  BY <1>1 DEF Header

\* What is appended to the last header goes where there is one.
LEMMA LastHeaderChanged ==
    ASSUME NEW c \in Characters, headers \in Seq(Header), headers # << >>,
           AddToName(c) \/ AddToValue(c)
    PROVE  headers' \in Seq(Header) /\ headers' # << >> /\ UNCHANGED notHeaders
<1> DEFINE k == Len(headers)
<1>1. k \in 1 .. k /\ Back \in Header
  BY DEF Back
<1>2. PICK h \in Header : headers' = [headers EXCEPT ![k] = h]
  BY <1>1, HeaderGrown DEF AddToName, AddToValue, ChangeBack
<1>3. UNCHANGED notHeaders
  BY DEF AddToName, AddToValue, ChangeBack
<1> QED
  BY <1>1, <1>2, <1>3

LEMMA BackInit == RequestInit => BackInv
BY PosInit DEF RequestInit, BackInv, TypeInv, BackIsThere, States

UsesBack == {"header_lws", "header_name", "space_before_header_value", "header_value",
             "expecting_newline_2"}

KnownNext == state' \in States /\ parsed_status' \in {"good", "bad", "indeterminate"}

\* What a step with c can do to the fields other than the headers.
OthersNext(c) ==
    /\ method' \in {method, Append(method, c)} /\ uri' \in {uri, Append(uri, c)}
    /\ handler_path' \in {handler_path, Append(handler_path, c)}
    /\ file_path' \in {file_path, Append(file_path, c)}
    /\ version' \in {version, Append(version, c)} /\ body' \in {body, Append(body, c)}

HeadersKept == headers' = headers /\ (state' \in UsesBack => headers # << >>)

LEMMA BadNext ==
    ASSUME BackInv, Bad, NEW c
    PROVE  KnownNext /\ OthersNext(c) /\ HeadersKept
BY DEF BackInv, TypeInv, BackIsThere, Bad, fields, KnownNext, OthersNext, HeadersKept, UsesBack

\* Every branch of consume leaves the headers alone or there is one afterwards.
LEMMA Outcomes ==
    ASSUME BackInv, NEW c \in Characters, Steps(c)
    PROVE  /\ KnownNext /\ OthersNext(c)
           /\ HeadersKept \/ (headers' \in Seq(Header) /\ headers' # << >>)
<1> DEFINE Goal == /\ KnownNext /\ OthersNext(c)
                   /\ HeadersKept \/ (headers' \in Seq(Header) /\ headers' # << >>)
<1>0. headers \in Seq(Header) /\ BackIsThere /\ state \in States
      /\ parsed_status \in {"good", "bad", "indeterminate"}
  BY DEF BackInv, TypeInv
<1>1. Bad => Goal
  BY BadNext
<1>2. ASSUME NEW s \in States, Goto(s), UNCHANGED fields, s \in UsesBack => headers # << >>
      PROVE  Goal
  BY <1>2 DEF Goto, fields, KnownNext, OthersNext, HeadersKept
<1>3. CASE Method(c)
  BY <1>1, <1>3
     DEF Method, Goto, fields, notMethod, KnownNext, OthersNext, HeadersKept, UsesBack, States
<1>4. CASE PathStart(c)
  BY <1>1, <1>4
     DEF PathStart, Goto, fields, notUri, KnownNext, OthersNext, HeadersKept, UsesBack, States
<1>5. CASE InHandlerPath(c) \/ InUri(c)
  <2>1. "http_version_h" \in States /\ "handler_path" \in States /\ "uri_inside" \in States
        /\ {"http_version_h", "handler_path", "uri_inside"} \cap UsesBack = {}
    BY DEF States, Expected, UsesBack
  <2>2. \/ Bad
        \/ /\ Goto("http_version_h") \/ Goto("handler_path") \/ Goto("uri_inside")
           /\ headers' = headers /\ OthersNext(c)
    BY <1>5 DEF InHandlerPath, InUri, fields, notUri, OthersNext
  <2> QED
    BY <1>1, <2>1, <2>2 DEF Goto, KnownNext, HeadersKept
<1>6. CASE OneChar(c)
  <2>1. state \in DOMAIN Expected
    BY <1>6 DEF OneChar, Reads
  <2>2. /\ Expected[state][2] \in States
        /\ Expected[state][2] \in UsesBack => state = "space_before_header_value"
    BY <2>1 DEF Expected, States, UsesBack
  <2>3. state = "space_before_header_value" => headers # << >>
    BY <1>0 DEF BackIsThere
  <2>4. Bad \/ (Goto(Expected[state][2]) /\ UNCHANGED fields)
    BY <1>6 DEF OneChar
  <2> QED
    BY <1>1, <1>2, <2>2, <2>3, <2>4
<1>7. CASE Version(c)
  <2> DEFINE digits == IF state \in {"http_version_major_start", "http_version_major"}
                       THEN "http_version_major" ELSE "http_version_minor"
  <2>1. /\ digits \in States \ UsesBack /\ "http_version_minor_start" \in States \ UsesBack
        /\ "expecting_newline_1" \in States \ UsesBack
    BY DEF States, Expected, UsesBack
  <2>2. \/ Bad
        \/ Goto("expecting_newline_1") /\ UNCHANGED fields
        \/ /\ Goto(digits) \/ Goto("http_version_minor_start")
           /\ version' = Append(version, c) /\ UNCHANGED notVersion
    BY <1>7 DEF Version
  <2> HIDE DEF digits
  <2> QED
    BY <1>1, <2>1, <2>2
       DEF Goto, fields, notVersion, KnownNext, OthersNext, HeadersKept
<1>8. CASE HeaderLineStart(c)
  <2>1. {"header_lws", "header_name", "expecting_newline_3"} \subseteq States
        /\ "expecting_newline_3" \notin UsesBack
    BY DEF States, UsesBack
  <2>2. \/ Bad
        \/ Goto("expecting_newline_3") /\ UNCHANGED fields
        \/ MayFold /\ Goto("header_lws") /\ UNCHANGED fields
        \/ /\ Goto("header_name") /\ headers' = Append(headers, NewHeader(c))
           /\ UNCHANGED notHeaders
    BY <1>8 DEF HeaderLineStart
  <2>3. headers' = Append(headers, NewHeader(c)) => headers' \in Seq(Header) /\ headers' # << >>
    BY <1>0, HeaderAdded
  <2> QED
    BY <1>1, <1>2, <2>1, <2>2, <2>3 DEF Goto, MayFold, notHeaders, KnownNext, OthersNext
<1>9. CASE HeaderLws(c) \/ HeaderName(c) \/ HeaderValue(c)
  <2>1. headers # << >>
    BY <1>0, <1>9 DEF HeaderLws, HeaderName, HeaderValue, Reads, BackIsThere
  <2>2. {"expecting_newline_2", "header_lws", "header_value", "header_name",
         "space_before_header_value"} \subseteq States
    BY DEF States, Expected
  <2>3. \/ Bad
        \/ \E s \in States : Goto(s) /\ UNCHANGED fields
        \/ \E s \in States : Goto(s) /\ (AddToName(c) \/ AddToValue(c))
    BY <1>9, <2>2, Zenon DEF HeaderLws, HeaderName, HeaderValue
  <2>4. AddToName(c) \/ AddToValue(c) =>
          headers' \in Seq(Header) /\ headers' # << >> /\ UNCHANGED notHeaders
    BY <1>0, <2>1, LastHeaderChanged
  <2> QED
    BY <1>1, <1>2, <2>1, <2>3, <2>4 DEF Goto, notHeaders, KnownNext, OthersNext
<1>10. CASE Body(c)
  BY <1>0, <1>1, <1>10
     DEF Body, Reads, fields, notBody, KnownNext, OthersNext, HeadersKept, UsesBack, States
<1> QED
  BY <1>3, <1>4, <1>5, <1>6, <1>7, <1>8, <1>9, <1>10 DEF Steps

LEMMA Extended ==
    ASSUME NEW c \in Characters, NEW s \in Seq(Characters), NEW t \in {s, Append(s, c)}
    PROVE  t \in Seq(Characters)
OBVIOUS

LEMMA BackStep == BackInv /\ [NextPart \/ Consume \/ Done]_requestVars => BackInv'
<1> SUFFICES ASSUME BackInv, [NextPart \/ Consume \/ Done]_requestVars PROVE BackInv'
  OBVIOUS
<1>1. CASE UNCHANGED requestVars
  BY <1>1 DEF BackInv, TypeInv, BackIsThere, Pos, Place, Piece, requestVars, clientVars, fields
<1>2. CASE NextPart
  <2>1. Pos'
    BY <1>2, NextPartPos DEF BackInv, TypeInv
  <2>2. UNCHANGED <<spoiler, state, method, uri, handler_path, file_path, version, headers,
                    body, parsed_status>>
    BY <1>2 DEF NextPart, fields
  <2> QED
    BY <2>1, <2>2 DEF BackInv, TypeInv, BackIsThere
<1>3. CASE Consume
  <2>1. PICK c \in Characters : Steps(c)
    BY <1>3 DEF Consume, Steps
  <2>2. Writes(c)
    BY <2>1, Which
  <2>3. Pos' /\ spoiler' \in Spoilers \cup {"none"}
    BY <2>2, WritesPos DEF BackInv, TypeInv, Writes
  <2>4. /\ KnownNext /\ OthersNext(c)
        /\ HeadersKept \/ (headers' \in Seq(Header) /\ headers' # << >>)
    BY <2>1, Outcomes
  <2>5. headers' \in Seq(Header) /\ BackIsThere'
    BY <2>4 DEF HeadersKept, UsesBack, BackInv, TypeInv, BackIsThere
  <2>6. /\ method' \in Seq(Characters) /\ uri' \in Seq(Characters)
        /\ handler_path' \in Seq(Characters) /\ file_path' \in Seq(Characters)
        /\ version' \in Seq(Characters) /\ body' \in Seq(Characters)
    BY <2>4, Extended DEF OthersNext, BackInv, TypeInv
  <2> QED
    BY <2>3, <2>4, <2>5, <2>6 DEF BackInv, TypeInv, KnownNext
<1> QED
  BY <1>1, <1>2, <1>3 DEF Done

\* consume (request.cc) never calls headers_.back() of an empty vector, which
\* would be undefined: not for any text, however it is cut or spoiled.
THEOREM HasBack == RequestSpec => []BackIsThere
<1>1. BackInv => BackIsThere
  BY DEF BackInv
<1> QED
  BY <1>1, BackInit, BackStep, PTL DEF RequestSpec
-----------------------------------------------------------------------------
(***************************************************************************)
(* The fields.  As long as nothing is spoiled each is exactly as far there *)
(* as it is written.                                                       *)
(***************************************************************************)
MethodFits ==
    method = IF part = "method" THEN SubSeq(sent.method, 1, n) ELSE sent.method

UriFits ==
    /\ uri = CASE part \in {"method", "sp"} -> << >>
               [] part = "uri" -> SubSeq(sent.uri, 1, n)
               [] OTHER -> sent.uri
    /\ uri = handler_path \o file_path
    /\ state \in {"method_start", "method_inside", "handler_path_start", "handler_path"} =>
         file_path = << >>

VersionFits ==
    version = CASE part \in {"method", "sp", "uri", "http"} -> << >>
                [] part = "major" -> SubSeq(sent.major, 1, n)
                [] part = "dot" -> sent.major \o SubSeq(<<".">>, 1, n)
                [] part = "minor" -> sent.major \o <<".">> \o SubSeq(sent.minor, 1, n)
                [] OTHER -> sent.major \o <<".">> \o sent.minor

HeadersFit ==
    /\ headers = written
    /\ Len(headers) = IF part = "name" /\ n = 0 THEN header - 1 ELSE header
    /\ \A i \in 1 .. Len(headers) :
         headers[i].name = IF part = "name" /\ i = header THEN SubSeq(sent.headers[i].name, 1, n)
                           ELSE sent.headers[i].name

BodyFits == body = IF part = "body" THEN SubSeq(sent.body, 1, n) ELSE << >>

StatusFits ==
    IF part = "method" /\ n = 0 THEN parsed_status = "good"
    ELSE parsed_status = IF HeadWritten THEN "good" ELSE "indeterminate"

Sync == StateFits /\ MethodFits /\ UriFits /\ VersionFits /\ HeadersFit /\ BodyFits /\ StatusFits

LEMMA SyncInit == RequestInit => Sync
<1> SUFFICES ASSUME RequestInit PROVE Sync
  OBVIOUS
<1>1. Place /\ sent.method \in Seq(Characters)
  BY PosInit, SentType DEF Pos
<1> QED
  BY <1>1, Whole DEF RequestInit, Sync, StateFits, MethodFits, UriFits, VersionFits, HeadersFit,
       BodyFits, StatusFits

\* A part is complete and the next one begins.
LEMMA SyncNextPart == ASSUME BackInv, Sync, NextPart PROVE Sync'
<1>1. /\ UNCHANGED <<sent, written, spoiler, state, method, uri, handler_path, file_path, version,
                     headers, body, parsed_status>>
      /\ n = Len(Piece) /\ n' = 0
  BY DEF NextPart, fields
<1>2. /\ Place /\ Pos' /\ Place' /\ headers \in Seq(Header) /\ header \in Nat
      /\ Len(headers) \in Nat
  BY NextPartPos DEF BackInv, TypeInv, Pos, Place
<1>3. /\ sent.method \in Seq(Characters) /\ sent.uri \in Seq(Characters)
      /\ sent.major \in Seq(Characters) /\ sent.minor \in Seq(Characters)
      /\ sent.body \in Seq(Characters) /\ Len(sent.headers) \in Nat
      /\ Piece \in Seq(Characters)
  BY <1>2, SentType, PieceType
\* Where the client goes.
<1>4. \/ part \in DOMAIN After /\ part' = After[part] /\ header' = header /\ line' = line
      \/ part = "eol" /\ part' = "fold" /\ line' = line + 1 /\ header' = header /\ header > 0
      \/ /\ part = "eol" /\ part' = "name" /\ header' = header + 1 /\ line' = 1
         /\ header < Len(sent.headers)
      \/ part = "eol" /\ part' = "end" /\ header' = header /\ line' = line
         /\ header = Len(sent.headers)
  BY <1>2, <1>3 DEF NextPart, GoOnWithValue, Place
<1>5. /\ part = "method" => part' = "sp" /\ n > 0
      /\ part = "sp" => part' = "uri" /\ n = 1
      /\ part = "uri" => part' = "http" /\ n > 0
      /\ part = "http" => part' = "major" /\ n = 6
      /\ part = "major" => part' = "dot" /\ n > 0
      /\ part = "dot" => part' = "minor" /\ n = 1
      /\ part = "minor" => part' = "eol" /\ n > 0 /\ header' = 0
      /\ part = "name" => part' = "colon" /\ n > 0
      /\ part = "colon" => part' = "line" /\ n = 2 /\ line' = 1
      /\ part = "line" => part' = "eol" /\ header' > 0
      /\ part = "fold" => part' = "line" /\ n = 1 /\ line' > 1
      /\ part = "end" => part' = "body" /\ n = 2
      /\ part = "eol" => part' \in {"fold", "name", "end"} /\ n = 2
      /\ part # "body"
  <2>1. part = "method" => sent.method # << >>
    BY <1>2, RequestAssumption DEF Place
  <2>2. part = "uri" => sent.uri # << >>
    BY <1>2, RequestAssumption DEF Place
  <2>3. part = "major" => sent.major # << >>
    BY <1>2, RequestAssumption DEF Place
  <2>4. part = "minor" => sent.minor # << >>
    BY <1>2, RequestAssumption DEF Place
  <2>5. part = "name" => sent.headers[header].name # << >>
    <3> SUFFICES ASSUME part = "name" PROVE sent.headers[header].name # << >>
      OBVIOUS
    <3>1. header \in 1 .. Len(sent.headers)
      BY <1>2, <1>3 DEF Place, InHeader
    <3> QED
      BY <1>2, <3>1, RequestAssumption DEF Place
  <2>6. n = 0 => Piece = << >>
    BY <1>1, <1>3, Empty
  <2>7. part \in {"method", "uri", "major", "minor", "name"} => n > 0
    BY <1>1, <1>2, <1>3, <2>1, <2>2, <2>3, <2>4, <2>5, <2>6, Pieces
  <2>8. /\ part \in {"sp", "dot", "fold"} => n = 1
        /\ part \in {"colon", "end", "eol"} => n = 2
        /\ part = "http" => n = 6
    BY <1>1, <1>2, Pieces
  <2>9. part = "minor" => header' = 0
    BY <1>2, <1>4 DEF Place, InRequestLine, After
  <2>10. part = "line" => header' > 0
    BY <1>2, <1>4 DEF Place, InHeader, After
  <2>11. part = "colon" => line' = 1
    BY <1>2, <1>4 DEF Place, After
  <2>12. part = "fold" => line' > 1
    BY <1>2, <1>4 DEF Place, After
  <2>13. part # "eol" => part \in DOMAIN After /\ part' = After[part]
    BY <1>4
  <2> QED
    BY <1>4, <2>7, <2>8, <2>9, <2>10, <2>11, <2>12, <2>13 DEF After
<1>6. part \in InRequestLine \cup InHeader \cup {"eol", "end", "body"}
  BY <1>2 DEF Place
<1>7. StateFits'
  <2>1. CASE part \in InRequestLine
    <3>1. CASE part \in {"method", "sp"}
      BY <1>1, <1>5, <3>1 DEF Sync, StateFits
    <3>2. CASE part = "uri"
      BY <1>1, <1>5, <3>2 DEF Sync, StateFits
    <3>3. CASE part = "http"
      <4>1. state' = "http_version_major_start" /\ n' = 0 /\ part' = "major"
        <5>1. n = 6 /\ n' = 0 /\ part' = "major" /\ state' = state
          BY <1>1, <1>5, <3>3
        <5>2. part = "http" => IF n = 0 THEN state \in {"handler_path", "uri_inside"}
                ELSE state = <<"http_version_h", "http_version_t_1", "http_version_t_2",
                               "http_version_p", "http_version_slash",
                               "http_version_major_start">>[n]
          BY Zenon DEF Sync, StateFits
        <5> QED
          BY <3>3, <5>1, <5>2
      <4> QED
        BY <4>1 DEF StateFits
    <3>4. CASE part \in {"major", "dot"}
      BY <1>1, <1>5, <3>4 DEF Sync, StateFits
    <3>5. CASE part = "minor"
      <4>1. state' = "http_version_minor" /\ n' = 0 /\ part' = "eol" /\ header' = 0
        BY <1>1, <1>5, <3>5 DEF Sync, StateFits
      <4> QED
        BY <4>1 DEF StateFits
    <3> QED
      BY <2>1, <3>1, <3>2, <3>3, <3>4, <3>5 DEF InRequestLine
  <2>2. CASE part \in InHeader
    BY <1>1, <1>5, <2>2, SMTT(30) DEF Sync, StateFits, InHeader
  <2>3. CASE part = "eol"
    <3>1. state' = "header_line_start" /\ n' = 0 /\ part' \in {"fold", "name", "end"}
      BY <1>1, <1>5, <2>3 DEF Sync, StateFits
    <3> QED
      BY <3>1 DEF StateFits
  <2>4. CASE part = "end"
    BY <1>1, <1>5, <2>4 DEF Sync, StateFits
  <2> QED
    BY <1>5, <1>6, <2>1, <2>2, <2>3, <2>4
<1>8. MethodFits'
  <2>1. part = "method" => Piece = sent.method
    BY <1>2, Pieces
  <2>2. part' # "method"
    BY <1>5, <1>6 DEF InRequestLine, InHeader
  <2> QED
    BY <1>1, <1>3, <2>1, <2>2, Whole DEF Sync, MethodFits
<1>9. UriFits'
  <2>1. part = "uri" => Piece = sent.uri
    BY <1>2, Pieces
  <2>2. /\ part = "method" => part' = "sp"
        /\ part = "sp" => part' = "uri"
        /\ part = "uri" => part' = "http"
        /\ part \notin {"method", "sp", "uri"} => part' \notin {"method", "sp", "uri"}
    BY <1>5, <1>6 DEF InRequestLine, InHeader
  <2>3. SubSeq(sent.uri, 1, 0) = << >> /\ SubSeq(sent.uri, 1, Len(sent.uri)) = sent.uri
    BY <1>3, Whole
  <2>4. uri' = CASE part' \in {"method", "sp"} -> << >>
                 [] part' = "uri" -> SubSeq(sent.uri, 1, 0)
                 [] OTHER -> sent.uri
    BY <1>1, <2>1, <2>2, <2>3 DEF Sync, UriFits
  <2> QED
    BY <1>1, <2>4 DEF Sync, UriFits
<1>10. VersionFits'
  <2>1. /\ part = "major" => Piece = sent.major
        /\ part = "minor" => Piece = sent.minor
        /\ part = "dot" => Piece = <<".">>
    BY <1>2, Pieces
  <2>2. /\ part \in {"method", "sp", "uri"} => part' \in {"sp", "uri", "http"}
        /\ part = "http" => part' = "major"
        /\ part = "major" => part' = "dot"
        /\ part = "dot" => part' = "minor"
        /\ part \notin {"method", "sp", "uri", "http", "major", "dot"} =>
             part' \notin {"method", "sp", "uri", "http", "major", "dot", "minor"}
    BY <1>5, <1>6 DEF InRequestLine, InHeader
  <2>3. <<".">> \in Seq(Characters)
    BY DEF Characters
  <2>4. /\ SubSeq(sent.major, 1, 0) = << >> /\ SubSeq(sent.minor, 1, 0) = << >>
        /\ SubSeq(<<".">>, 1, 0) = << >>
        /\ part = "major" => SubSeq(sent.major, 1, n) = sent.major
        /\ part = "minor" => SubSeq(sent.minor, 1, n) = sent.minor
        /\ part = "dot" => SubSeq(<<".">>, 1, n) = <<".">>
    BY <1>1, <1>3, <2>1, <2>3, Whole
  <2>5. sent.major \o << >> = sent.major /\ (sent.major \o <<".">>) \o << >> = sent.major \o <<".">>
    BY <1>3, <2>3
  <2> QED
    BY <1>1, <2>2, <2>4, <2>5 DEF Sync, VersionFits
<1>11. HeadersFit'
  <2>1. part = "name" => header' = header /\ part' = "colon"
    BY <1>4, <1>5 DEF After
  <2>2. /\ part = "eol" /\ part' = "name" => header' = header + 1
        /\ part' # "name" => header' = header
        /\ part' = "name" => part = "eol"
    BY <1>4 DEF After
  <2>3. Len(headers') = IF part' = "name" /\ n' = 0 THEN header' - 1 ELSE header'
    BY <1>1, <1>2, <1>5, <2>1, <2>2 DEF Sync, HeadersFit
  <2>4. ASSUME NEW i \in 1 .. Len(headers)
        PROVE  headers[i].name = IF part' = "name" /\ i = header'
                                 THEN SubSeq(sent.headers[i].name, 1, n') ELSE sent.headers[i].name
    <3>1. CASE part = "name"
      <4>1. Len(headers) = header /\ part' # "name"
        BY <1>5, <2>1, <3>1 DEF Sync, HeadersFit
      <4>2. CASE i = header
        <5>1. headers[i].name = SubSeq(sent.headers[i].name, 1, n)
          BY <3>1, <4>2 DEF Sync, HeadersFit
        <5>2. Piece = sent.headers[i].name
          BY <1>2, <3>1, <4>2, Pieces
        <5> QED
          BY <1>1, <1>3, <4>1, <5>1, <5>2, Whole
      <4>3. CASE i # header
        BY <3>1, <4>1, <4>3 DEF Sync, HeadersFit
      <4> QED
        BY <4>2, <4>3
    <3>2. CASE part # "name"
      <4>1. headers[i].name = sent.headers[i].name /\ Len(headers) = header
        BY <3>2 DEF Sync, HeadersFit
      <4> QED
        BY <1>2, <2>2, <3>2, <4>1
    <3> QED
      BY <3>1, <3>2
  <2> QED
    BY <1>1, <2>3, <2>4 DEF Sync, HeadersFit
<1>12. BodyFits'
  <2>1. part # "body" /\ SubSeq(sent.body, 1, 0) = << >>
    BY <1>3, <1>5, Whole
  <2> QED
    BY <1>1, <2>1 DEF Sync, BodyFits
<1>13. StatusFits'
  <2>1. part' = "end" => Piece' = <<"cr", "nl">>
    BY <1>2, PiecesNext
  <2>2. part' = "end" => Len(Piece') = 2
    BY <2>1
  <2>3. part \in {"method", "eol"} => ~HeadWritten
    BY DEF HeadWritten
  <2>4. part' # "method" /\ (part' = "body" <=> part = "end")
    BY <1>5, <1>6 DEF InRequestLine, InHeader
  <2>5. HeadWritten' = HeadWritten
    BY <1>1, <1>5, <2>2, <2>4, SMTT(30) DEF HeadWritten
  <2>6. ~(part = "method" /\ n = 0)
    BY <1>5
  <2> QED
    BY <1>1, <2>4, <2>5, <2>6 DEF Sync, StatusFits
<1> QED
  BY <1>7, <1>8, <1>9, <1>10, <1>11, <1>12, <1>13 DEF Sync

\* A character is written as it is in the text, and consumed.
LEMMA SyncConsume ==
    ASSUME BackInv, Sync, NEW c \in Characters, Steps(c), c = Piece[n + 1], Writes(c),
           written' = WrittenMore(c)
    PROVE  Sync'
<1>1. /\ n' = n + 1 /\ part' = part /\ header' = header /\ line' = line /\ sent' = sent
      /\ n < Len(Piece) /\ Piece' = Piece
  BY DEF Writes, Piece
<1>2. Pos /\ Place /\ headers \in Seq(Header) /\ header \in Nat /\ n \in Nat
  BY PieceType DEF BackInv, TypeInv, Pos, Place
<1>3. /\ sent.method \in Seq(Characters) /\ sent.uri \in Seq(Characters)
      /\ sent.major \in Seq(Characters) /\ sent.minor \in Seq(Characters)
      /\ sent.body \in Seq(Characters) /\ Len(sent.headers) \in Nat
      /\ Piece \in Seq(Characters)
  BY <1>2, SentType, PieceType
<1>4. part = "fold" => headers # << >>
  <2>1. part = "fold" => Len(headers) = header /\ header > 0
    BY <1>2 DEF Sync, HeadersFit, Place, InHeader
  <2> QED
    BY <2>1
<1>5. StateFits' /\ FieldEffect(c) /\ StatusAfter
  BY <1>1, <1>2, <1>4, Effect DEF Sync
<1>6. n \in 0 .. Len(Piece) - 1 /\ n # n' /\ n' # 0
  BY <1>1, <1>2, <1>3
<1>7. part \in InRequestLine \cup InHeader \cup {"eol", "end", "body"}
  BY <1>2 DEF Place
<1>8. part # "method" => method' = method
  BY <1>5, <1>7 DEF FieldEffect, fields, notUri, notVersion, notHeaders, notBody,
      InRequestLine, InHeader
<1>9. part # "uri" => UNCHANGED <<uri, handler_path, file_path>>
  BY <1>5, <1>7 DEF FieldEffect, fields, notMethod, notVersion, notHeaders, notBody,
      InRequestLine, InHeader
<1>10. part \notin {"major", "dot", "minor"} => version' = version
  BY <1>5, <1>7 DEF FieldEffect, fields, notMethod, notUri, notHeaders, notBody,
      InRequestLine, InHeader
<1>11. part \notin {"name", "line"} => headers' = headers
  BY <1>5, <1>7 DEF FieldEffect, fields, notMethod, notUri, notVersion, notBody,
      InRequestLine, InHeader
<1>12. part # "body" => body' = body
  BY <1>5, <1>7 DEF FieldEffect, fields, notMethod, notUri, notVersion, notHeaders,
      InRequestLine, InHeader
<1>13. MethodFits'
  <2>1. CASE part = "method"
    <3>1. Piece = sent.method /\ method' = Append(method, c) /\ method = SubSeq(sent.method, 1, n)
      BY <1>2, <1>5, <2>1, Pieces DEF FieldEffect, Sync, MethodFits
    <3>2. method' = SubSeq(sent.method, 1, n + 1)
      BY <1>3, <1>6, <3>1, Grows
    <3> QED
      BY <1>1, <2>1, <3>2 DEF MethodFits
  <2>2. CASE part # "method"
    BY <1>1, <1>8, <2>2 DEF Sync, MethodFits
  <2> QED
    BY <2>1, <2>2
<1>14. UriFits'
  <2>1. CASE part = "uri"
    <3>1. /\ Piece = sent.uri /\ uri' = Append(uri, c) /\ uri = SubSeq(sent.uri, 1, n)
          /\ uri = handler_path \o file_path
          /\ IF state' = "handler_path"
             THEN handler_path' = Append(handler_path, c) /\ file_path' = file_path
             ELSE file_path' = Append(file_path, c) /\ handler_path' = handler_path
      BY <1>2, <1>5, <2>1, Pieces DEF FieldEffect, Sync, UriFits
    <3>2. uri' = SubSeq(sent.uri, 1, n + 1)
      BY <1>3, <1>6, <3>1, Grows
    <3>3. state' = "handler_path" => file_path = << >>
      <4>1. state' = "handler_path" => state \in {"handler_path", "handler_path_start"}
        BY <1>5, <2>1 DEF FieldEffect, Sync, StateFits
      <4> QED
        BY <4>1 DEF Sync, UriFits
    <3>4. handler_path \in Seq(Characters) /\ file_path \in Seq(Characters)
      BY DEF BackInv, TypeInv
    <3>5. uri' = handler_path' \o file_path'
      <4>1. CASE state' = "handler_path"
        <5>1. Append(handler_path \o << >>, c) = Append(handler_path, c) \o << >>
          BY <3>4
        <5> QED
          BY <3>1, <3>3, <4>1, <5>1
      <4>2. CASE state' # "handler_path"
        <5>1. Append(handler_path \o file_path, c) = handler_path \o Append(file_path, c)
          BY <3>4
        <5> QED
          BY <3>1, <4>2, <5>1
      <4> QED
        BY <4>1, <4>2
    <3>6. state' \in {"handler_path", "uri_inside"}
      BY <1>1, <1>5, <1>6, <2>1 DEF StateFits
    <3> QED
      BY <1>1, <2>1, <3>1, <3>2, <3>3, <3>5, <3>6 DEF UriFits
  <2>2. CASE part # "uri"
    <3>1. state' \in {"method_start", "method_inside", "handler_path_start", "handler_path"} =>
            state \in {"method_start", "method_inside", "handler_path_start", "handler_path"}
      <4>1. state' \in {"method_start", "method_inside", "handler_path_start", "handler_path"} =>
              part \in {"method", "sp"}
        <5>1. CASE part \in {"http", "major", "dot", "minor"}
          BY <1>1, <1>6, <5>1, <1>5, CharOf, <1>2, SMTT(30) DEF StateFits
        <5>2. CASE part \in InHeader
          BY <1>1, <1>5, <1>6, <5>2 DEF StateFits, InHeader
        <5>3. CASE part \in {"eol", "end", "body"}
          BY <1>1, <1>5, <1>6, <5>3 DEF StateFits
        <5> QED
          BY <1>7, <2>2, <5>1, <5>2, <5>3 DEF InRequestLine
      <4>2. part \in {"method", "sp"} => state \in {"method_start", "method_inside", "handler_path_start"}
        BY DEF Sync, StateFits
      <4> QED
        BY <4>1, <4>2
    <3> QED
      BY <1>1, <1>9, <2>2, <3>1 DEF Sync, UriFits
  <2> QED
    BY <2>1, <2>2
<1>15. VersionFits'
  <2>0. <<".">> \in Seq(Characters)
    BY DEF Characters
  <2>1. CASE part = "major"
    <3>1. Piece = sent.major /\ version' = Append(version, c) /\ version = SubSeq(sent.major, 1, n)
      BY <1>2, <1>5, <2>1, Pieces DEF FieldEffect, Sync, VersionFits
    <3>2. version' = SubSeq(sent.major, 1, n + 1)
      BY <1>3, <1>6, <3>1, Grows
    <3> QED
      BY <1>1, <2>1, <3>2 DEF VersionFits
  <2>2. CASE part = "dot"
    <3>1. Piece = <<".">> /\ version' = Append(version, c)
          /\ version = sent.major \o SubSeq(<<".">>, 1, n)
      BY <1>2, <1>5, <2>2, Pieces DEF FieldEffect, Sync, VersionFits
    <3>2. SubSeq(<<".">>, 1, n + 1) = Append(SubSeq(<<".">>, 1, n), c)
      BY <1>6, <2>0, <3>1, Grows
    <3>3. version' = sent.major \o SubSeq(<<".">>, 1, n + 1)
      <4> DEFINE t == SubSeq(<<".">>, 1, n)
                 t1 == SubSeq(<<".">>, 1, n + 1)
      <4>1. t \in Seq(Characters)
        BY <1>6, <2>0, <3>1
      <4>2. version' = Append(version, c) /\ version = sent.major \o t /\ t1 = Append(t, c)
        BY <3>1, <3>2
      <4> HIDE DEF t, t1
      <4>3. version' = sent.major \o t1
        BY <1>3, <4>1, <4>2, Joined
      <4> QED
        BY <4>3 DEF t1
    <3> QED
      BY <1>1, <2>2, <3>3 DEF VersionFits
  <2>3. CASE part = "minor"
    <3>1. Piece = sent.minor /\ version' = Append(version, c)
          /\ version = sent.major \o <<".">> \o SubSeq(sent.minor, 1, n)
      BY <1>2, <1>5, <2>3, Pieces DEF FieldEffect, Sync, VersionFits
    <3>2. SubSeq(sent.minor, 1, n + 1) = Append(SubSeq(sent.minor, 1, n), c)
      BY <1>3, <1>6, <3>1, Grows
    <3>3. sent.major \o <<".">> \in Seq(Characters)
      BY <1>3, <2>0
    <3>4. version' = sent.major \o <<".">> \o SubSeq(sent.minor, 1, n + 1)
      <4>1. SubSeq(sent.minor, 1, n) \in Seq(Characters)
        BY <1>3, <1>6, <3>1
      <4> QED
        BY <3>1, <3>2, <3>3, <4>1, Joined
    <3> QED
      BY <1>1, <2>3, <3>4 DEF VersionFits
  <2>4. CASE part \notin {"major", "dot", "minor"}
    BY <1>1, <1>10, <2>4 DEF Sync, VersionFits
  <2> QED
    BY <2>1, <2>2, <2>3, <2>4
<1>16. HeadersFit'
  <2>0. /\ headers = written /\ Len(headers) \in Nat
        /\ Len(headers) = IF part = "name" /\ n = 0 THEN header - 1 ELSE header
        /\ \A i \in 1 .. Len(headers) :
             headers[i].name = IF part = "name" /\ i = header
                               THEN SubSeq(sent.headers[i].name, 1, n) ELSE sent.headers[i].name
    BY <1>2 DEF Sync, HeadersFit
  <2>1. part \in InHeader => header \in 1 .. Len(sent.headers)
    BY <1>2, <1>3 DEF Place
  <2>2. part = "name" =>
          /\ Piece = sent.headers[header].name
          /\ SubSeq(sent.headers[header].name, 1, n + 1) =
               Append(SubSeq(sent.headers[header].name, 1, n), c)
          /\ SubSeq(sent.headers[header].name, 1, 0) = << >>
    <3> SUFFICES ASSUME part = "name"
                 PROVE  /\ Piece = sent.headers[header].name
                        /\ SubSeq(Piece, 1, n + 1) = Append(SubSeq(Piece, 1, n), c)
                        /\ SubSeq(Piece, 1, 0) = << >>
      BY <1>2, Pieces
    <3> QED
      BY <1>2, <1>3, <1>6, Grows, Whole, Pieces
  <2>3. CASE part = "name" /\ n = 0
    <3>1. headers' = Append(headers, NewHeader(c)) /\ written' = headers'
      BY <1>5, <2>0, <2>3 DEF FieldEffect, WrittenMore, NewHeader
    <3>2. Len(headers') = header /\ headers'[header] = NewHeader(c)
          /\ \A i \in 1 .. header - 1 : headers'[i] = headers[i]
      <4>1. NewHeader(c) \in Header
        BY DEF NewHeader, Header
      <4> HIDE DEF NewHeader
      <4> QED
        BY <1>2, <2>0, <2>3, <3>1, <4>1
    <3>3. headers'[header].name = SubSeq(sent.headers[header].name, 1, n + 1)
      BY <2>2, <2>3, <3>2 DEF NewHeader
    <3>4. ASSUME NEW i \in 1 .. header - 1 PROVE headers'[i].name = sent.headers[i].name
      BY <1>2, <2>0, <2>3, <3>2, <3>4
    <3>5. ASSUME NEW i \in 1 .. Len(headers')
          PROVE  headers'[i].name = IF i = header THEN SubSeq(sent.headers[i].name, 1, n + 1)
                                    ELSE sent.headers[i].name
      <4>1. i \in 1 .. header
        BY <3>2
      <4>2. i = header \/ i \in 1 .. header - 1
        BY <1>2, <4>1
      <4> QED
        BY <3>3, <3>4, <4>2
    <3>6. Len(headers') = header /\ headers' = written' /\ n' # 0
      BY <1>6, <3>1, <3>2
    <3> QED
      BY <1>1, <2>3, <3>5, <3>6 DEF HeadersFit
  <2>4. CASE part = "name" /\ n # 0
    <3>1. /\ headers' = [headers EXCEPT ![header] = [headers[header] EXCEPT !.name = Append(@, c)]]
          /\ header \in 1 .. Len(headers)
      BY <1>5, <2>0, <2>1, <2>4 DEF FieldEffect, Back, InHeader
    <3>2. written' = headers'
      BY <1>2, <2>0, <2>4, <3>1 DEF WrittenMore
    <3>3. headers[header] \in Header
      BY <1>2, <3>1
    <3>4. [headers[header] EXCEPT !.name = Append(@, c)].name = Append(headers[header].name, c)
      BY <3>3 DEF Header
    <3>5. Len(headers') = header
      BY <1>2, <2>0, <2>4, <3>1
    <3>6. headers'[header].name = Append(headers[header].name, c)
      BY <1>2, <3>1, <3>4
    <3>7. headers'[header].name = SubSeq(sent.headers[header].name, 1, n + 1)
      BY <2>0, <2>2, <2>4, <3>1, <3>6
    <3>8. ASSUME NEW i \in 1 .. Len(headers'), i # header
          PROVE  headers'[i].name = sent.headers[i].name
      BY <1>2, <2>0, <2>4, <3>1, <3>5, <3>8
    <3> QED
      BY <1>1, <1>6, <2>4, <3>2, <3>5, <3>7, <3>8 DEF HeadersFit
  <2>5. CASE part = "line"
    <3>1. /\ headers' = [headers EXCEPT ![header] = [headers[header] EXCEPT !.value = Append(@, c)]]
          /\ header \in 1 .. Len(headers)
      BY <1>5, <2>0, <2>1, <2>5 DEF FieldEffect, Back, InHeader
    <3>2. written' = headers'
      BY <1>2, <2>0, <2>5, <3>1 DEF WrittenMore
    <3>3. headers[header] \in Header
      BY <1>2, <3>1
    <3>4. [headers[header] EXCEPT !.value = Append(@, c)].name = headers[header].name
      BY <3>3 DEF Header
    <3>5. Len(headers') = header
      BY <1>2, <2>0, <2>5, <3>1
    <3>6. ASSUME NEW i \in 1 .. Len(headers') PROVE headers'[i].name = sent.headers[i].name
      BY <1>2, <2>0, <2>5, <3>1, <3>4, <3>5, <3>6
    <3> QED
      BY <1>1, <2>5, <3>2, <3>5, <3>6 DEF HeadersFit
  <2>6. CASE part \notin {"name", "line"}
    <3>1. headers' = headers /\ written' = written
      BY <1>11, <2>6 DEF WrittenMore
    <3> QED
      BY <1>1, <2>0, <2>6, <3>1 DEF HeadersFit
  <2> QED
    BY <2>3, <2>4, <2>5, <2>6
<1>17. BodyFits'
  <2>1. CASE part = "body"
    <3>1. Piece = sent.body /\ body' = Append(body, c) /\ body = SubSeq(sent.body, 1, n)
      BY <1>2, <1>5, <2>1, Pieces DEF FieldEffect, Sync, BodyFits
    <3>2. body' = SubSeq(sent.body, 1, n + 1)
      BY <1>3, <1>6, <3>1, Grows
    <3> QED
      BY <1>1, <2>1, <3>2 DEF BodyFits
  <2>2. CASE part # "body"
    BY <1>1, <1>12, <2>2 DEF Sync, BodyFits
  <2> QED
    BY <2>1, <2>2
<1>18. StatusFits'
  <2>1. CASE part = "body"
    BY <1>1, <1>5, <2>1 DEF Sync, StatusFits, StatusAfter, HeadWritten
  <2>2. CASE part = "end"
    <3>1. Len(Piece) = 2 /\ n \in {0, 1}
      <4>1. Piece = <<"cr", "nl">>
        BY <1>2, <2>2, Pieces
      <4>2. Len(Piece) = 2
        BY <4>1
      <4> QED
        BY <1>2, <1>6, <4>2
    <3> QED
      BY <1>1, <1>5, <2>2, <3>1 DEF StatusFits, StatusAfter, HeadWritten
  <2>3. CASE part \notin {"body", "end"}
    BY <1>1, <1>5, <1>6, <2>3 DEF StatusFits, StatusAfter, HeadWritten
  <2> QED
    BY <2>1, <2>2, <2>3
<1> QED
  BY <1>5, <1>13, <1>14, <1>15, <1>16, <1>17, <1>18 DEF Sync
-----------------------------------------------------------------------------
(***************************************************************************)
(* KeepsABeginning.  Until a control character comes the fields are in     *)
(* step with the text; then Parse stops, unless the head is complete, when *)
(* only the body can still change.                                         *)
(***************************************************************************)
Kept ==
    /\ IsPrefix(uri, sent.uri)
    /\ uri = handler_path \o file_path
    /\ headers # << >> => uri = sent.uri
    /\ headers = written

KeepInv ==
    /\ BackInv
    /\ spoiler = "none" => Sync
    /\ spoiler = "ctl" => Kept /\ (parsed_status = "bad" \/ state = "body_state")

LEMMA SyncKeeps == BackInv /\ Sync => Kept
<1> SUFFICES ASSUME BackInv, Sync PROVE Kept
  OBVIOUS
<1>1. /\ Pos /\ Place /\ sent.uri \in Seq(Characters)
      /\ headers \in Seq(Header) /\ header \in Nat /\ n \in Nat
  BY SentType, PieceType DEF BackInv, TypeInv, Pos, Place
<1>2. headers = written /\ uri = handler_path \o file_path
  BY DEF Sync, HeadersFit, UriFits
<1>3. headers # << >> => part \notin {"method", "sp", "uri"}
  <2>1. part \in {"method", "sp", "uri"} => header = 0 /\ part # "name"
    BY <1>1 DEF Place, InRequestLine
  <2>2. header = 0 /\ part # "name" => Len(headers) = 0
    BY DEF Sync, HeadersFit
  <2> QED
    BY <1>1, <2>1, <2>2
<1>4. headers # << >> => uri = sent.uri
  BY <1>3 DEF Sync, UriFits
<1>5. IsPrefix(uri, sent.uri)
  <2>1. part = "uri" => n \in 0 .. Len(sent.uri)
    BY <1>1, Pieces DEF Pos
  <2>2. \/ uri = << >> \/ uri = sent.uri
        \/ part = "uri" /\ uri = SubSeq(sent.uri, 1, n)
    BY DEF Sync, UriFits
  <2>3. CASE part = "uri" /\ uri = SubSeq(sent.uri, 1, n)
    BY <1>1, <2>1, <2>3, Begins
  <2>4. CASE uri = << >> \/ uri = sent.uri
    <3>1. 0 \in 0 .. Len(sent.uri)
      BY <1>1
    <3> QED
      BY <1>1, <2>4, <3>1, Begins
  <2> QED
    BY <2>2, <2>3, <2>4
<1> QED
  BY <1>2, <1>4, <1>5 DEF Kept

\* No state but the body's takes a control character.
LEMMA CtlIsBad ==
    ASSUME state \in States, Steps("ctl"), state # "body_state"
    PROVE  Bad
<1> DEFINE c == "ctl"
<1>1. IsCtl(c) /\ ~IsToken(c) /\ ~IsDigit(c) /\ c \notin {"space", "tab", "cr", "nl", "/", ".", ":"}
  BY DEF IsCtl, IsToken, IsDigit
<1>2. \A s \in DOMAIN Expected : Expected[s][1] # c
  BY DEF Expected
<1> HIDE DEF c
<1>3. Steps(c)
  BY DEF c
<1>4. \/ Method(c) \/ PathStart(c) \/ InHandlerPath(c) \/ InUri(c) => Bad
  BY <1>1 DEF Method, PathStart, InHandlerPath, InUri
<1>5. OneChar(c) => Bad
  BY <1>2 DEF OneChar, Reads
<1>6. Version(c) => Bad
  BY <1>1 DEF Version
<1>7. HeaderLineStart(c) \/ HeaderLws(c) \/ HeaderName(c) \/ HeaderValue(c) => Bad
  BY <1>1 DEF HeaderLineStart, HeaderLws, HeaderName, HeaderValue, c
<1>8. Body(c) => Bad
  BY <1>1 DEF Body, Reads
<1> QED
  BY <1>3, <1>4, <1>5, <1>6, <1>7, <1>8 DEF Steps

LEMMA KeepInit == RequestInit => KeepInv
BY BackInit, SyncInit DEF KeepInv, RequestInit

LEMMA KeepStep == KeepInv /\ [NextPart \/ Consume \/ Done]_requestVars => KeepInv'
<1> SUFFICES ASSUME KeepInv, [NextPart \/ Consume \/ Done]_requestVars PROVE KeepInv'
  OBVIOUS
<1>1. BackInv /\ BackInv'
  BY BackStep DEF KeepInv
<1>2. CASE UNCHANGED requestVars
  <2>1. UNCHANGED <<clientVars, state, fields, parsed_status>>
    BY <1>2 DEF requestVars
  <2>2. StateFits' = StateFits
    BY <2>1 DEF StateFits, clientVars
  <2>3. /\ MethodFits' = MethodFits /\ UriFits' = UriFits /\ VersionFits' = VersionFits
        /\ HeadersFit' = HeadersFit /\ BodyFits' = BodyFits /\ Kept' = Kept
    BY <2>1 DEF MethodFits, UriFits, VersionFits, HeadersFit, BodyFits, Kept, clientVars, fields
  <2>4. StatusFits' = StatusFits
    BY <2>1 DEF StatusFits, HeadWritten, Piece, clientVars
  <2> QED
    BY <1>1, <2>1, <2>2, <2>3, <2>4 DEF KeepInv, Sync, clientVars
<1>3. CASE NextPart
  <2>1. UNCHANGED <<sent, written, spoiler, state, method, uri, handler_path, file_path, version,
                    headers, body, parsed_status>>
    BY <1>3 DEF NextPart, fields
  <2>2. spoiler = "none" => Sync'
    BY <1>1, <1>3, SyncNextPart DEF KeepInv
  <2>3. Kept' = Kept
    BY <2>1 DEF Kept
  <2> QED
    BY <1>1, <2>1, <2>2, <2>3 DEF KeepInv
<1>4. CASE Consume
  <2>1. PICK c \in Characters : Steps(c)
    BY <1>4 DEF Consume, Steps
  <2>2. Writes(c) /\ parsed_status # "bad" /\ state \in States
        /\ (state \in {"expecting_newline_3", "body_state"} => Body(c))
    BY <2>1, Which
  <2>3. sent' = sent
    BY <2>2 DEF Writes
  <2>4. "none" \notin Spoilers
    BY RequestAssumption DEF Characters
\* In the body.
  <2>5. ASSUME state = "body_state", Kept, written' = written PROVE Kept' /\ state' = "body_state"
    <3>1. UNCHANGED notBody /\ state' = state
      BY <2>2, <2>5 DEF Body, Reads
    <3> QED
      BY <2>3, <2>5, <3>1 DEF Kept, notBody
  <2>6. CASE spoiler = "none" /\ c = Piece[n + 1] /\ written' = WrittenMore(c) /\ spoiler' = spoiler
    BY <1>1, <2>1, <2>2, <2>6, SyncConsume DEF KeepInv
  <2>7. CASE spoiler = "none" /\ spoiler' = c /\ c \in Spoilers /\ written' = written
    <3>1. Kept
      BY <1>1, <2>7, SyncKeeps DEF KeepInv
    <3>2. ASSUME c = "ctl", state # "body_state" PROVE Kept' /\ parsed_status' = "bad"
      <4>1. Bad
        BY <2>1, <2>2, <3>2, CtlIsBad
      <4> QED
        BY <2>3, <2>7, <3>1, <4>1 DEF Bad, Kept, fields
    <3> QED
      BY <1>1, <2>4, <2>5, <2>7, <3>1, <3>2 DEF KeepInv
  <2>8. CASE spoiler # "none" /\ spoiler' = spoiler /\ written' = written
    <3>1. spoiler = "ctl" => Kept /\ state = "body_state"
      BY <2>2 DEF KeepInv
    <3> QED
      BY <1>1, <2>5, <2>8, <3>1 DEF KeepInv
  <2>9. \/ /\ c = Piece[n + 1] /\ spoiler' = spoiler
           /\ written' = IF spoiler = "none" THEN WrittenMore(c) ELSE written
        \/ c \in Spoilers /\ spoiler = "none" /\ spoiler' = c /\ written' = written
    BY <2>2 DEF Writes
  <2> QED
    BY <2>6, <2>7, <2>8, <2>9
<1> QED
  BY <1>2, <1>3, <1>4 DEF Done

LEMMA KeepAlways == RequestSpec => []KeepInv
BY KeepInit, KeepStep, PTL DEF RequestSpec

\* Wherever Parse (request.cc) stops, because the read brought no more or at a
\* control character, the uri and the headers that Connection::handle_read
\* looks at are a beginning of those that were sent: whatever the request.
THEOREM KeepsWhatItFound == RequestSpec => []KeepsABeginning
<1>1. KeepInv => KeepsABeginning
  <2> SUFFICES ASSUME KeepInv PROVE KeepsABeginning
    OBVIOUS
  <2>1. BackInv /\ Pos
    BY DEF KeepInv, BackInv, TypeInv
  <2>2. RequestTypeOK
    <3>1. part \in DOMAIN After \cup {"eol", "body"}
      BY <2>1 DEF Pos, Place, After, InRequestLine, InHeader
    <3> QED
      BY <2>1, <3>1 DEF BackInv, TypeInv, Pos, Place, RequestTypeOK, Header
  <2>3. spoiler \in {"none", "ctl"} => Kept
    BY <2>1, SyncKeeps DEF KeepInv
  <2> QED
    BY <2>2, <2>3 DEF KeepsABeginning, Kept
<1> QED
  BY <1>1, KeepAlways, PTL

\* Parse says good exactly when it has consumed the whole head of an unspoiled
\* request, whatever it is, and then every field is the one that was sent.
THEOREM GoodExactlyThen == RequestSpec => []GoodWhenTheHeadIs
<1>1. KeepInv => GoodWhenTheHeadIs
  <2> SUFFICES ASSUME KeepInv, spoiler = "none", part # "method" \/ n > 0
               PROVE  /\ parsed_status # "bad"
                      /\ (parsed_status = "good") = HeadWritten
                      /\ parsed_status = "good" =>
                           /\ method = sent.method /\ uri = sent.uri
                           /\ version = sent.major \o <<".">> \o sent.minor
                           /\ headers = written /\ Len(headers) = Len(sent.headers)
                           /\ \A i \in 1 .. Len(headers) :
                                headers[i].name = sent.headers[i].name
                           /\ IsPrefix(body, sent.body)
    BY DEF GoodWhenTheHeadIs
  <2>1. Sync /\ Pos /\ Place /\ sent.body \in Seq(Characters)
    BY SentType DEF KeepInv, BackInv, TypeInv, Pos
  <2>2. parsed_status = IF HeadWritten THEN "good" ELSE "indeterminate"
    BY <2>1 DEF Sync, StatusFits, Pos
  <2>3. ASSUME HeadWritten
        PROVE  part \in {"end", "body"} /\ header = Len(sent.headers)
    BY <2>1, <2>3 DEF HeadWritten, Place
  <2>4. ASSUME HeadWritten PROVE IsPrefix(body, sent.body)
    <3>1. part = "body" => n \in 0 .. Len(sent.body)
      BY <2>1, Pieces DEF Pos
    <3>2. body = << >> \/ (part = "body" /\ body = SubSeq(sent.body, 1, n))
      BY <2>1 DEF Sync, BodyFits
    <3>3. 0 \in 0 .. Len(sent.body)
      BY <2>1
    <3>4. CASE body = << >>
      BY <2>1, <3>3, <3>4, Begins
    <3>5. CASE part = "body" /\ body = SubSeq(sent.body, 1, n)
      BY <2>1, <3>1, <3>5, Begins
    <3> QED
      BY <3>2, <3>4, <3>5
  <2>5. ASSUME HeadWritten
        PROVE  /\ method = sent.method /\ uri = sent.uri
               /\ version = sent.major \o <<".">> \o sent.minor
               /\ headers = written /\ Len(headers) = Len(sent.headers)
               /\ \A i \in 1 .. Len(headers) : headers[i].name = sent.headers[i].name
    BY <2>1, <2>3, <2>5 DEF Sync, MethodFits, UriFits, VersionFits, HeadersFit
  <2>6. HeadWritten \in BOOLEAN
    BY DEF HeadWritten
  <2>7. parsed_status # "bad" /\ (parsed_status = "good" <=> HeadWritten)
    BY <2>2
  <2> QED
    BY <2>4, <2>5, <2>6, <2>7
<1> QED
  BY <1>1, KeepAlways, PTL
=============================================================================
