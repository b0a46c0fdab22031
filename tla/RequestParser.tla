---------------------------- MODULE RequestParser ---------------------------
(***************************************************************************)
(* Request::Parse (request.cc): the characters that one read of the socket *)
(* found are consumed one by one by an automaton that fills the fields of  *)
(* the Request.                                                            *)
(*                                                                         *)
(* A client writes the text of a request, part by part, and one character  *)
(* of it may be spoiled.  Each step writes a character and consumes it; as *)
(* a read may find only the beginning of the text, every state is one that *)
(* Parse may return in.  Characters are told apart as far as consume does. *)
(*                                                                         *)
(* The numbers http_version_major_ and _minor_ are left out: nothing reads *)
(* them.                                                                   *)
(***************************************************************************)
EXTENDS Integers, Sequences, SequencesExt

CONSTANTS
    Requests,   \* the requests sent: method, uri, version (major and minor),
                \* headers (name and the lines of the value, more than one when
                \* it is folded), body
    Spoilers    \* the characters that may stand in for one of a request

VARIABLES
    sent,           \* the request the client sends
    part, n,        \* the part of it that is written, and how much of that is
    header, line,   \* the header and line it is in
    written,        \* history: the headers as far as they are written unspoiled
    spoiler,        \* the character that stood in for another, or "none"
    state,
    method, uri, handler_path, file_path, version, headers, body,
    parsed_status

clientVars == <<sent, part, n, header, line, written, spoiler>>
fields == <<method, uri, handler_path, file_path, version, headers, body>>
requestVars == <<clientVars, state, fields, parsed_status>>
-----------------------------------------------------------------------------
(* The classes of characters: "x", "ctl" and "high" stand for all the others *)

Characters == {"x", "1", "H", "T", "P", ".", "/", ":", "<", "space", "tab", "cr", "nl",
               "ctl", "high"}

IsChar(c) == c # "high"
IsCtl(c) == c \in {"ctl", "cr", "nl", "tab"}
IsTspecial(c) == c \in {"<", ":", "/", "space", "tab"}
IsDigit(c) == c = "1"
IsToken(c) == IsChar(c) /\ ~IsCtl(c) /\ ~IsTspecial(c)

Tokens == {c \in Characters : IsToken(c)}
Printed == {c \in Characters : ~IsCtl(c)}
Digits == {c \in Characters : IsDigit(c)}

Request == [method : Seq(Tokens), uri : Seq(Printed \ {"space"}),
            major : Seq(Digits), minor : Seq(Digits),
            headers : Seq([name : Seq(Tokens), lines : Seq(Seq(Printed))]),
            body : Seq(Characters)]

\* A line that goes on with a value begins with one space, which is no part of it.
ASSUME RequestAssumption ==
    /\ Spoilers \subseteq Characters
    /\ Requests \subseteq Request
    /\ \A r \in Requests :
         /\ r.method # << >> /\ r.major # << >> /\ r.minor # << >>
         /\ r.uri # << >> /\ r.uri[1] = "/"
         /\ \A i \in 1 .. Len(r.headers) :
              /\ r.headers[i].name # << >> /\ r.headers[i].lines # << >>
              /\ \A l \in 2 .. Len(r.headers[i].lines) :
                   r.headers[i].lines[l] # << >> => r.headers[i].lines[l][1] # "space"

\* new Request() sets all of it to 0, and 0 is good and method_start.
RequestInit ==
    /\ sent \in Requests
    /\ part = "method" /\ n = 0 /\ header = 0 /\ line = 0
    /\ written = << >> /\ spoiler = "none"
    /\ state = "method_start"
    /\ method = << >> /\ uri = << >> /\ handler_path = << >> /\ file_path = << >>
    /\ version = << >> /\ headers = << >> /\ body = << >>
    /\ parsed_status = "good"
-----------------------------------------------------------------------------
(* The client *)

\* What is written between the fields.
Between == [sp |-> <<"space">>, http |-> <<"space", "H", "T", "T", "P", "/">>, dot |-> <<".">>,
            eol |-> <<"cr", "nl">>, colon |-> <<":", "space">>, fold |-> <<"space">>,
            end |-> <<"cr", "nl">>]

Piece == CASE part \in {"method", "uri", "major", "minor", "body"} -> sent[part]
           [] part = "name" -> sent.headers[header].name
           [] part = "line" -> sent.headers[header].lines[line]
           [] OTHER -> Between[part]

\* What follows each part, but for the end of a line.
After == [method |-> "sp", sp |-> "uri", uri |-> "http", http |-> "major", major |-> "dot",
          dot |-> "minor", minor |-> "eol", name |-> "colon", colon |-> "line",
          line |-> "eol", fold |-> "line", end |-> "body"]

GoOnWithValue == header > 0 /\ line < Len(sent.headers[header].lines)

NextPart ==
    /\ n = Len(Piece)
    /\ n' = 0
    /\ \/ /\ part \in DOMAIN After
          /\ part' = After[part]
          /\ UNCHANGED <<header, line>>
       \/ /\ part = "eol" /\ GoOnWithValue
          /\ part' = "fold" /\ line' = line + 1
          /\ UNCHANGED header
       \/ /\ part = "eol" /\ ~GoOnWithValue
          /\ IF header < Len(sent.headers)
             THEN part' = "name" /\ header' = header + 1 /\ line' = 1
             ELSE part' = "end" /\ UNCHANGED <<header, line>>
    /\ UNCHANGED <<sent, written, spoiler, state, fields, parsed_status>>

\* The headers with one more character c.
WrittenMore(c) ==
    CASE part = "name" /\ n = 0 -> Append(written, [name |-> <<c>>, value |-> << >>])
      [] part = "name" /\ n > 0 -> [written EXCEPT ![header].name = Append(@, c)]
      [] part = "line" -> [written EXCEPT ![header].value = Append(@, c)]
      [] OTHER -> written

Writes(c) ==
    /\ n < Len(Piece)
    /\ n' = n + 1
    /\ \/ /\ c = Piece[n + 1]
          /\ written' = IF spoiler = "none" THEN WrittenMore(c) ELSE written
          /\ UNCHANGED spoiler
       \/ c \in Spoilers /\ spoiler = "none" /\ spoiler' = c /\ UNCHANGED written
    /\ UNCHANGED <<sent, part, header, line>>
-----------------------------------------------------------------------------
(* consume *)

\* c is the next character, read in one of the given states.
Reads(S, c) == state \in S /\ parsed_status # "bad" /\ Writes(c)

Goto(s) == state' = s /\ parsed_status' = "indeterminate"

\* Parse leaves the loop on bad.
Bad == parsed_status' = "bad" /\ UNCHANGED <<state, fields>>

notMethod == <<uri, handler_path, file_path, version, headers, body>>
notUri == <<method, version, headers, body>>
notVersion == <<method, uri, handler_path, file_path, headers, body>>
notHeaders == <<method, uri, handler_path, file_path, version, body>>
notBody == <<method, uri, handler_path, file_path, version, headers>>

Method(c) ==
    /\ Reads({"method_start", "method_inside"}, c)
    /\ CASE state = "method_inside" /\ c = "space" ->
              Goto("handler_path_start") /\ UNCHANGED fields
         [] IsToken(c) ->
              /\ Goto("method_inside")
              /\ method' = Append(method, c)
              /\ UNCHANGED notMethod
         [] OTHER -> Bad

PathStart(c) ==
    /\ Reads({"handler_path_start"}, c)
    /\ IF c = "/"
       THEN /\ Goto("handler_path")
            /\ handler_path' = Append(handler_path, c)
            /\ uri' = Append(uri, c)
            /\ UNCHANGED file_path
            /\ UNCHANGED notUri
       ELSE Bad

\* The first segment is handler_path_, the rest of the uri file_path_.
InHandlerPath(c) ==
    /\ Reads({"handler_path"}, c)
    /\ CASE c = "space" -> Goto("http_version_h") /\ UNCHANGED fields
         [] IsCtl(c) -> Bad
         [] OTHER ->
              /\ Goto(IF c = "/" THEN "uri_inside" ELSE "handler_path")
              /\ uri' = Append(uri, c)
              /\ IF c = "/"
                 THEN file_path' = Append(file_path, c) /\ UNCHANGED handler_path
                 ELSE handler_path' = Append(handler_path, c) /\ UNCHANGED file_path
              /\ UNCHANGED notUri

InUri(c) ==
    /\ Reads({"uri_inside"}, c)
    /\ CASE c = "space" -> Goto("http_version_h") /\ UNCHANGED fields
         [] IsCtl(c) -> Bad
         [] OTHER ->
              /\ Goto("uri_inside")
              /\ uri' = Append(uri, c)
              /\ file_path' = Append(file_path, c)
              /\ UNCHANGED handler_path
              /\ UNCHANGED notUri

\* Wrong: "HTTP1.1".
ExpectedNoSlash ==
            [http_version_h     |-> <<"H", "http_version_t_1">>,
             http_version_t_1   |-> <<"T", "http_version_t_2">>,
             http_version_t_2   |-> <<"T", "http_version_p">>,
             http_version_p     |-> <<"P", "http_version_major_start">>,
             expecting_newline_1 |-> <<"nl", "header_line_start">>,
             space_before_header_value |-> <<"space", "header_value">>,
             expecting_newline_2 |-> <<"nl", "header_line_start">>]

\* The states that wait for one character and then go on to the next.
Expected == [http_version_h     |-> <<"H", "http_version_t_1">>,
             http_version_t_1   |-> <<"T", "http_version_t_2">>,
             http_version_t_2   |-> <<"T", "http_version_p">>,
             http_version_p     |-> <<"P", "http_version_slash">>,
             http_version_slash |-> <<"/", "http_version_major_start">>,
             expecting_newline_1 |-> <<"nl", "header_line_start">>,
             space_before_header_value |-> <<"space", "header_value">>,
             expecting_newline_2 |-> <<"nl", "header_line_start">>]

OneChar(c) ==
    /\ Reads(DOMAIN Expected, c)
    /\ IF c = Expected[state][1]
       THEN Goto(Expected[state][2]) /\ UNCHANGED fields
       ELSE Bad

Version(c) ==
    LET digits == IF state \in {"http_version_major_start", "http_version_major"}
                  THEN "http_version_major" ELSE "http_version_minor"
        put == version' = Append(version, c) /\ UNCHANGED notVersion
    IN /\ Reads({"http_version_major_start", "http_version_major",
                 "http_version_minor_start", "http_version_minor"}, c)
       /\ CASE IsDigit(c) -> Goto(digits) /\ put
            [] state = "http_version_major" /\ c = "." -> Goto("http_version_minor_start") /\ put
            [] state = "http_version_minor" /\ c = "cr" ->
                 Goto("expecting_newline_1") /\ UNCHANGED fields
            [] OTHER -> Bad

\* headers_.back()
Back == headers[Len(headers)]
ChangeBack(h) == headers' = [headers EXCEPT ![Len(headers)] = h] /\ UNCHANGED notHeaders

AddToName(c) == ChangeBack([Back EXCEPT !.name = Append(@, c)])

\* Wrong: to the first header.
AddToFirstValue(c) ==
    /\ headers' = [headers EXCEPT ![1] = [@ EXCEPT !.value = Append(@, c)]]
    /\ UNCHANGED notHeaders

AddToValue(c) == ChangeBack([Back EXCEPT !.value = Append(@, c)])

NewHeader(c) == [name |-> <<c>>, value |-> << >>]

\* Wrong: also the first line may.
MayFoldAlways == TRUE

MayFold == headers # << >>

\* A line that begins with white space goes on with the last header.
HeaderLineStart(c) ==
    /\ Reads({"header_line_start"}, c)
    /\ CASE c = "cr" -> Goto("expecting_newline_3") /\ UNCHANGED fields
         [] MayFold /\ c \in {"space", "tab"} -> Goto("header_lws") /\ UNCHANGED fields
         [] IsToken(c) ->
              /\ Goto("header_name")
              /\ headers' = Append(headers, NewHeader(c))
              /\ UNCHANGED notHeaders
         [] OTHER -> Bad

HeaderLws(c) ==
    /\ Reads({"header_lws"}, c)
    /\ CASE c = "cr" -> Goto("expecting_newline_2") /\ UNCHANGED fields
         [] c \in {"space", "tab"} -> Goto("header_lws") /\ UNCHANGED fields
         [] c \in {"ctl", "nl"} -> Bad
         [] OTHER -> Goto("header_value") /\ AddToValue(c)

HeaderName(c) ==
    /\ Reads({"header_name"}, c)
    /\ CASE c = ":" -> Goto("space_before_header_value") /\ UNCHANGED fields
         [] IsToken(c) -> Goto("header_name") /\ AddToName(c)
         [] OTHER -> Bad

HeaderValue(c) ==
    /\ Reads({"header_value"}, c)
    /\ CASE c = "cr" -> Goto("expecting_newline_2") /\ UNCHANGED fields
         [] IsCtl(c) /\ c # "cr" -> Bad
         [] OTHER -> Goto("header_value") /\ AddToValue(c)

\* The head is complete: good, and good it stays whatever the body is.
Body(c) ==
    \/ /\ Reads({"expecting_newline_3"}, c)
       /\ IF c = "nl"
          THEN state' = "body_state" /\ parsed_status' = "good" /\ UNCHANGED fields
          ELSE Bad
    \/ /\ Reads({"body_state"}, c)
       /\ body' = Append(body, c)
       /\ UNCHANGED notBody
       /\ UNCHANGED <<state, parsed_status>>

Consume ==
    \E c \in Characters :
        \/ Method(c) \/ PathStart(c) \/ InHandlerPath(c) \/ InUri(c) \/ OneChar(c)
        \/ Version(c) \/ HeaderLineStart(c) \/ HeaderLws(c) \/ HeaderName(c)
        \/ HeaderValue(c) \/ Body(c)

Parsed == parsed_status = "bad" \/ (part = "body" /\ n = Len(Piece))

Done == Parsed /\ UNCHANGED requestVars

RequestSpec == RequestInit /\ [][NextPart \/ Consume \/ Done]_requestVars
-----------------------------------------------------------------------------
States == {"method_start", "method_inside", "handler_path_start", "handler_path",
           "uri_inside", "http_version_major_start", "http_version_major",
           "http_version_minor_start", "http_version_minor", "header_line_start",
           "header_lws", "header_name", "header_value", "expecting_newline_3",
           "body_state"} \cup DOMAIN Expected

RequestTypeOK ==
    /\ sent \in Requests
    /\ part \in DOMAIN After \cup {"eol", "body"} /\ n \in 0 .. Len(Piece)
    /\ header \in 0 .. Len(sent.headers) /\ line \in Nat
    /\ spoiler \in Spoilers \cup {"none"}
    /\ state \in States
    /\ method \in Seq(Characters) /\ uri \in Seq(Characters)
    /\ handler_path \in Seq(Characters) /\ file_path \in Seq(Characters)
    /\ version \in Seq(Characters) /\ body \in Seq(Characters)
    /\ headers \in Seq([name : Seq(Characters), value : Seq(Characters)])
    /\ parsed_status \in {"good", "bad", "indeterminate"}

\* consume uses headers_.back() only when there is a header, whatever text the
\* client sends: no line of it can begin like the continuation of another
\* before there is one.
BackIsThere ==
    state \in {"header_lws", "header_name", "space_before_header_value",
               "header_value", "expecting_newline_2"} => headers # << >>

\* What Connection::handle_read relies on, which looks at the uri and the
\* Referer but never at parsed_status: wherever the text breaks off, by its end
\* or by a control character, the uri is the beginning of the one sent, no
\* header is there before the uri is complete, and the headers are as far there
\* as they were written, the lines of a folded one put together.
KeepsABeginning ==
    /\ RequestTypeOK
    /\ spoiler \in {"none", "ctl"} =>
        /\ IsPrefix(uri, sent.uri)
        /\ uri = handler_path \o file_path
        /\ headers # << >> => uri = sent.uri
        /\ headers = written

HeadWritten == part = "body" \/ (part = "end" /\ n = Len(Piece))

\* Parse says good exactly when it has seen the whole head, and then the fields
\* are those of the request; what was sent of the body is body_.
GoodWhenTheHeadIs ==
    spoiler = "none" /\ (part # "method" \/ n > 0) =>
        /\ parsed_status # "bad"
        /\ (parsed_status = "good") = HeadWritten
        /\ parsed_status = "good" =>
             /\ method = sent.method /\ uri = sent.uri
             /\ version = sent.major \o <<".">> \o sent.minor
             /\ headers = written /\ Len(headers) = Len(sent.headers)
             /\ \A i \in 1 .. Len(headers) : headers[i].name = sent.headers[i].name
             /\ IsPrefix(body, sent.body)
=============================================================================
