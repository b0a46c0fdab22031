------------------------------ MODULE Handlers ------------------------------
(***************************************************************************)
(* What HandleRequest of each handler may do with a request, as the set of *)
(* its outcomes.  The files, the bucket and the proxied host the handlers  *)
(* look at belong to the environment: which outcome it is depends on them. *)
(***************************************************************************)
EXTENDS Routing

CONSTANTS
    HandlerAt,  \* path_to_handler_: the handler name of each registered uri,
                \* and of Default if there is one
    Begins,     \* the pairs of different, nonempty segments of which the
                \* first begins the second, as "a" begins "ab"
    Faults      \* the faults of the environment that are considered

HandlerNames == {"EchoHandler", "StaticHandler", "NotFoundHandler",
                 "StatusHandler", "HoldingHandler", "S3Handler", "ProxyHandler"}

ASSUME HandlersAssumption ==
    HandlerAt \in [Registered \cup (IF HasDefault THEN {Default} ELSE {})
                     -> HandlerNames]

\* uri != prefix, uri.size() > prefix.size() and uri.substr(0, prefix.size())
\* == prefix: text for text, so "/ab" begins with "/a".  The prefix of the
\* default handler is the word "default", which begins no uri.
SegmentBegins(s, x) == s = x \/ s = "" \/ <<s, x>> \in Begins

StrictPrefix(p, u) ==
    /\ p # Default
    /\ p # u
    /\ Len(p) =< Len(u)
    /\ \A i \in 1 .. Len(p) - 1 : p[i] = u[i]
    /\ SegmentBegins(p[Len(p)], u[Len(p)])

\* What ResponseCodeToString makes of the code of a Response.
Codes == {200, 404, 500}

\* A Response: the status of its status line, or 0 for a Response whose
\* SetStatus was never called and whose status line is empty; the code that
\* GetResponseCode and ResponseCodeToString give for it; what HandleRequest
\* returned with it; and how many writes to the socket it takes.
Responses == [status : Codes \cup {0}, code : Codes, ret : {"OK", "ERROR"},
              chunks : {1, 2}]

\* No request yet, and no response yet.
NoRequest == [uri |-> None, referers |-> << >>]
NoReply == [status |-> 0, code |-> 0, ret |-> "none", chunks |-> 0]

\* response.cc:3-25
SetStatus(code, ret, chunks) ==
    [status |-> code, code |-> code, ret |-> ret, chunks |-> chunks]

\* raw_status_ is not initialised: an untouched Response has any code.
Untouched == {[status |-> 0, code |-> c, ret |-> "ERROR", chunks |-> 1] : c \in Codes}

\* The responses HandleRequest of the handler at p may give to a request.
EchoResponses == {SetStatus(200, "OK", 1)}

NotFoundResponses == {SetStatus(404, "OK", 1)}

StaticResponses(p, u) ==
    IF StrictPrefix(p, u)
    THEN {SetStatus(200, "OK", n) : n \in {1, 2}} \cup NotFoundResponses
    ELSE Untouched

S3Responses(p, u) ==
    IF StrictPrefix(p, u) THEN {SetStatus(200, "OK", n) : n \in {1, 2}}
                          ELSE Untouched

ProxyResponses ==
    {SetStatus(code, "OK", n) : code \in {200, 404}, n \in {1, 2}}
        \cup {SetStatus(500, "ERROR", 1)}

\* ToHtml ran first (Server!PageDone).
StatusResponses == {SetStatus(200, "OK", 1)}

HandleRequest(p, u) ==
    LET h == HandlerAt[p]
    IN CASE h = "EchoHandler"     -> EchoResponses
         [] h = "NotFoundHandler" -> NotFoundResponses
         [] h = "StaticHandler"   -> StaticResponses(p, u)
         [] h = "S3Handler"       -> S3Responses(p, u)
         [] h = "ProxyHandler"    -> ProxyResponses
         [] h = "StatusHandler"   -> StatusResponses
         [] h = "HoldingHandler"  -> {}

\* canonical() of a file that has gone, popen() and the calls of the proxy to
\* the network throw.
MayThrow(p, u) ==
    /\ "throw" \in Faults
    /\ \/ HandlerAt[p] \in {"StaticHandler", "S3Handler"} /\ StrictPrefix(p, u)
       \/ HandlerAt[p] = "ProxyHandler"
=============================================================================
