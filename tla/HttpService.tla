---------------------------- MODULE HttpService -----------------------------
(***************************************************************************)
(* What the server promises its clients, whatever threads, buffers and     *)
(* counters it is made of: each connection is answered at most once, with  *)
(* a response that the handler responsible for its own request may give,   *)
(* or with a 500 where that handler may fail, and nothing is answered once *)
(* the service is down.                                                    *)
(***************************************************************************)
EXTENDS Handlers

CONSTANTS
    Conns,      \* the connections
    Received    \* the requests that may be read from them

VARIABLES
    up,         \* the service is running
    asked,      \* the request read from each connection
    reply       \* the response given on each connection

serviceVars == <<up, asked, reply>>

\* request_handler.h:26-29: where a handler fails, "the server will return
\* HTTP code 500".
Failure == SetStatus(500, "ERROR", 1)

\* README.md, Connection: "invokes the matching RequestHandler".
Promised(q) ==
    LET p == Route(q.uri, q.referers)
    IN IF p = Throws THEN {}
       ELSE {IF r.ret = "OK" THEN r ELSE Failure : r \in HandleRequest(p, q.uri)}

ServiceInit ==
    /\ up = TRUE
    /\ asked = [c \in Conns |-> NoRequest]
    /\ reply = [c \in Conns |-> NoReply]

Ask(c, q) ==
    /\ asked[c] = NoRequest
    /\ asked' = [asked EXCEPT ![c] = q]
    /\ UNCHANGED <<up, reply>>

Reply(c) ==
    /\ asked[c] # NoRequest
    /\ reply[c] = NoReply
    /\ \E r \in Promised(asked[c]) : reply' = [reply EXCEPT ![c] = r]
    /\ UNCHANGED <<up, asked>>

GoDown == up' = FALSE /\ UNCHANGED <<asked, reply>>

ServiceNext ==
    /\ up
    /\ \/ \E c \in Conns : (\E q \in Received : Ask(c, q)) \/ Reply(c)
       \/ GoDown

ServiceSpec == ServiceInit /\ [][ServiceNext]_serviceVars
=============================================================================
