----------------------------- MODULE RouteLoop ------------------------------
(***************************************************************************)
(* The part of Connection::handle_read that picks the handler, statement   *)
(* by statement: the loop over the headers that looks for Referer          *)
(* (connection.cc:61-66), the loop that shortens the uri until the handler *)
(* map has it (69-78) and the use of the default handler (81-88).          *)
(***************************************************************************)
EXTENDS Routing

CONSTANTS
    Requests    \* the requests routed: records of a uri and of the values of
                \* the Referer headers, in order

ASSUME RequestsAssumption ==
    \A r \in Requests : /\ r.uri \in Uri
                        /\ r.referers \in Seq(Uri \cup {NoPath})
                        /\ \A i \in 1 .. Len(r.referers) :
                             r.referers[i] # NoUri

VARIABLES
    request,                \* the parsed request
    handler_uri_prefix,     \* the text looked up next
    pair,                   \* the next Referer header to look at
    chosen,                 \* the key whose handler was chosen
    pc

loopVars == <<request, handler_uri_prefix, pair, chosen, pc>>

LoopInit ==
    /\ request \in Requests
    /\ handler_uri_prefix = request.uri
    /\ pair = 1
    /\ chosen = None
    /\ pc = "referer"

\* find("/", 8) and substr: npos makes substr throw.
Referer ==
    /\ pc = "referer"
    /\ pair =< Len(request.referers)
    /\ IF request.referers[pair] = NoPath
       THEN pc' = "thrown" /\ UNCHANGED handler_uri_prefix
       ELSE pc' = pc /\ handler_uri_prefix' = request.referers[pair]
    /\ pair' = pair + 1
    /\ UNCHANGED <<request, chosen>>

NoMoreReferers ==
    /\ pc = "referer"
    /\ pair > Len(request.referers)
    /\ pc' = "match"
    /\ UNCHANGED <<request, handler_uri_prefix, pair, chosen>>

Match ==
    /\ pc = "match"
    /\ handler_uri_prefix # NoUri
    /\ handler_uri_prefix \in Registered
    /\ chosen' = handler_uri_prefix
    /\ pc' = "routed"
    /\ UNCHANGED <<request, handler_uri_prefix, pair>>

Shorten ==
    /\ pc = "match"
    /\ handler_uri_prefix # NoUri
    /\ handler_uri_prefix \notin Registered
    /\ handler_uri_prefix' = ShortenUriPrefix(handler_uri_prefix)
    /\ UNCHANGED <<request, pair, chosen, pc>>

\* path_to_handler_->at("default") throws when there is none.
UseDefault ==
    /\ pc = "match"
    /\ handler_uri_prefix = NoUri
    /\ IF HasDefault THEN chosen' = Default /\ pc' = "routed"
                     ELSE chosen' = chosen /\ pc' = "thrown"
    /\ UNCHANGED <<request, handler_uri_prefix, pair>>

Stopped == pc \in {"routed", "thrown"} /\ UNCHANGED loopVars

LoopNext == Referer \/ NoMoreReferers \/ Match \/ Shorten \/ UseDefault

\* The loop is straight code of one thread: it keeps running.
LoopSpec == LoopInit /\ [][LoopNext \/ Stopped]_loopVars /\ WF_loopVars(LoopNext)
-----------------------------------------------------------------------------
LoopTypeOK ==
    /\ request \in Requests
    /\ handler_uri_prefix \in Uri
    /\ pair \in 1 .. Len(request.referers) + 1
    /\ chosen \in Registered \cup {None, Default}
    /\ pc \in {"referer", "match", "routed", "thrown"}

\* connection.cc:68 "Iterate through handler_id possibilities by longest
\* prefix": cutting the uri at its last slash until the map has it finds the
\* longest registered uri that covers the one looked up, "/" last of all, and
\* the default handler only when none does.  An exception leaves handle_read
\* only if there is no default handler then, or for a Referer without a path.
LongestPrefixWins ==
    /\ pc = "routed" => chosen = Route(request.uri, request.referers)
    /\ pc = "thrown" => Route(request.uri, request.referers) = Throws

\* ShortenUriPrefix makes every text that begins with a slash shorter, so the
\* loop always comes to an end.
Terminates == <>(pc \in {"routed", "thrown"})
=============================================================================
