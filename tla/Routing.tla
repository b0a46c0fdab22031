------------------------------ MODULE Routing -------------------------------
(***************************************************************************)
(* How a Connection chooses the handler of a request (connection.cc:56-88  *)
(* and ShortenUriPrefix), as operators.                                    *)
(*                                                                         *)
(* A uri is the sequence of the texts between its slashes: "/" is <<"">>,  *)
(* "/a/b" is <<"a", "b">>, "/a/" is <<"a", "">>, and the empty string,     *)
(* which Request::uri() is when no path was parsed, is << >>.  What stands *)
(* between two slashes is a model value or a string and is never looked    *)
(* into: ShortenUriPrefix cuts at slashes only.                            *)
(***************************************************************************)
EXTENDS Integers, Sequences

CONSTANTS
    Segments,       \* the texts between slashes
    Registered,     \* the uris that path_to_handler_ has a handler for
    HasDefault      \* whether it has one for the key "default"

\* A segment of which only a part was read: no registered uri has one.
Part == "?part"

NoUri == << >>
Root == <<"">>
Uri == Seq(Segments \cup {"", Part})

\* What is not a uri, in the form of a uri so that the two can be compared: a
\* Referer value in which find("/", 8) finds nothing, the key of the default
\* handler, no choice so far, and the exception that leaves handle_read.
NoPath == <<"?no path">>
Default == <<"?default">>
None == <<"?none">>
Throws == <<"?throws">>

ASSUME RoutingAssumption ==
    /\ Registered \subseteq Seq(Segments \cup {""}) \ {NoUri}
    /\ HasDefault \in BOOLEAN
    /\ {"?no path", "?default", "?none", "?throws", Part} \cap Segments = {}

\* Wrong: cuts two segments.
ShortenTwice(u) ==
    IF u = Root \/ u = NoUri THEN NoUri
    ELSE IF Len(u) =< 2 THEN Root
    ELSE SubSeq(u, 1, Len(u) - 2)

\* Wrong: does not cut at the slash the uri begins with.
ShortenButFirst(u) ==
    IF u = Root THEN NoUri ELSE IF Len(u) =< 1 THEN u ELSE SubSeq(u, 1, Len(u) - 1)

\* connection.cc:100-121
ShortenUriPrefix(u) ==
    IF u = Root \/ u = NoUri THEN NoUri
    ELSE IF Len(u) = 1 THEN Root
    ELSE SubSeq(u, 1, Len(u) - 1)

\* What a path below u begins with, slash by slash; "/" begins every path.
StartsWith(u, p) ==
    /\ Len(p) =< Len(u)
    /\ \A i \in 1 .. Len(p) : p[i] = u[i]

Covers(p, u) == p # NoUri /\ u # NoUri /\ (p = Root \/ StartsWith(u, p))

\* The reference: of the registered uris that cover u, the longest.  "/" is
\* shorter than any other, although as a sequence it is as long as "/a".
Depth(p) == IF p = Root THEN 0 ELSE Len(p)

IsLongest(p, u, S) ==
    /\ p \in S
    /\ Covers(p, u)
    /\ \A q \in S : Covers(q, u) => Depth(q) =< Depth(p)

\* The outcome of routing: a registered uri, the default, or the exception that
\* map::at throws without a default handler.
Longest(u) ==
    IF \E p \in Registered : Covers(p, u)
    THEN CHOOSE p \in Registered : IsLongest(p, u, Registered)
    ELSE IF HasDefault THEN Default ELSE Throws

\* Every Referer header overrides the uri that is looked up; the last one
\* wins.  On a Referer without a path substr throws.
Lookup(uri, referers) ==
    IF referers = << >> THEN uri ELSE referers[Len(referers)]

Route(uri, referers) ==
    IF \E i \in 1 .. Len(referers) : referers[i] = NoPath THEN Throws
    ELSE Longest(Lookup(uri, referers))
=============================================================================
