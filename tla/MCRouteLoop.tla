---------------------------- MODULE MCRouteLoop -----------------------------
(* Every uri of up to three segments, with none or two Referer headers,      *)
(* against a map with nested entries, "/" and an entry that ends in a slash, *)
(* and without a default handler.                                            *)
EXTENDS RouteLoop

MCSegments == {"a", "b"}

Uris(n) == UNION {[1 .. k -> MCSegments \cup {""}] : k \in 0 .. n}

MCRequests ==
    [uri : Uris(3), referers : {<< >>}]
        \cup [uri : {<<"a">>, <<"b", "a">>},
              referers : {<<p, q>> : p, q \in (Uris(2) \ {NoUri}) \cup {NoPath}}]

Nested == {Root, <<"a">>, <<"a", "b">>, <<"b", "">>}
=============================================================================
