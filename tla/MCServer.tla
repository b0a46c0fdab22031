------------------------------ MODULE MCServer ------------------------------
(* Small instances of Server for TLC. *)
EXTENDS Server, TLC

CONSTANTS t1, t2, c1, c2, c3, c4

TwoThreads == {t1, t2}
ThreeConns == {c1, c2, c3}
FourConns == {c1, c2, c3, c4}
Symmetry == Permutations(Threads) \cup Permutations(Conns)

\* No segment of the uris below begins another.
MCBegins == {}

Get(u) == [uri |-> u, referers |-> << >>]
From(u, v) == [uri |-> u, referers |-> <<v>>]

MCSegments == {"echo", "static", "file", "status", "hold"}

\* /hold keeps its threads.
HoldingUris == {<<"echo">>, <<"hold">>}
HoldingHandlers == (<<"echo">> :> "EchoHandler" @@ <<"hold">> :> "HoldingHandler"
                    @@ Default :> "NotFoundHandler")
HoldingRequests == {Get(<<"echo">>), Get(<<"hold">>)}

\* /static and no default handler, with the faults of clients and files.
FilesUris == {<<"static">>}
FilesHandlers == (<<"static">> :> "StaticHandler")
FilesRequests == {Get(<<"static", "file">>), From(<<"file">>, <<"static">>)}

\* /, as in the README, and a request that, by how much of it and of its
\* Referer is read, goes to any of the three handlers or to none.
MixedUris == {Root, <<"status">>}
MixedHandlers == (Root :> "StaticHandler" @@ <<"status">> :> "StatusHandler"
                  @@ Default :> "NotFoundHandler")
MixedRequests == {From(<<"status">>, Root)}
=============================================================================
