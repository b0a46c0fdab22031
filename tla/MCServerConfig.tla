--------------------------- MODULE MCServerConfig ---------------------------
(* Every config of up to MaxStatements of the statements below, for TLC.     *)
EXTENDS ServerConfig

CONSTANT MaxStatements

S(tokens, block) == [tokens |-> tokens, block |-> block]

Statements == {
    S(<<"port", "80">>, "none"), S(<<"port", "-1">>, "none"), S(<<"port", "180">>, "none"),
    S(<<"port", "junk">>, "none"), S(<<"port">>, "none"),
    S(<<"path", "/a", "EchoHandler">>, "ok"), S(<<"path", "/a", "StaticHandler">>, "ok"),
    S(<<"path", "/b", "EchoHandler">>, "short"), S(<<"path", "/b", "StaticHandler">>, "short"),
    S(<<"path", "/b", "NotAHandler">>, "ok"), S(<<"path", "/b", "EchoHandler">>, "none"),
    S(<<"path", "default", "EchoHandler">>, "ok"),
    S(<<"default", "EchoHandler">>, "ok"), S(<<"default", "StaticHandler">>, "ok"),
    S(<<"default", "NotAHandler">>, "ok"), S(<<"default">>, "ok"),
    S(<<"foo">>, "none"), S(<<"foo", "bar">>, "none")}

MCConfigs == UNION {[1 .. n -> Statements] : n \in 0 .. MaxStatements}

MCStoi == [word \in {"80", "-1", "180"} |->
             IF word = "80" THEN 80 ELSE IF word = "-1" THEN -1 ELSE 180]
=============================================================================
