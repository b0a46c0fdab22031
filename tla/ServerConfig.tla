---------------------------- MODULE ServerConfig ----------------------------
(***************************************************************************)
(* How a Server comes to be: makeServer, getServerInfo, which turns the    *)
(* parsed config into the handler map, and the constructor, which opens    *)
(* the acceptor (server.cc:16-43 and 92-154).                              *)
(*                                                                         *)
(* A config is what ConfigParser leaves: the statements of the top level,  *)
(* each with at least one token (ConfigIsTree).  Of a child block matters  *)
(* whether there is one, and whether a statement in it has fewer than the  *)
(* two tokens that RequestHandler::ParseConfig reads.                      *)
(***************************************************************************)
EXTENDS Integers, Sequences, FiniteSets

CONSTANTS
    Configs,    \* the configs read
    Stoi,       \* the number std::stoi makes of a word; on other words it throws
    Builders,   \* request_handler_builders: the handlers that are registered
    PortWrap    \* the number of values of a port in an endpoint (2^16)

\* The handlers whose Init calls ParseConfig.
Configured == {"StaticHandler", "S3Handler", "ProxyHandler"}

ASSUME ConfigsAssumption ==
    /\ Configs \subseteq Seq([tokens : Seq(STRING) \ {<< >>}, block : {"none", "ok", "short"}])
    /\ \A word \in DOMAIN Stoi : Stoi[word] \in Int
    /\ PortWrap \in Nat \ {0}

VARIABLES
    config,         \* the statements
    i,              \* the statement looked at next
    port,
    path_names,
    uri_prefix_to_handler,      \* the name of the handler at each key
    handler_name_to_prefixes,   \* the keys listed for each handler name
    result,         \* how far makeServer has come, or how it ended
    endpoint        \* the port that the acceptor listens on

configVars == <<config, i, port, path_names, uri_prefix_to_handler,
                handler_name_to_prefixes, result, endpoint>>
info == <<port, path_names, uri_prefix_to_handler, handler_name_to_prefixes>>

NoPort == -1
NotListening == -1

ConfigInit ==
    /\ config \in Configs
    /\ i = 1
    /\ port = NoPort
    /\ path_names = << >>
    /\ uri_prefix_to_handler = << >>
    /\ handler_name_to_prefixes = [h \in Builders |-> << >>]
    /\ result = "reading"
    /\ endpoint = NotListening
-----------------------------------------------------------------------------
Tokens == config[i].tokens

Looks(key) ==
    /\ result = "reading"
    /\ i =< Len(config)
    /\ Tokens[1] = key
    /\ UNCHANGED <<config, endpoint>>

Continue == i' = i + 1 /\ UNCHANGED result

End(r) == result' = r /\ UNCHANGED <<i, info>>

\* Wrong: does not look whether there is a port already.
PortStatementAgain ==
    /\ Looks("port")
    /\ Len(Tokens) > 1
    /\ Tokens[2] \in DOMAIN Stoi
    /\ port' = Stoi[Tokens[2]]
    /\ Continue
    /\ UNCHANGED <<path_names, uri_prefix_to_handler, handler_name_to_prefixes>>

\* tokens_[1] is read unchecked: with one token that is past the end.
PortStatement ==
    /\ Looks("port")
    /\ port = NoPort
    /\ Len(Tokens) > 1
    /\ Tokens[2] \in DOMAIN Stoi
    /\ port' = Stoi[Tokens[2]]
    /\ Continue
    /\ UNCHANGED <<path_names, uri_prefix_to_handler, handler_name_to_prefixes>>

PortFails ==
    /\ Looks("port")
    /\ \/ port # NoPort /\ End("false")
       \/ port = NoPort /\ Len(Tokens) = 1 /\ End("undefined")
       \/ /\ port = NoPort /\ Len(Tokens) > 1
          /\ Tokens[2] \notin DOMAIN Stoi
          /\ End("thrown")

\* handler->Init and the two maps.
Put(m, p, h) == [q \in DOMAIN m \cup {p} |-> IF q = p THEN h ELSE m[q]]

\* Wrong: only the first of a handler's keys is listed.
RegisterFirst(p, h) ==
    /\ uri_prefix_to_handler' = Put(uri_prefix_to_handler, p, h)
    /\ handler_name_to_prefixes' =
         [handler_name_to_prefixes EXCEPT ![h] = IF @ = << >> THEN <<p>> ELSE @]
    /\ Continue

Register(p, h) ==
    /\ uri_prefix_to_handler' = Put(uri_prefix_to_handler, p, h)
    /\ handler_name_to_prefixes' = [handler_name_to_prefixes EXCEPT ![h] = Append(@, p)]
    /\ Continue

\* Whether there is a handler of that name: if not, CreateByName gives null.
CreateByName(h) == h \in Builders

\* A statement of one token in the block of a handler that reads it.
InitFails(h) == config[i].block = "short" /\ h \in Configured

HasForm(n) == Len(Tokens) = n /\ config[i].block # "none"

Names == {path_names[n] : n \in 1 .. Len(path_names)}

\* Wrong: does not look whether the path has a handler already.
PathStatementAgain ==
    /\ Looks("path")
    /\ HasForm(3)
    /\ path_names' = Append(path_names, Tokens[2])
    /\ CreateByName(Tokens[3]) /\ ~InitFails(Tokens[3])
    /\ Register(Tokens[2], Tokens[3])
    /\ UNCHANGED port

PathStatement ==
    /\ Looks("path")
    /\ HasForm(3)
    /\ Tokens[2] \notin Names
    /\ path_names' = Append(path_names, Tokens[2])
    /\ CreateByName(Tokens[3]) /\ ~InitFails(Tokens[3])
    /\ Register(Tokens[2], Tokens[3])
    /\ UNCHANGED port

PathFails ==
    /\ Looks("path")
    /\ IF HasForm(3) /\ Tokens[2] \notin Names /\ CreateByName(Tokens[3])
       THEN InitFails(Tokens[3]) /\ End("undefined")
       ELSE End("false")

\* The result of CreateByName is not looked at: of an unknown handler it is a
\* null pointer, and the call of Init ends the process.
DefaultStatement ==
    /\ Looks("default")
    /\ HasForm(2)
    /\ CreateByName(Tokens[2]) /\ ~InitFails(Tokens[2])
    /\ Register("default", Tokens[2])
    /\ UNCHANGED <<port, path_names>>

DefaultFails ==
    /\ Looks("default")
    /\ IF HasForm(2)
       THEN (~CreateByName(Tokens[2]) \/ InitFails(Tokens[2])) /\ End("undefined")
       ELSE End("false")

\* The message prints tokens_[1], unchecked.
UnknownStatement ==
    /\ \E key \in {config[n].tokens[1] : n \in 1 .. Len(config)} \
                     {"port", "path", "default"} : Looks(key)
    /\ \/ End("false")
       \/ Len(Tokens) = 1 /\ End("undefined")

AllRead ==
    /\ result = "reading"
    /\ i > Len(config)
    /\ result' = "true"
    /\ UNCHANGED <<config, i, info, endpoint>>

\* The constructor.  tcp::endpoint takes a port modulo 2^16; the acceptor
\* throws when the port is not to be had.
Listen ==
    /\ result = "true"
    /\ \/ result' = "listening" /\ endpoint' = port % PortWrap
       \/ result' = "thrown" /\ UNCHANGED endpoint
    /\ UNCHANGED <<config, i, info>>

\* main returns 1 without a server, and runs the one that listens.
Made == result \notin {"reading", "true"} /\ UNCHANGED configVars

ConfigNext ==
    \/ PortStatement \/ PortFails \/ PathStatement \/ PathFails
    \/ DefaultStatement \/ DefaultFails \/ UnknownStatement \/ AllRead \/ Listen

ConfigSpec == ConfigInit /\ [][ConfigNext \/ Made]_configVars
-----------------------------------------------------------------------------
Keys == DOMAIN uri_prefix_to_handler

ConfigTypeOK ==
    /\ config \in Configs
    /\ i \in 1 .. Len(config) + 1
    /\ port \in Int
    /\ path_names \in Seq(STRING)
    /\ uri_prefix_to_handler \in [Keys -> Builders]
    /\ handler_name_to_prefixes \in [Builders -> Seq(STRING)]
    /\ result \in {"reading", "false", "undefined", "thrown", "true", "listening"}
    /\ endpoint \in {NotListening} \cup (0 .. PortWrap - 1)

\* The statement of a config that registers a key, the last one if there are
\* several.
Registers(n, p) ==
    \/ config[n].tokens[1] = "path" /\ config[n].tokens[2] = p
    \/ config[n].tokens[1] = "default" /\ p = "default"

HandlerOf(n) == config[n].tokens[Len(config[n].tokens)]

\* When the server listens, each key has the handler of the last statement that
\* names it, and of two statements that name one key at least one is
\* "default": a second handler for a path is never taken silently.
HandlersAsConfigured ==
    /\ ConfigTypeOK
    /\ result \in {"true", "listening"} =>
        \A n \in 1 .. Len(config) : \A p \in {"default", config[n].tokens[2]} :
            Registers(n, p) =>
                /\ p \in Keys
                /\ (\A m \in n + 1 .. Len(config) : ~Registers(m, p)) =>
                     uri_prefix_to_handler[p] = HandlerOf(n)
                /\ \A m \in 1 .. n - 1 :
                     Registers(m, p) => "default" \in {config[m].tokens[1], config[n].tokens[1]}

\* The two maps are filled side by side: every key of the handler map is listed
\* under the name of its handler for the status page, and no key of a path is
\* listed under any other.
ListedUnderItsHandler ==
    \A h \in Builders :
        LET listed == {handler_name_to_prefixes[h][n] : n \in 1 .. Len(handler_name_to_prefixes[h])}
        IN /\ {p \in Keys : uri_prefix_to_handler[p] = h} \subseteq listed
           /\ \A p \in listed \ {"default"} : uri_prefix_to_handler[p] = h

\* A config that gives ports, and none but numbers that are ports, gives one,
\* and that is the port the acceptor listens on, wherever the statement stands
\* among the others.  (Without a port, or with -1 and another, a server is made
\* too, though README.md:19-21 says that there must be a port and server.cc:108
\* that a second is an error.)
IsPort(n) == config[n].tokens[1] = "port"

ListensOnItsPort ==
    LET ports == {n \in 1 .. Len(config) : IsPort(n)}
    IN /\ result = "listening"
       /\ ports # {}
       /\ \A n \in ports : Stoi[config[n].tokens[2]] \in 0 .. PortWrap - 1
       => \E n \in ports : ports = {n} /\ endpoint = Stoi[config[n].tokens[2]]
=============================================================================
