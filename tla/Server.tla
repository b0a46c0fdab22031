------------------------------- MODULE Server -------------------------------
(***************************************************************************)
(* The running server: the pool of threads in io_service::run (server.cc), *)
(* the acceptor, the connections with their chain of completion handlers   *)
(* (connection.cc), the handlers (Handlers.tla) and the statistics they    *)
(* share (ServerStatus.tla, composed here with the threads that really     *)
(* call it).                                                               *)
(*                                                                         *)
(* An asynchronous operation of a connection is pending while completion   *)
(* is "none" or "more"; when it has completed, its handler waits until an  *)
(* idle thread runs it.  What a thread does between two points where       *)
(* another can notice is one action.                                       *)
(*                                                                         *)
(* Bounds: a connection of Conns is used once, and clients connect only    *)
(* while there is another for the accept that follows.                     *)
(***************************************************************************)
EXTENDS Handlers, FiniteSets

CONSTANTS
    Threads,    \* the threads of Server::run
    Conns,      \* the connections
    Requests,   \* the requests clients send: uri and values of Referer headers
    NoConn,
    Wrap        \* the number of values of an unsigned

ASSUME ServerAssumption ==
    /\ NoConn \notin Conns
    /\ IsFiniteSet(Threads) /\ IsFiniteSet(Conns)
    /\ Wrap \in Nat \ {0, 1}
    /\ \A r \in Requests : /\ r.uri \in Uri
                            /\ r.referers \in Seq((Uri \ {NoUri}) \cup {NoPath})

VARIABLES
    process,    \* "running", "exited", or "terminated" by an exception
    phase,      \* what each connection is doing
    completion, \* the completion of its pending operation, if any
    at,         \* where each thread is
    job,        \* the connection each thread works for
    sent,       \* history: the request each client sent
    request,    \* the request read from each connection
    answer,     \* the Response that each connection was given
    delivered   \* the pieces of the response given to the socket

VARIABLES nodes, count, num_requests, step, key, reg, page, crashed, finished,
          tallied, overlapped

netVars == <<process, phase, completion, at, job, sent, request, answer, delivered>>
statusVars == <<nodes, count, num_requests, step, key, reg, page, crashed,
                finished, tallied, overlapped>>
serverVars == <<netVars, statusVars>>
-----------------------------------------------------------------------------
(* What one async_read_some finds of a request: the connection reads once,   *)
(* so whatever has not arrived by then (or lies beyond the 1024 bytes of     *)
(* buffer_) is not part of the request.  Request::Parse keeps what it has    *)
(* parsed and handle_read does not look at parsed_status.                    *)

Upto(s, n) == SubSeq(s, 1, n)

\* A uri that ends early: at a slash, or inside a segment.
Cuts(u) == {Upto(u, n) : n \in 0 .. Len(u)}
             \cup UNION {{Append(Upto(u, n), ""), Append(Upto(u, n), Part)} :
                            n \in 0 .. Len(u) - 1}

\* A Referer that ends early: before its path, or inside it.
CutReferers(refs) ==
    {Upto(refs, n) : n \in 0 .. Len(refs)} \cup
    UNION {{Append(Upto(refs, n), x) :
              x \in {NoPath} \cup IF refs[n + 1] = NoPath THEN {}
                                  ELSE Cuts(refs[n + 1]) \ {NoUri}} :
              n \in 0 .. Len(refs) - 1}

Reads(r) ==
    {r} \cup IF "split" \in Faults
             THEN [uri : Cuts(r.uri), referers : {<< >>}]
                    \cup [uri : {r.uri}, referers : CutReferers(r.referers)]
             ELSE {}

Received == UNION {Reads(r) : r \in Requests}

Status == INSTANCE ServerStatus WITH Uris <- {q.uri : q \in Received},
                                     MaxCalls <- Cardinality(Conns)

\* The HTTP responses among the answers: an empty status line makes none.
Replied == [c \in Conns |-> IF answer[c].status = 0 THEN NoReply ELSE answer[c]]

Service == INSTANCE HttpService WITH
             up <- process = "running" /\ ~crashed,
             asked <- request,
             reply <- Replied
-----------------------------------------------------------------------------
Phases == {"unused", "accepting", "failed", "reading", "handling", "writing", "done"}

At == {"idle", "accept", "handle", "hang", "page", "write", "updating", "exited"}

In(p) == {c \in Conns : phase[c] = p}

Up == process = "running" /\ ~crashed

\* The constructor of Server has started the first accept.
ServerInit ==
    /\ process = "running"
    /\ \E c \in Conns : phase = [d \in Conns |-> IF d = c THEN "accepting" ELSE "unused"]
    /\ completion = [c \in Conns |-> "none"]
    /\ at = [t \in Threads |-> "idle"]
    /\ job = [t \in Threads |-> NoConn]
    /\ sent = [c \in Conns |-> NoRequest]
    /\ request = [c \in Conns |-> NoRequest]
    /\ answer = [c \in Conns |-> NoReply]
    /\ delivered = [c \in Conns |-> << >>]
    /\ Status!StatusInit

Complete(c, how) == completion' = [completion EXCEPT ![c] = how]
Become(c, p) == phase' = [phase EXCEPT ![c] = p]
GoTo(t, a) == at' = [at EXCEPT ![t] = a]
-----------------------------------------------------------------------------
(* The clients and the network *)

ClientConnects(c) ==
    /\ phase[c] = "accepting" /\ completion[c] = "none"
    /\ In("unused") # {}                                \* bound
    /\ Complete(c, "ok")
    /\ UNCHANGED <<process, phase, at, job, sent, request, answer, delivered, statusVars>>

\* No descriptor is left, for instance.
AcceptFails(c) ==
    /\ "accept" \in Faults
    /\ phase[c] = "accepting" /\ completion[c] = "none"
    /\ Complete(c, "error")
    /\ UNCHANGED <<process, phase, at, job, sent, request, answer, delivered, statusVars>>

RequestArrives(c) ==
    /\ phase[c] = "reading" /\ completion[c] = "none"
    /\ \E r \in Requests : \E q \in Reads(r) :
         /\ sent' = [sent EXCEPT ![c] = r]
         /\ request' = [request EXCEPT ![c] = q]
    /\ Complete(c, "ok")
    /\ UNCHANGED <<process, phase, at, job, answer, delivered, statusVars>>

ClientGone(c) ==
    /\ "client" \in Faults
    /\ \/ phase[c] = "reading" /\ completion[c] = "none"
       \/ phase[c] = "writing" /\ completion[c] = "more"
    /\ Complete(c, "error")
    /\ UNCHANGED <<process, phase, at, job, sent, request, answer, delivered, statusVars>>
-----------------------------------------------------------------------------
(* Server::handle_accept and start_accept *)

\* new_connection->start(): the read is pending before the next accept is.
HandleAccept(t, c) ==
    /\ at[t] = "idle"
    /\ phase[c] = "accepting" /\ completion[c] = "ok"
    /\ Become(c, "reading")
    /\ Complete(c, "none")
    /\ GoTo(t, "accept")
    /\ UNCHANGED <<process, job, sent, request, answer, delivered, statusVars>>

\* Wrong: accepts again.
StartAcceptTwice(t) ==
    /\ at[t] = "accept"
    /\ \E c \in In("unused") : Become(c, "accepting")
    /\ UNCHANGED <<process, completion, at, job, sent, request, answer, delivered, statusVars>>

StartAccept(t) ==
    /\ at[t] = "accept"
    /\ \E c \in In("unused") : Become(c, "accepting")
    /\ GoTo(t, "idle")
    /\ UNCHANGED <<process, completion, job, sent, request, answer, delivered, statusVars>>

\* The early return of handle_accept: nothing starts another accept.
HandleAcceptError(t, c) ==
    /\ at[t] = "idle"
    /\ phase[c] = "accepting" /\ completion[c] = "error"
    /\ Become(c, "failed")
    /\ Complete(c, "none")
    /\ UNCHANGED <<process, at, job, sent, request, answer, delivered, statusVars>>
-----------------------------------------------------------------------------
(* Connection::handle_read *)

HandleReadError(t, c) ==
    /\ at[t] = "idle"
    /\ phase[c] = "reading" /\ completion[c] = "error"
    /\ Become(c, "done")
    /\ Complete(c, "none")
    /\ UNCHANGED <<process, at, job, sent, request, answer, delivered, statusVars>>

RouteOf(c) == Route(request[c].uri, request[c].referers)

\* Wrong: the next read is started before the request is answered.
HandleReadAgain(t, c) ==
    /\ at[t] = "idle"
    /\ phase[c] = "reading" /\ completion[c] = "ok"
    /\ RouteOf(c) # Throws
    /\ Complete(c, "none")
    /\ GoTo(t, "handle")
    /\ job' = [job EXCEPT ![t] = c]
    /\ UNCHANGED <<process, phase, sent, request, answer, delivered, statusVars>>

\* Parse, and choose the handler.
HandleRead(t, c) ==
    /\ at[t] = "idle"
    /\ phase[c] = "reading" /\ completion[c] = "ok"
    /\ RouteOf(c) # Throws
    /\ Become(c, "handling")
    /\ Complete(c, "none")
    /\ GoTo(t, "handle")
    /\ job' = [job EXCEPT ![t] = c]
    /\ UNCHANGED <<process, sent, request, answer, delivered, statusVars>>

\* Nothing catches what a completion handler throws: std::terminate.
Terminate ==
    /\ process' = "terminated"
    /\ UNCHANGED <<phase, completion, at, job, sent, request, answer, delivered, statusVars>>

RouteThrows(t, c) ==
    /\ at[t] = "idle"
    /\ phase[c] = "reading" /\ completion[c] = "ok"
    /\ RouteOf(c) = Throws
    /\ Terminate

HandlerName(t) == HandlerAt[RouteOf(job[t])]

\* Wrong: always the default handler.
RespondByDefault(t) ==
    /\ at[t] = "handle"
    /\ HandlerName(t) # "StatusHandler"
    /\ \E r \in HandleRequest(Default, request[job[t]].uri) :
         answer' = [answer EXCEPT ![job[t]] = r]
    /\ GoTo(t, "write")
    /\ UNCHANGED <<process, phase, completion, job, sent, request, delivered, statusVars>>

\* HandleRequest returns; handle_read does not look at what it returns.
Respond(t) ==
    /\ at[t] = "handle"
    /\ HandlerName(t) # "StatusHandler"
    /\ \E r \in HandleRequest(RouteOf(job[t]), request[job[t]].uri) :
         answer' = [answer EXCEPT ![job[t]] = r]
    /\ GoTo(t, "write")
    /\ UNCHANGED <<process, phase, completion, job, sent, request, delivered, statusVars>>

HandlerThrows(t) ==
    /\ at[t] = "handle"
    /\ MayThrow(RouteOf(job[t]), request[job[t]].uri)
    /\ Terminate

\* HoldingHandler never returns.
Hang(t) ==
    /\ at[t] = "handle"
    /\ HandlerName(t) = "HoldingHandler"
    /\ GoTo(t, "hang")
    /\ UNCHANGED <<process, phase, completion, job, sent, request, answer, delivered, statusVars>>

\* StatusHandler makes its page from the shared statistics.
StartPage(t) ==
    /\ at[t] = "handle"
    /\ HandlerName(t) = "StatusHandler"
    /\ GoTo(t, "page")
    /\ Status!BeginPage(t)
    /\ UNCHANGED <<process, phase, completion, job, sent, request, answer, delivered>>

PageReads(t) ==
    /\ at[t] = "page"
    /\ \E k \in Status!Keys : Status!ReadEntry(t, k)
    /\ UNCHANGED netVars

PageDone(t) ==
    /\ at[t] = "page"
    /\ Status!EndPage(t)
    /\ \E r \in StatusResponses : answer' = [answer EXCEPT ![job[t]] = r]
    /\ GoTo(t, "write")
    /\ UNCHANGED <<process, phase, completion, job, sent, request, delivered>>

\* Wrong: counts every response as 200.
DoWriteCounts200(t) ==
    /\ at[t] = "write"
    /\ Become(job[t], "writing")
    /\ delivered' = [delivered EXCEPT ![job[t]] = <<"text">>]
    /\ Complete(job[t], "ok")
    /\ Status!Begin(t, <<request[job[t]].uri, 200>>)
    /\ GoTo(t, "updating")
    /\ UNCHANGED <<process, job, sent, request, answer>>

\* async_write sends at once as much as the socket takes, from a buffer that
\* is destroyed when do_write returns; then UpdateStatus begins.
DoWrite(t) ==
    LET c == job[t]
    IN /\ at[t] = "write"
       /\ Become(c, "writing")
       /\ \/ /\ delivered' = [delivered EXCEPT ![c] = <<"text">>]
             /\ Complete(c, IF answer[c].chunks = 1 THEN "ok" ELSE "more")
          \/ /\ "client" \in Faults
             /\ Complete(c, "error")
             /\ delivered' = delivered
       /\ Status!Begin(t, <<request[c].uri, answer[c].code>>)
       /\ GoTo(t, "updating")
       /\ UNCHANGED <<process, job, sent, request, answer>>

Update(t) ==
    /\ at[t] = "updating"
    /\ \/ Status!Lookup(t) \/ Status!Insert(t) \/ Status!Link(t) \/ Status!Assign(t)
       \/ Status!Load(t) \/ Status!Store(t) \/ Status!LoadNum(t)
    /\ UNCHANGED netVars

\* Wrong: returns before the total is counted.
ReadHandledEarly(t) ==
    /\ at[t] = "updating"
    /\ step[t] = "loadnum"
    /\ step' = [step EXCEPT ![t] = "idle"]
    /\ GoTo(t, "idle")
    /\ job' = [job EXCEPT ![t] = NoConn]
    /\ UNCHANGED <<process, phase, completion, sent, request, answer, delivered, nodes,
                   count, num_requests, key, reg, page, crashed, finished,
                   tallied, overlapped>>

\* Wrong: run_one, where the threads call run.
ReadHandledOnce(t) ==
    /\ at[t] = "updating"
    /\ Status!StoreNum(t)
    /\ GoTo(t, "exited")
    /\ job' = [job EXCEPT ![t] = NoConn]
    /\ UNCHANGED <<process, phase, completion, sent, request, answer, delivered>>

\* UpdateStatus and with it handle_read return.
ReadHandled(t) ==
    /\ at[t] = "updating"
    /\ Status!StoreNum(t)
    /\ GoTo(t, "idle")
    /\ job' = [job EXCEPT ![t] = NoConn]
    /\ UNCHANGED <<process, phase, completion, sent, request, answer, delivered>>

TreeRace(t) == Status!TreeRace(t) /\ UNCHANGED netVars
-----------------------------------------------------------------------------
(* The rest of async_write, and Connection::handle_write *)

\* Further pieces are sent from the freed buffer, by whichever thread waits
\* for the socket: still the text, other bytes, or EFAULT.
WriteMore(t, c) ==
    /\ at[t] = "idle"
    /\ phase[c] = "writing" /\ completion[c] = "more"
    /\ \/ /\ \E piece \in {"text", "garbage"} :
               delivered' = [delivered EXCEPT ![c] = Append(@, piece)]
          /\ Complete(c, IF Len(delivered[c]) + 1 < answer[c].chunks THEN "more" ELSE "ok")
       \/ /\ delivered' = delivered
          /\ Complete(c, "error")
    /\ UNCHANGED <<process, phase, at, job, sent, request, answer, statusVars>>

\* The last operation of the connection: it is destroyed, which closes the
\* socket, as soon as no thread is in its handle_read any more.
HandleWrite(t, c) ==
    /\ at[t] = "idle"
    /\ phase[c] = "writing" /\ completion[c] \in {"ok", "error"}
    /\ Become(c, "done")
    /\ Complete(c, "none")
    /\ UNCHANGED <<process, at, job, sent, request, answer, delivered, statusVars>>
-----------------------------------------------------------------------------
(* The end of Server::run *)

\* io_service::run returns when no operation is pending and no handler runs.
\* Wrong: forgets the writes.
NoWorkButWrites ==
    /\ In("accepting") \cup In("reading") = {}
    /\ \A t \in Threads : at[t] \in {"idle", "exited"}

NoWork ==
    /\ In("accepting") \cup In("reading") \cup In("writing") = {}
    /\ \A t \in Threads : at[t] \in {"idle", "exited"}

ThreadExits(t) ==
    /\ at[t] = "idle"
    /\ NoWork
    /\ GoTo(t, "exited")
    /\ UNCHANGED <<process, phase, completion, job, sent, request, answer, delivered, statusVars>>

ProcessExits ==
    /\ \A t \in Threads : at[t] = "exited"
    /\ process' = "exited"
    /\ UNCHANGED <<phase, completion, at, job, sent, request, answer, delivered, statusVars>>
-----------------------------------------------------------------------------
Environment ==
    \E c \in Conns : ClientConnects(c) \/ AcceptFails(c) \/ RequestArrives(c) \/ ClientGone(c)

\* A thread takes a handler that waits.
Dispatch(t, c) ==
    \/ HandleAccept(t, c) \/ HandleAcceptError(t, c) \/ HandleReadError(t, c)
    \/ HandleRead(t, c) \/ RouteThrows(t, c) \/ HandleWrite(t, c)

\* A thread goes on with the handler it is in.
Proceed(t) ==
    \/ StartAccept(t) \/ Respond(t) \/ Hang(t) \/ StartPage(t) \/ PageReads(t)
    \/ PageDone(t) \/ DoWrite(t) \/ Update(t) \/ ReadHandled(t)

ServerNext ==
    /\ Up
    /\ \/ Environment
       \/ \E t \in Threads, c \in Conns : Dispatch(t, c) \/ WriteMore(t, c)
       \/ \E t \in Threads : Proceed(t) \/ HandlerThrows(t) \/ TreeRace(t) \/ ThreadExits(t)
       \/ ProcessExits

\* A running thread goes on, and io_service runs the handlers of completed
\* operations in the order of their completion, so none is passed over.  The
\* clients and the network owe nothing.
Fairness ==
    /\ \A t \in Threads : WF_serverVars(Up /\ Proceed(t))
    /\ \A c \in Conns : WF_serverVars(Up /\ \E t \in Threads : Dispatch(t, c))

ServerSpec == ServerInit /\ [][ServerNext]_serverVars /\ Fairness
-----------------------------------------------------------------------------
ServerTypeOK ==
    /\ process \in {"running", "exited", "terminated"}
    /\ phase \in [Conns -> Phases]
    /\ completion \in [Conns -> {"none", "ok", "error", "more"}]
    /\ at \in [Threads -> At]
    /\ job \in [Threads -> Conns \cup {NoConn}]
    /\ sent \in [Conns -> Requests \cup {NoRequest}]
    /\ request \in [Conns -> Received \cup {NoRequest}]
    /\ answer \in [Conns -> Responses \cup {NoReply}]
    /\ \A c \in Conns : delivered[c] \in Seq({"text", "garbage"})
    /\ Status!TypeOK

\* handle_accept hands the acceptor on (server.cc:81-90): at any time one
\* accept is pending or one thread is about to start it, never two, until an
\* accept fails; after that there is never another.
OneAccept ==
    LET starting == {t \in Threads : at[t] = "accept"}
    IN /\ \A c, d \in In("accepting") : c = d
       /\ \A t, u \in starting : t = u
       /\ In("accepting") = {} \/ starting = {}
       /\ In("failed") = {} <=> In("accepting") # {} \/ starting # {}

\* The threads leave io_service::run, and the process exits, only after an
\* accept has failed and every connection has had its last completion: no
\* request that was accepted is dropped on the way out.
ExitOnlyAfterDrain ==
    (\E t \in Threads : at[t] = "exited") =>
        /\ In("failed") # {}
        /\ \A c \in Conns : phase[c] \in {"unused", "failed", "done"}

\* A request is in handle_read of exactly one thread until it is answered,
\* and a thread that has not yet returned from handle_read works for a
\* connection whose response it has written itself, though handle_write may
\* have run meanwhile.
OneThreadPerRequest ==
    /\ \A t, u \in Threads : job[t] = job[u] /\ job[t] # NoConn => t = u
    /\ \A c \in In("handling") : \E t \in Threads : job[t] = c
    /\ \A t \in Threads :
         /\ at[t] \in {"handle", "hang", "page", "write"} =>
              job[t] \in In("handling")
         /\ at[t] = "updating" => job[t] \in In("writing") \cup In("done")
         /\ at[t] \in {"idle", "accept", "exited"} => job[t] = NoConn

Written(k) == {c \in Conns : /\ phase[c] \in {"writing", "done"}
                             /\ answer[c] # NoReply
                             /\ <<request[c].uri, answer[c].code>> = k}

\* do_write comes before UpdateStatus (connection.cc:92-95): whatever the
\* threads are doing, every response that went to a socket has been counted
\* once under the uri of its own request and its own code, or one thread is
\* still on its way to do so.
EveryWriteIsCounted ==
    /\ ServerTypeOK
    /\ \A k \in Status!Keys :
         Cardinality(Written(k)) =
             tallied[k] + Cardinality({t \in Status!Updating :
                              key[t] = k /\ step[t] \notin {"loadnum", "storenum"}})

\* The server implements what it promises its clients: every HTTP response
\* that it gives is one that the handler for the request of that connection
\* may give, a 500 if it fails, and there is at most one.  (A handler that
\* fails before it has set a status makes the server write an empty status
\* line, which is no response: see FailureAnswers500.)
ServesItsClients == Service!ServiceSpec

\* The server calls ServerStatus as ServerStatus.tla assumes.
CallsStatus == Status!StatusSpec

PoolExhausted == \A t \in Threads : at[t] = "hang"

\* A request that has been read is answered, whatever other clients do,
\* unless the process goes down, HoldingHandler keeps the request itself, or
\* HoldingHandler keeps every thread.
EveryRequestAnswered ==
    \A c \in Conns :
        phase[c] = "reading" /\ completion[c] = "ok" ~>
            \/ phase[c] \in {"writing", "done"}
            \/ \E t \in Threads : at[t] = "hang" /\ job[t] = c
            \/ PoolExhausted
            \/ ~Up
-----------------------------------------------------------------------------
(* What documents and tests say of the server *)

\* server_integration_test.sh:28 "Checks that the diff produces no output,
\* since the files should be the same": what a client is sent is its response.
DeliveredIntact ==
    \A c \in Conns : \A i \in 1 .. Len(delivered[c]) : delivered[c][i] = "text"

\* request_handler.h:26-29 "If ResponseCode is not OK, the contents of the
\* response object are undefined, and the server will return HTTP code 500":
\* what is written where a handler has failed is a 500.
FailureAnswers500 ==
    \A c \in In("writing") : answer[c].ret = "ERROR" => answer[c].status = 500
=============================================================================
