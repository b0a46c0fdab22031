---------------------------- MODULE ServerProofs ----------------------------
(***************************************************************************)
(* Proofs about Server, for any number of threads and connections, any     *)
(* handler map, requests and faults, and about how it is made:             *)
(* ServerConfig, for configs of any length and handlers.                   *)
(***************************************************************************)
EXTENDS Server, ServerConfig, SequenceTheorems, FiniteSetTheorems, WellFoundedInduction, TLAPS

(***************************************************************************)
(* Routing: Route gives a handler of the map, for every map.               *)
(***************************************************************************)
LEMMA RegisteredAreUris == Registered \subseteq Uri /\ NoUri \notin Registered
BY RoutingAssumption, SeqMonotonic DEF Uri

LEMMA UriLen == ASSUME NEW u \in Uri
                PROVE  Len(u) \in Nat /\ (u # NoUri => Len(u) # 0)
BY LenProperties, EmptySeq DEF Uri, NoUri

LEMMA SmallestNat ==
    ASSUME NEW T \in SUBSET Nat, T # {}
    PROVE  \E m \in T : \A n \in T : m =< n
<1> DEFINE R == OpToRel(<, Nat)
<1>1. IsWellFoundedOn(R, Nat)
  BY NatLessThanWellFounded
<1>2. \A m, n \in Nat : m < n => <<m, n>> \in R
  BY DEF OpToRel
<1> HIDE DEF R
<1>3. PICK m \in T : \A n \in T : ~(<<n, m>> \in R)
  BY <1>1, WFMin
<1>4. ASSUME NEW n \in T PROVE m =< n
  <2>1. m \in Nat /\ n \in Nat /\ ~(n < m)
    BY <1>2, <1>3
  <2> QED
    BY <2>1
<1> QED
  BY <1>4

\* Longest(u) is what its name says, whenever a registered uri covers u.
THEOREM LongestExists ==
    ASSUME NEW u \in Uri, \E p \in Registered : Covers(p, u)
    PROVE  IsLongest(Longest(u), u, Registered)
<1> DEFINE Slack(p) == Len(u) - Depth(p)
           T == {Slack(p) : p \in {q \in Registered : Covers(q, u)}}
<1>1. \A p \in Registered : Covers(p, u) => /\ Depth(p) \in Nat
                                         /\ Slack(p) \in Nat
  <2> SUFFICES ASSUME NEW p \in Registered, Covers(p, u)
               PROVE  Depth(p) \in Nat /\ Slack(p) \in Nat
    OBVIOUS
  <2>1. Len(p) \in Nat /\ Len(u) \in Nat
    BY RegisteredAreUris, UriLen
  <2>2. Depth(p) \in Nat /\ Depth(p) =< Len(u)
    BY <2>1 DEF Covers, StartsWith, Depth
  <2> QED
    BY <2>1, <2>2
<1>2. T \in SUBSET Nat /\ T # {}
  BY <1>1
<1>3. PICK m \in T : \A n \in T : m =< n
  <2> HIDE DEF T
  <2> QED
    BY <1>2, SmallestNat
<1>4. PICK p \in Registered : Covers(p, u) /\ m = Slack(p)
  BY <1>3
<1>5. \A q \in Registered : Covers(q, u) => Depth(q) =< Depth(p)
  <2> SUFFICES ASSUME NEW q \in Registered, Covers(q, u)
               PROVE  Depth(q) =< Depth(p)
    OBVIOUS
  <2>1. Slack(p) =< Slack(q)
    BY <1>3, <1>4
  <2>2. Depth(p) \in Nat /\ Depth(q) \in Nat /\ Len(u) \in Nat
    BY <1>1, <1>4, UriLen
  <2> QED
    BY <2>1, <2>2
<1>6. IsLongest(p, u, Registered)
  BY <1>4, <1>5 DEF IsLongest
<1> QED
  BY <1>6 DEF Longest

\* What Route returns.
LEMMA RouteType ==
    ASSUME NEW uri \in Uri, NEW refs \in Seq(Uri \cup {NoPath}),
           Route(uri, refs) # Throws
    PROVE  \/ Route(uri, refs) \in Registered
           \/ HasDefault /\ Route(uri, refs) = Default
<1>1. Lookup(uri, refs) \in Uri
  <2>1. CASE refs = << >>
    BY <2>1 DEF Lookup
  <2>2. CASE refs # << >>
    <3>1. Len(refs) \in Nat /\ refs \in [1 .. Len(refs) -> Uri \cup {NoPath}]
      BY LenProperties
    <3>2. Len(refs) # 0
      BY <2>2, EmptySeq
    <3>3. Len(refs) \in 1 .. Len(refs)
      BY <3>1, <3>2
    <3>4. refs[Len(refs)] # NoPath
      BY <3>3 DEF Route
    <3> QED
      BY <2>2, <3>1, <3>3, <3>4 DEF Lookup
  <2> QED
    BY <2>1, <2>2
<1>2. Route(uri, refs) = Longest(Lookup(uri, refs))
  BY DEF Route
<1>3. CASE \E p \in Registered : Covers(p, Lookup(uri, refs))
  BY <1>1, <1>2, <1>3, LongestExists DEF IsLongest
<1>4. CASE ~ \E p \in Registered : Covers(p, Lookup(uri, refs))
  BY <1>2, <1>4 DEF Longest
<1> QED
  BY <1>3, <1>4
-----------------------------------------------------------------------------
(***************************************************************************)
(* The pool of threads and the acceptor.  ExitOnlyAfterDrain needs         *)
(* OneAccept (without a failed accept there is always work) and            *)
(* OneThreadPerRequest (a request being handled keeps a thread busy), and  *)
(* that nobody works any more once a thread has left.                      *)
(***************************************************************************)
PoolTypes ==
    /\ phase \in [Conns -> Phases]
    /\ at \in [Threads -> At]
    /\ job \in [Threads -> Conns \cup {NoConn}]

NobodyWorks == (\E t \in Threads : at[t] = "exited") =>
                   \A t \in Threads : at[t] \in {"idle", "exited"}

PoolInv == /\ PoolTypes
           /\ OneAccept
           /\ OneThreadPerRequest
           /\ ExitOnlyAfterDrain
           /\ NobodyWorks

poolVars == <<phase, at, job>>

\* The first accept is pending, and no thread works.
LEMMA PoolInit == ServerInit => PoolInv
<1> SUFFICES ASSUME ServerInit PROVE PoolInv
  OBVIOUS
<1>1. PICK c \in Conns : phase = [d \in Conns |-> IF d = c THEN "accepting" ELSE "unused"]
  BY DEF ServerInit
<1>2. /\ at = [t \in Threads |-> "idle"]
      /\ job = [t \in Threads |-> NoConn]
  BY DEF ServerInit
<1> QED
  BY <1>1, <1>2, ServerAssumption
     DEF PoolInv, PoolTypes, Phases, At, OneAccept, OneThreadPerRequest,
         ExitOnlyAfterDrain, NobodyWorks, In

\* Every action keeps the pool in order.
LEMMA PoolStep == PoolInv /\ [ServerNext]_serverVars => PoolInv'
<1> SUFFICES ASSUME PoolInv, [ServerNext]_serverVars PROVE PoolInv'
  OBVIOUS
<1> USE ServerAssumption
<1> USE DEF PoolInv, PoolTypes, Phases, At, OneAccept, OneThreadPerRequest,
            ExitOnlyAfterDrain, NobodyWorks, In, Become, GoTo
<1>1. CASE UNCHANGED poolVars
  BY <1>1 DEF poolVars
<1>2. ASSUME NEW t \in Threads, NEW c \in Conns, HandleAccept(t, c) PROVE PoolInv'
  BY <1>2 DEF HandleAccept
<1>3. ASSUME NEW t \in Threads, StartAccept(t) PROVE PoolInv'
  BY <1>3 DEF StartAccept
<1>4. ASSUME NEW t \in Threads, NEW c \in Conns, HandleAcceptError(t, c) PROVE PoolInv'
  BY <1>4 DEF HandleAcceptError
<1>5. ASSUME NEW t \in Threads, NEW c \in Conns, HandleReadError(t, c) PROVE PoolInv'
  BY <1>5 DEF HandleReadError
<1>6. ASSUME NEW t \in Threads, NEW c \in Conns, HandleRead(t, c) PROVE PoolInv'
  BY <1>6 DEF HandleRead
<1>7. ASSUME NEW t \in Threads, Respond(t) \/ PageDone(t) PROVE PoolInv'
  BY <1>7 DEF Respond, PageDone
<1>8. ASSUME NEW t \in Threads, Hang(t) \/ StartPage(t) PROVE PoolInv'
  BY <1>8 DEF Hang, StartPage
<1>9. ASSUME NEW t \in Threads, DoWrite(t) PROVE PoolInv'
  BY <1>9 DEF DoWrite
<1>10. ASSUME NEW t \in Threads, ReadHandled(t) PROVE PoolInv'
  BY <1>10 DEF ReadHandled
<1>11. ASSUME NEW t \in Threads, NEW c \in Conns, HandleWrite(t, c) PROVE PoolInv'
  BY <1>11 DEF HandleWrite
<1>12. ASSUME NEW t \in Threads, ThreadExits(t) PROVE PoolInv'
  BY <1>12 DEF ThreadExits, NoWork
<1>13. CASE UNCHANGED serverVars \/ Environment \/ ProcessExits
  BY <1>1, <1>13 DEF serverVars, netVars, poolVars, Environment, ClientConnects,
     AcceptFails, RequestArrives, ClientGone, ProcessExits
<1>14. ASSUME NEW t \in Threads,
              \/ PageReads(t) \/ Update(t) \/ HandlerThrows(t) \/ TreeRace(t)
              \/ \E c \in Conns : RouteThrows(t, c) \/ WriteMore(t, c)
       PROVE  PoolInv'
  <2>1. UNCHANGED poolVars
    BY <1>14 DEF PageReads, Update, HandlerThrows, TreeRace, RouteThrows, WriteMore,
       Terminate, poolVars, netVars
  <2> QED
    BY <1>1, <2>1
<1> QED
  BY <1>2, <1>3, <1>4, <1>5, <1>6, <1>7, <1>8, <1>9, <1>10, <1>11, <1>12, <1>13,
     <1>14 DEF ServerNext, Dispatch, Proceed

\* The acceptor is handed on and never doubled (Server::handle_accept).
THEOREM AcceptorHandedOn == ServerSpec => []OneAccept
<1>1. PoolInv => OneAccept
  BY DEF PoolInv
<1> QED
  BY <1>1, PoolInit, PoolStep, PTL DEF ServerSpec

\* Server::run returns only when every accepted connection is finished.
THEOREM RunDrains == ServerSpec => []ExitOnlyAfterDrain
<1>1. PoolInv => ExitOnlyAfterDrain
  BY DEF PoolInv
<1> QED
  BY <1>1, PoolInit, PoolStep, PTL DEF ServerSpec

\* No two threads are ever in handle_read of one connection.
THEOREM OneThreadEach == ServerSpec => []OneThreadPerRequest
<1>1. PoolInv => OneThreadPerRequest
  BY DEF PoolInv
<1> QED
  BY <1>1, PoolInit, PoolStep, PTL DEF ServerSpec
-----------------------------------------------------------------------------
(***************************************************************************)
(* What is read from a connection, and what is sent back.                  *)
(***************************************************************************)
\* The beginning of a sequence.
LEMMA UptoTyped ==
    ASSUME NEW S, NEW s \in Seq(S), NEW n \in 0 .. Len(s)
    PROVE  SubSeq(s, 1, n) \in Seq(S)
OBVIOUS

\* The same with one more element behind it.
LEMMA UptoAppendTyped ==
    ASSUME NEW S, NEW s \in Seq(S), NEW n \in 0 .. Len(s), NEW x \in S
    PROVE  Append(SubSeq(s, 1, n), x) \in Seq(S)
BY UptoTyped, AppendProperties

\* A position before the end.
LEMMA Below == ASSUME NEW k \in Nat, NEW n \in 0 .. k - 1
               PROVE  n \in 0 .. k /\ n + 1 \in 1 .. k
OBVIOUS

\* A uri cut short is a uri.
LEMMA CutsTyped == ASSUME NEW u \in Uri PROVE Cuts(u) \subseteq Uri
<1> SUFFICES ASSUME NEW v \in Cuts(u) PROVE v \in Uri
  OBVIOUS
<1> DEFINE S == Segments \cup {"", Part}
<1>0. Len(u) \in Nat /\ u \in Seq(S)
  BY UriLen DEF Uri
<1>1. ASSUME NEW n \in 0 .. Len(u), v = Upto(u, n) PROVE v \in Uri
  <2> HIDE DEF S
  <2>1. v \in Seq(S)
    BY <1>0, <1>1, UptoTyped DEF Upto
  <2> QED
    BY <2>1 DEF S, Uri
<1>2. ASSUME NEW n \in 0 .. Len(u) - 1, NEW x \in {"", Part}, v = Append(Upto(u, n), x)
      PROVE  v \in Uri
  <2>1. x \in S /\ n \in 0 .. Len(u)
    BY <1>0, Below
  <2> HIDE DEF S
  <2>2. v \in Seq(S)
    BY <1>0, <1>2, <2>1, UptoAppendTyped DEF Upto
  <2> QED
    BY <2>2 DEF S, Uri
<1> HIDE DEF S
<1>3. \/ \E n \in 0 .. Len(u) : v = Upto(u, n)
      \/ \E n \in 0 .. Len(u) - 1 :
           v \in {Append(Upto(u, n), ""), Append(Upto(u, n), Part)}
  BY Zenon DEF Cuts
<1> QED
  BY <1>1, <1>2, <1>3, Zenon

\* What the Referer headers of a request can hold.
Referers == Seq(Uri \cup {NoPath})

\* Referers cut short are referers.
LEMMA CutReferersTyped ==
    ASSUME NEW refs \in Referers
    PROVE  CutReferers(refs) \subseteq Referers
<1> SUFFICES ASSUME NEW v \in CutReferers(refs) PROVE v \in Referers
  OBVIOUS
<1> DEFINE S == Uri \cup {NoPath}
           CutPaths(p) == IF p = NoPath THEN {} ELSE Cuts(p) \ {NoUri}
<1>0. Len(refs) \in Nat /\ refs \in Seq(S)
  BY LenProperties DEF Referers
<1>1. ASSUME NEW n \in 0 .. Len(refs), v = Upto(refs, n) PROVE v \in Referers
  <2> HIDE DEF S
  <2>1. v \in Seq(S)
    BY <1>0, <1>1, UptoTyped DEF Upto
  <2> QED
    BY <2>1 DEF S, Referers
<1>2. ASSUME NEW n \in 0 .. Len(refs) - 1, NEW x \in {NoPath} \cup CutPaths(refs[n + 1]),
             v = Append(Upto(refs, n), x)
      PROVE  v \in Referers
  <2>1. n \in 0 .. Len(refs) /\ n + 1 \in 1 .. Len(refs)
    BY <1>0, Below
  <2>2. refs[n + 1] \in S
    <3> HIDE DEF S
    <3> QED
      BY <1>0, <2>1, ElementOfSeq
  <2>3. x \in S
    BY <2>2, CutsTyped
  <2> HIDE DEF S
  <2>4. v \in Seq(S)
    BY <1>0, <1>2, <2>1, <2>3, UptoAppendTyped DEF Upto
  <2> QED
    BY <2>4 DEF S, Referers
<1>3. v \in {Upto(refs, n) : n \in 0 .. Len(refs)} \/
      \E n \in 0 .. Len(refs) - 1 :
         v \in {Append(Upto(refs, n), x) : x \in {NoPath} \cup CutPaths(refs[n + 1])}
  BY Zenon DEF CutReferers
<1> QED
  BY <1>1, <1>2, <1>3, Zenon

\* Routing.tla's assumptions cover every request that is read.
LEMMA ReceivedTyped ==
    ASSUME NEW q \in Received
    PROVE  q.uri \in Uri /\ q.referers \in Referers
<1>1. PICK r \in Requests : q \in Reads(r)
  BY DEF Received
<1>2. r.uri \in Uri /\ r.referers \in Referers
  <2>1. (Uri \ {NoUri}) \cup {NoPath} \subseteq Uri \cup {NoPath}
    OBVIOUS
  <2> QED
    BY <2>1, ServerAssumption, SeqMonotonic DEF Referers
<1>3. << >> \in Referers
  BY DEF Referers
<1>4. \/ q = r
      \/ q \in [uri : Cuts(r.uri), referers : {<< >>}]
      \/ q \in [uri : {r.uri}, referers : CutReferers(r.referers)]
  BY <1>1 DEF Reads
<1> QED
  BY <1>2, <1>3, <1>4, CutsTyped, CutReferersTyped

\* A handler that is found returns a response.
LEMMA ResponsesTyped ==
    ASSUME NEW q \in Received, Route(q.uri, q.referers) # Throws
    PROVE  HandleRequest(Route(q.uri, q.referers), q.uri) \subseteq Responses
<1> DEFINE p == Route(q.uri, q.referers)
<1>1. p \in Registered \cup (IF HasDefault THEN {Default} ELSE {})
  BY ReceivedTyped, RouteType DEF Referers
<1>2. HandlerAt[p] \in HandlerNames
  BY <1>1, HandlersAssumption
<1> HIDE DEF p
<1>3. HandleRequest(p, q.uri) \subseteq Responses
  BY <1>2 DEF HandleRequest, HandlerNames, EchoResponses, NotFoundResponses,
     StaticResponses, S3Responses, ProxyResponses, StatusResponses, Untouched,
     SetStatus, Responses, Codes
<1> QED
  BY <1>3 DEF p

\* A connection without a request, or without a response, shows it.
LEMMA NoRequestNotReceived == NoRequest \notin Received /\ NoReply \notin Responses
<1>1. NoReply \notin Responses
  BY DEF NoReply, Responses, Codes
<1>2. None \notin Uri
  <2> SUFFICES ASSUME None \in Uri PROVE FALSE
    OBVIOUS
  <2> DEFINE S == Segments \cup {"", Part}
  <2>1. None[1] \notin S /\ Len(None) = 1
    BY RoutingAssumption DEF None, Part
  <2>2. None \in Seq(S)
    BY DEF Uri
  <2> HIDE DEF S
  <2> QED
    BY <2>1, <2>2, ElementOfSeq
<1>3. NoRequest.uri = None
  BY DEF NoRequest, None
<1> QED
  BY <1>1, <1>2, <1>3, ReceivedTyped

\* The abstract specification instantiates its own copies of the operators
\* of Routing and Handlers; they are the server's.
LEMMA SameRoute ==
    ASSUME NEW u, NEW refs
    PROVE  /\ Service!Route(u, refs) = Route(u, refs)
           /\ Service!Throws = Throws
BY DEF Service!Route, Route, Service!Lookup, Lookup, Service!Longest, Longest,
   Service!IsLongest, IsLongest, Service!Covers, Covers, Service!StartsWith, StartsWith,
   Service!Depth, Depth, Service!Root, Root, Service!NoUri, NoUri, Service!NoPath, NoPath,
   Service!Default, Default, Service!Throws, Throws

\* So are the responses ...
LEMMA SameResponses ==
    ASSUME NEW p, NEW u
    PROVE  Service!HandleRequest(p, u) = HandleRequest(p, u)
BY DEF Service!HandleRequest, HandleRequest, Service!EchoResponses, EchoResponses,
   Service!NotFoundResponses, NotFoundResponses, Service!StaticResponses, StaticResponses,
   Service!S3Responses, S3Responses, Service!ProxyResponses, ProxyResponses,
   Service!StatusResponses, StatusResponses, Service!Untouched, Untouched, Service!SetStatus,
   SetStatus, Service!Codes, Codes, Service!StrictPrefix, StrictPrefix,
   Service!SegmentBegins, SegmentBegins, Service!Default, Default

\* ... and so is what stands for no request and no response.
LEMMA SameNothing == Service!NoRequest = NoRequest /\ Service!NoReply = NoReply
BY DEF Service!NoRequest, NoRequest, Service!NoReply, NoReply, Service!None, None

\* Handlers fail with a 500, or without a status.
LEMMA FailuresOnly ==
    ASSUME NEW q \in Received, Route(q.uri, q.referers) # Throws,
           NEW r \in HandleRequest(Route(q.uri, q.referers), q.uri)
    PROVE  r.ret = "OK" \/ r.status = 0 \/ r = Service!Failure
<1> DEFINE p == Route(q.uri, q.referers)
<1>1. p \in Registered \cup (IF HasDefault THEN {Default} ELSE {})
  BY ReceivedTyped, RouteType DEF Referers
<1>2. HandlerAt[p] \in HandlerNames
  BY <1>1, HandlersAssumption
<1> HIDE DEF p
<1>3. ASSUME NEW x \in HandleRequest(p, q.uri)
      PROVE  x.ret = "OK" \/ x.status = 0 \/ x = Service!Failure
  BY <1>2, <1>3 DEF HandleRequest, HandlerNames, EchoResponses, NotFoundResponses,
     StaticResponses, S3Responses, ProxyResponses, StatusResponses, Untouched,
     SetStatus, Service!Failure, Service!SetStatus
<1> QED
  BY <1>3 DEF p

\* What is promised for a request that is routed: whatever the handler may
\* give, unless it fails without a status.
LEMMA AsPromised ==
    ASSUME NEW q \in Received, Route(q.uri, q.referers) # Throws,
           NEW r \in HandleRequest(Route(q.uri, q.referers), q.uri), r.status # 0
    PROVE  r \in Service!Promised(q)
<1> DEFINE rs == HandleRequest(Route(q.uri, q.referers), q.uri)
<1>1. Service!Promised(q) = {IF x.ret = "OK" THEN x ELSE Service!Failure : x \in rs}
  BY SameRoute, SameResponses DEF Service!Promised
<1>2. r = IF r.ret = "OK" THEN r ELSE Service!Failure
  BY FailuresOnly
<1> QED
  BY <1>1, <1>2, Zenon

-----------------------------------------------------------------------------
(***************************************************************************)
(* The refinement of HttpService.  That Reply gives what the service       *)
(* promises needs, at every point of handle_read, that the connection has a *)
(* request that was read and no response yet, and that a thread at the page *)
(* serves a request of the status handler.                                 *)
(***************************************************************************)
ServiceTypes ==
    /\ process \in {"running", "exited", "terminated"}
    /\ completion \in [Conns -> {"none", "ok", "error", "more"}]
    /\ sent \in [Conns -> Requests \cup {NoRequest}]
    /\ request \in [Conns -> Received \cup {NoRequest}]
    /\ answer \in [Conns -> Responses \cup {NoReply}]

\* The request and the response that each connection has by its phase.
Unasked(c) == request[c] = NoRequest /\ answer[c] = NoReply
Asked(c) == request[c] \in Received
Answered(c) == Asked(c) /\ answer[c] \in Responses

AskedInTime ==
    \A c \in Conns :
        /\ phase[c] \in {"unused", "accepting", "failed"} => Unasked(c)
        /\ phase[c] = "reading" => answer[c] = NoReply
        /\ phase[c] = "reading" /\ completion[c] # "ok" => Unasked(c)
        /\ phase[c] = "reading" /\ completion[c] = "ok" => Asked(c)
        /\ phase[c] = "handling" => Asked(c) /\ RouteOf(c) # Throws
        /\ phase[c] = "writing" => Answered(c)
        /\ phase[c] = "done" => Unasked(c) \/ Answered(c)

AnsweredInTime ==
    \A t \in Threads :
        /\ at[t] \in {"handle", "hang", "page"} => answer[job[t]] = NoReply
        /\ at[t] = "write" => answer[job[t]] \in Responses
        /\ at[t] = "page" => HandlerName(t) = "StatusHandler"

ServiceInv == ServiceTypes /\ AskedInTime /\ AnsweredInTime

\* Before the first request nothing is asked or answered.
LEMMA ServiceInitInv == ServerInit => ServiceInv
<1> SUFFICES ASSUME ServerInit PROVE ServiceInv
  OBVIOUS
<1>1. PICK c \in Conns : phase = [d \in Conns |-> IF d = c THEN "accepting" ELSE "unused"]
  BY DEF ServerInit
<1> QED
  BY <1>1, SMTT(30) DEF ServerInit, ServiceInv, ServiceTypes, AskedInTime, AnsweredInTime, Unasked

\* Every action keeps the requests, the answers and the phases in step.
LEMMA ServiceStep ==
    PoolInv /\ PoolInv' /\ ServiceInv /\ [ServerNext]_serverVars => ServiceInv'
<1> SUFFICES ASSUME PoolInv, PoolInv', ServiceInv, [ServerNext]_serverVars PROVE ServiceInv'
  OBVIOUS
<1> USE ServerAssumption, NoRequestNotReceived
<1> USE DEF PoolInv, PoolTypes, Phases, At, OneThreadPerRequest, In, Become, GoTo, Complete,
            ServiceInv, ServiceTypes, AskedInTime, AnsweredInTime, Unasked, Asked, Answered,
            RouteOf, HandlerName
<1>1. ASSUME NEW c \in Conns, ClientConnects(c) \/ AcceptFails(c) PROVE ServiceInv'
  BY <1>1 DEF ClientConnects, AcceptFails
<1>2. ASSUME NEW c \in Conns, RequestArrives(c) PROVE ServiceInv'
  <2>1. PICK r \in Requests : \E q \in Reads(r) :
                                /\ sent' = [sent EXCEPT ![c] = r]
                                /\ request' = [request EXCEPT ![c] = q]
    BY <1>2 DEF RequestArrives
  <2>2. PICK q \in Reads(r) : request' = [request EXCEPT ![c] = q]
    BY <2>1
  <2>3. q \in Received
    BY <2>2 DEF Received
  <2> QED
    BY <1>2, <2>1, <2>2, <2>3 DEF RequestArrives
<1>3. ASSUME NEW c \in Conns, ClientGone(c) PROVE ServiceInv'
  BY <1>3 DEF ClientGone
<1>4. ASSUME NEW t \in Threads, NEW c \in Conns, HandleAccept(t, c) PROVE ServiceInv'
  BY <1>4 DEF HandleAccept
<1>5. ASSUME NEW t \in Threads, StartAccept(t) PROVE ServiceInv'
  BY <1>5 DEF StartAccept
<1>6. ASSUME NEW t \in Threads, NEW c \in Conns, HandleAcceptError(t, c) PROVE ServiceInv'
  BY <1>6 DEF HandleAcceptError
<1>7. ASSUME NEW t \in Threads, NEW c \in Conns, HandleReadError(t, c) PROVE ServiceInv'
  BY <1>7 DEF HandleReadError
<1>8. ASSUME NEW t \in Threads, NEW c \in Conns, HandleRead(t, c) PROVE ServiceInv'
  BY <1>8 DEF HandleRead
<1>9. ASSUME NEW t \in Threads, Respond(t) PROVE ServiceInv'
  <2>1. job[t] \in In("handling") /\ request[job[t]] \in Received /\ RouteOf(job[t]) # Throws
    BY <1>9 DEF Respond
  <2>2. PICK r \in HandleRequest(RouteOf(job[t]), request[job[t]].uri) :
          answer' = [answer EXCEPT ![job[t]] = r]
    BY <1>9 DEF Respond
  <2>3. r \in Responses
    BY <2>1, <2>2, ResponsesTyped
  <2> QED
    BY <1>9, <2>1, <2>2, <2>3 DEF Respond
<1>10. ASSUME NEW t \in Threads, PageDone(t) PROVE ServiceInv'
  <2>1. StatusResponses \subseteq Responses
    BY DEF StatusResponses, SetStatus, Responses, Codes
  <2> QED
    BY <1>10, <2>1 DEF PageDone
<1>11. ASSUME NEW t \in Threads, Hang(t) \/ StartPage(t) PROVE ServiceInv'
  BY <1>11 DEF Hang, StartPage
<1>12. ASSUME NEW t \in Threads, DoWrite(t) PROVE ServiceInv'
  BY <1>12 DEF DoWrite
<1>13. ASSUME NEW t \in Threads, ReadHandled(t) PROVE ServiceInv'
  BY <1>13 DEF ReadHandled
<1>14. ASSUME NEW t \in Threads, NEW c \in Conns, HandleWrite(t, c) PROVE ServiceInv'
  BY <1>14 DEF HandleWrite
<1>15. ASSUME NEW t \in Threads, NEW c \in Conns, WriteMore(t, c) PROVE ServiceInv'
  BY <1>15 DEF WriteMore
<1>16. ASSUME NEW t \in Threads, ThreadExits(t) PROVE ServiceInv'
  BY <1>16 DEF ThreadExits
<1>17. CASE UNCHANGED serverVars
  BY <1>17 DEF serverVars, netVars
<1>18. ASSUME NEW t \in Threads,
              \/ PageReads(t) \/ Update(t) \/ HandlerThrows(t) \/ TreeRace(t)
              \/ \E c \in Conns : RouteThrows(t, c)
       PROVE  ServiceInv'
  BY <1>18 DEF PageReads, Update, HandlerThrows, TreeRace, RouteThrows,
     Terminate, netVars
<1>19. CASE ProcessExits
  BY <1>19 DEF ProcessExits
<1> QED
  BY <1>1, <1>2, <1>3, <1>4, <1>5, <1>6, <1>7, <1>8, <1>9, <1>10, <1>11, <1>12, <1>13,
     <1>14, <1>15, <1>16, <1>17, <1>18, <1>19 DEF ServerNext, Environment, Dispatch, Proceed

\* The server starts as the service does.
LEMMA ServesInit == ServerInit => Service!ServiceInit
BY SameNothing DEF ServerInit, Service!ServiceInit, Replied, NoReply, Status!StatusInit

\* Every step of the server is one of the service, or none.
LEMMA ServesStep ==
    PoolInv /\ ServiceInv /\ [ServerNext]_serverVars
        => [Service!ServiceNext]_(Service!serviceVars)
<1> SUFFICES ASSUME PoolInv, ServiceInv, [ServerNext]_serverVars
             PROVE  [Service!ServiceNext]_(Service!serviceVars)
  OBVIOUS
<1> DEFINE up == process = "running" /\ ~crashed
<1> USE NoRequestNotReceived, SameNothing
<1> USE DEF PoolInv, PoolTypes, OneThreadPerRequest, In, Up, ServiceInv, ServiceTypes,
            AskedInTime, AnsweredInTime, Unasked, Asked
<1>1. CASE UNCHANGED <<process, crashed, request, answer>>
  BY <1>1 DEF Service!serviceVars, Replied
<1>r. ASSUME NEW c \in Conns, NEW r \in Responses, Up, Up', UNCHANGED request,
             request[c] \in Received, answer[c] = NoReply,
             answer' = [answer EXCEPT ![c] = r],
             r.status # 0 => r \in Service!Promised(request[c])
      PROVE  [Service!ServiceNext]_(Service!serviceVars)
  <2>1. Replied \in [Conns -> Responses \cup {NoReply}] /\ Replied[c] = NoReply
    BY <1>r DEF Replied
  <2>2. CASE r.status = 0
    <3>1. Replied' = Replied
      BY <1>r, <2>2 DEF Replied, NoReply
    <3> QED
      BY <1>r, <3>1 DEF Service!serviceVars
  <2>3. CASE r.status # 0
    <3>1. Replied' = [Replied EXCEPT ![c] = r]
      BY <1>r, <2>3 DEF Replied
    <3>2. Service!Reply(c)
      BY <1>r, <2>1, <2>3, <3>1 DEF Service!Reply
    <3> QED
      BY <1>r, <3>2 DEF Service!ServiceNext
  <2> QED
    BY <2>2, <2>3
<1>2. ASSUME NEW c \in Conns, RequestArrives(c), Up PROVE Service!ServiceNext
  <2>1. PICK r \in Requests : \E q \in Reads(r) :
                                /\ sent' = [sent EXCEPT ![c] = r]
                                /\ request' = [request EXCEPT ![c] = q]
    BY <1>2 DEF RequestArrives
  <2>2. PICK q \in Reads(r) : request' = [request EXCEPT ![c] = q]
    BY <2>1
  <2>3. q \in Received
    BY <2>2 DEF Received
  <2>4. Service!Ask(c, q)
    BY <1>2, <2>2 DEF RequestArrives, Service!Ask, Replied, statusVars
  <2> QED
    BY <1>2, <2>3, <2>4 DEF Service!ServiceNext
<1>3. ASSUME NEW t \in Threads, Respond(t), Up
      PROVE  [Service!ServiceNext]_(Service!serviceVars)
  <2>1. /\ job[t] \in Conns /\ request[job[t]] \in Received /\ RouteOf(job[t]) # Throws
        /\ answer[job[t]] = NoReply
    BY <1>3 DEF Respond
  <2>2. PICK r \in HandleRequest(RouteOf(job[t]), request[job[t]].uri) :
          answer' = [answer EXCEPT ![job[t]] = r]
    BY <1>3 DEF Respond
  <2>3. r \in Responses
    BY <2>1, ResponsesTyped DEF RouteOf
  <2>4. r.status # 0 => r \in Service!Promised(request[job[t]])
    BY <2>1, AsPromised DEF RouteOf
  <2>5. Up' /\ UNCHANGED request
    BY <1>3 DEF Respond, statusVars
  <2> QED
    BY <1>3, <1>r, <2>1, <2>2, <2>3, <2>4, <2>5
<1>4. ASSUME NEW t \in Threads, PageDone(t), Up
      PROVE  [Service!ServiceNext]_(Service!serviceVars)
  <2>1. job[t] \in Conns /\ request[job[t]] \in Received /\ RouteOf(job[t]) # Throws
    BY <1>4 DEF PageDone
  <2>2. HandleRequest(RouteOf(job[t]), request[job[t]].uri) = StatusResponses
    BY <1>4 DEF PageDone, HandlerName, HandleRequest
  <2>3. PICK r \in StatusResponses : answer' = [answer EXCEPT ![job[t]] = r]
    BY <1>4 DEF PageDone
  <2>4. r \in Responses
    BY <2>1, <2>2, ResponsesTyped DEF RouteOf
  <2>5. r \in Service!Promised(request[job[t]])
    <3>1. r.status # 0
      BY DEF StatusResponses, SetStatus
    <3> QED
      BY <2>1, <2>2, <3>1, AsPromised DEF RouteOf
  <2>6. /\ Up' /\ UNCHANGED request
        /\ answer[job[t]] = NoReply
    BY <1>4 DEF PageDone, Status!EndPage
  <2> QED
    BY <1>4, <1>r, <2>1, <2>3, <2>4, <2>5, <2>6
<1>5. CASE /\ Up
           /\ UNCHANGED <<request, answer>>
           /\ ~Up'
  BY <1>5 DEF Service!ServiceNext, Service!GoDown, Replied
<1>6. ASSUME NEW t \in Threads, NEW c \in Conns,
             Dispatch(t, c) \/ WriteMore(t, c)
      PROVE  UNCHANGED <<request, answer>> /\ crashed' = crashed /\
             (process' = process \/ process' = "terminated")
  BY <1>6 DEF Dispatch, HandleAccept, HandleAcceptError, HandleReadError, HandleRead,
     RouteThrows, Terminate, HandleWrite, WriteMore, statusVars
<1>7. ASSUME NEW t \in Threads,
             \/ StartAccept(t) \/ Hang(t) \/ HandlerThrows(t) \/ ThreadExits(t)
      PROVE  UNCHANGED <<request, answer>> /\ crashed' = crashed /\
             (process' = process \/ process' = "terminated")
  BY <1>7 DEF StartAccept, Hang, HandlerThrows, Terminate, ThreadExits, statusVars
<1>8. ASSUME NEW t \in Threads,
             StartPage(t) \/ PageReads(t) \/ DoWrite(t) \/ ReadHandled(t)
      PROVE  UNCHANGED <<process, crashed, request, answer>>
  BY <1>8 DEF StartPage, Status!BeginPage, PageReads, Status!ReadEntry, DoWrite,
     Status!Begin, ReadHandled, Status!StoreNum, netVars, Status!counters
<1>9. ASSUME NEW t \in Threads, Update(t)
      PROVE  UNCHANGED <<process, crashed, request, answer>>
  BY <1>9 DEF Update, Status!Lookup, Status!Insert, Status!Link, Status!Assign,
     Status!Load, Status!Store, Status!LoadNum, netVars
<1>10. ASSUME NEW t \in Threads, TreeRace(t)
       PROVE  UNCHANGED <<process, request, answer>> /\ crashed' = TRUE
  BY <1>10 DEF TreeRace, Status!TreeRace, netVars
<1>11. ASSUME NEW c \in Conns, ClientConnects(c) \/ AcceptFails(c) \/ ClientGone(c)
       PROVE  UNCHANGED <<process, crashed, request, answer>>
  BY <1>11 DEF ClientConnects, AcceptFails, ClientGone, statusVars
<1>12. CASE Up /\ ProcessExits
  BY <1>5, <1>12 DEF ProcessExits
<1>13. CASE UNCHANGED serverVars
  BY <1>1, <1>13 DEF serverVars, netVars, statusVars
<1> QED
  BY <1>1, <1>2, <1>3, <1>4, <1>5, <1>6, <1>7, <1>8, <1>9, <1>10, <1>11, <1>12, <1>13
     DEF ServerNext, Environment, Proceed

\* Every behaviour of the server is one of HttpService.tla: each client gets
\* at most one response, one its handler may give to what was read from its
\* connection (connection.cc:45-95), whatever the other threads do.
THEOREM ServesClients == ServerSpec => ServesItsClients
<1>1. PoolInv /\ ServiceInv /\ [ServerNext]_serverVars => (PoolInv /\ ServiceInv)'
  BY PoolStep, ServiceStep
<1> QED
  BY <1>1, PoolInit, ServiceInitInv, ServesInit, ServesStep, PTL
     DEF ServerSpec, ServesItsClients, Service!ServiceSpec

-----------------------------------------------------------------------------
(***************************************************************************)
(* The use of ServerStatus.                                                *)
(***************************************************************************)
\* The statistics start as ServerStatus.tla says.
LEMMA CallsInit == ServerInit => Status!StatusInit
BY DEF ServerInit

\* Every step of the server is one of the statistics, or none: in do_write
\* (connection.cc:92-95) the key of the update is made of a request that was
\* read and of the code of a response.
LEMMA CallsStep ==
    PoolInv /\ ServiceInv /\ [ServerNext]_serverVars => [Status!StatusNext]_(Status!statusVars)
<1> SUFFICES ASSUME PoolInv, ServiceInv, [ServerNext]_serverVars
             PROVE  [Status!StatusNext]_(Status!statusVars)
  OBVIOUS
<1>1. CASE UNCHANGED statusVars
  BY <1>1 DEF statusVars, Status!statusVars
<1>2. ASSUME NEW t \in Threads, DoWrite(t) PROVE \E k \in Status!Keys : Status!Begin(t, k)
  <2> DEFINE c == job[t]
             k == <<request[c].uri, answer[c].code>>
  <2>1. at[t] = "write" /\ c \in In("handling")
    BY <1>2 DEF DoWrite, PoolInv, OneThreadPerRequest
  <2>2. request[c] \in Received /\ answer[c] \in Responses
    BY <2>1 DEF ServiceInv, AskedInTime, AnsweredInTime, Asked, In
  <2>3. k \in Status!Keys
    BY <2>2 DEF Status!Keys, Responses, Codes
  <2>4. Status!Begin(t, k)
    BY <1>2 DEF DoWrite
  <2> QED
    BY <2>3, <2>4
<1>3. ASSUME Up, NEW t \in Threads,
             \/ Status!UpdateStep(t) \/ Status!PageStep(t) \/ Status!TreeRace(t)
             \/ \E k \in Status!Keys : Status!Begin(t, k)
      PROVE  Status!StatusNext
  BY <1>3 DEF Status!StatusNext, Up
<1>4. ASSUME NEW t \in Threads, Update(t) PROVE Status!UpdateStep(t)
  BY <1>4 DEF Update, Status!UpdateStep
<1>5. ASSUME NEW t \in Threads, ReadHandled(t) PROVE Status!UpdateStep(t)
  BY <1>5 DEF ReadHandled, Status!UpdateStep
<1>6. ASSUME NEW t \in Threads, StartPage(t) \/ PageReads(t) \/ PageDone(t)
      PROVE  Status!PageStep(t)
  BY <1>6 DEF StartPage, PageReads, PageDone, Status!PageStep
<1>7. ASSUME NEW t \in Threads, TreeRace(t) PROVE Status!TreeRace(t)
  BY <1>7 DEF TreeRace
<1>8. ASSUME NEW t \in Threads, NEW c \in Conns, Dispatch(t, c) \/ WriteMore(t, c)
      PROVE  UNCHANGED statusVars
  BY <1>8 DEF Dispatch, HandleAccept, HandleAcceptError, HandleReadError, HandleRead,
     RouteThrows, Terminate, HandleWrite, WriteMore
<1>9. ASSUME NEW t \in Threads,
             \/ StartAccept(t) \/ Respond(t) \/ Hang(t) \/ HandlerThrows(t) \/ ThreadExits(t)
      PROVE  UNCHANGED statusVars
  BY <1>9 DEF StartAccept, Respond, Hang, HandlerThrows, Terminate, ThreadExits
<1>10. CASE UNCHANGED serverVars \/ Environment \/ ProcessExits
  BY <1>1, <1>10 DEF serverVars, Environment, ClientConnects, AcceptFails, RequestArrives,
     ClientGone, ProcessExits
<1> QED
  BY <1>1, <1>2, <1>3, <1>4, <1>5, <1>6, <1>7, <1>8, <1>9, <1>10 DEF ServerNext, Proceed

ServerInv == PoolInv /\ ServiceInv

\* The two invariants together hold initially ...
LEMMA ServerInvInit == ServerInit => ServerInv
BY PoolInit, ServiceInitInv DEF ServerInv

\* ... and are kept by every action.
LEMMA ServerInvStep == ServerInv /\ [ServerNext]_serverVars => ServerInv'
BY PoolStep, ServiceStep DEF ServerInv

\* The server uses ServerStatus only as its most general client does, so
\* what is proved about that client holds of the statistics in the server.
THEOREM CallsStatusRight == ServerSpec => CallsStatus
<1>1. ServerInv => PoolInv /\ ServiceInv
  BY DEF ServerInv
<1> QED
  BY <1>1, ServerInvInit, ServerInvStep, CallsInit, CallsStep, PTL
     DEF ServerSpec, CallsStatus, Status!StatusSpec

\* The theorems about ServerStatus, for the server's threads and uris.
StatusFacts == INSTANCE ServerStatusProofs
                 WITH Uris <- {q.uri : q \in Received}, MaxCalls <- Cardinality(Conns)

\* The copies of ServerStatus that Server and ServerStatusProofs instantiate
\* are the same.
LEMMA SameTypes == StatusFacts!TypeOK <=> Status!TypeOK
BY DEF StatusFacts!TypeOK, Status!TypeOK, StatusFacts!Updating, Status!Updating,
   StatusFacts!Keys, Status!Keys, StatusFacts!Page, Status!Page, StatusFacts!Count,
   Status!Count, StatusFacts!UpdateSteps, Status!UpdateSteps, StatusFacts!NoKey, Status!NoKey

\* So are their initial states ...
LEMMA SameInit == StatusFacts!StatusInit <=> Status!StatusInit
BY DEF StatusFacts!StatusInit, Status!StatusInit, StatusFacts!Keys, Status!Keys,
   StatusFacts!NoKey, Status!NoKey, StatusFacts!NoPage, Status!NoPage

\* ... what they count ...
LEMMA SameCardinality ==
    ASSUME NEW S
    PROVE  /\ Status!Cardinality(S) = Cardinality(S)
           /\ StatusFacts!Cardinality(S) = Cardinality(S)
BY DEF Status!Cardinality, StatusFacts!Cardinality, Cardinality

\* ... and their steps.
LEMMA SameSteps ==
    [Status!StatusNext]_(Status!statusVars) => [StatusFacts!StatusNext]_(StatusFacts!statusVars)
<1>0. Status!Updating = StatusFacts!Updating
  BY DEF Status!Updating, StatusFacts!Updating, Status!UpdateSteps, StatusFacts!UpdateSteps
<1>1. ASSUME NEW t \in Threads, NEW k \in Status!Keys, Status!Begin(t, k)
      PROVE  StatusFacts!Begin(t, k)
  <2>1. /\ step[t] = "idle"
        /\ finished + StatusFacts!Cardinality(StatusFacts!Updating) < Cardinality(Conns)
        /\ StatusFacts!Goto(t, "lookup")
        /\ key' = [key EXCEPT ![t] = k]
        /\ UNCHANGED <<StatusFacts!counters, reg, page, crashed, finished, tallied>>
    BY <1>0, <1>1, SameCardinality DEF Status!Begin, StatusFacts!Goto, Status!Goto, StatusFacts!counters,
       Status!counters
  <2>2. overlapped' = (overlapped \/ StatusFacts!Updating # {})
    BY <1>0, <1>1, Zenon DEF Status!Begin
  <2> QED
    BY <2>1, <2>2, Zenon DEF StatusFacts!Begin
<1>2. ASSUME NEW t \in Threads, Status!Lookup(t) PROVE StatusFacts!Lookup(t)
  BY <1>2 DEF StatusFacts!Lookup, Status!Lookup, StatusFacts!Goto, Status!Goto,
     StatusFacts!Racing, Status!Racing, StatusFacts!Rebalances, Status!Rebalances,
     StatusFacts!counters, Status!counters, StatusFacts!history, Status!history
<1>3. ASSUME NEW t \in Threads, Status!Insert(t) PROVE StatusFacts!Insert(t)
  BY <1>3 DEF StatusFacts!Insert, Status!Insert, StatusFacts!Goto, Status!Goto,
     StatusFacts!counters, Status!counters, StatusFacts!history, Status!history
<1>4. ASSUME NEW t \in Threads, Status!Link(t) PROVE StatusFacts!Link(t)
  BY <1>4 DEF StatusFacts!Link, Status!Link, StatusFacts!LinkInto, Status!LinkInto,
     StatusFacts!Survivors, Status!Survivors, StatusFacts!Reachable, Status!Reachable,
     StatusFacts!Racing, Status!Racing, StatusFacts!Rebalances, Status!Rebalances,
     StatusFacts!Goto, Status!Goto, StatusFacts!Keys, Status!Keys, StatusFacts!history,
     Status!history
<1>5. ASSUME NEW t \in Threads, Status!Assign(t) PROVE StatusFacts!Assign(t)
  BY <1>5 DEF StatusFacts!Assign, Status!Assign, StatusFacts!Tally, Status!Tally,
     StatusFacts!Goto, Status!Goto
<1>6. ASSUME NEW t \in Threads, Status!Load(t) PROVE StatusFacts!Load(t)
  BY <1>6 DEF StatusFacts!Load, Status!Load, StatusFacts!Goto, Status!Goto,
     StatusFacts!counters, Status!counters, StatusFacts!history, Status!history
<1>7. ASSUME NEW t \in Threads, Status!Store(t) PROVE StatusFacts!Store(t)
  BY <1>7 DEF StatusFacts!Store, Status!Store, StatusFacts!Tally, Status!Tally,
     StatusFacts!Inc, Status!Inc, StatusFacts!Goto, Status!Goto
<1>8. ASSUME NEW t \in Threads, Status!LoadNum(t) PROVE StatusFacts!LoadNum(t)
  BY <1>8 DEF StatusFacts!LoadNum, Status!LoadNum, StatusFacts!Goto, Status!Goto,
     StatusFacts!counters, Status!counters, StatusFacts!history, Status!history
<1>9. ASSUME NEW t \in Threads, Status!StoreNum(t) PROVE StatusFacts!StoreNum(t)
  BY <1>9 DEF StatusFacts!StoreNum, Status!StoreNum, StatusFacts!Inc, Status!Inc,
     StatusFacts!NoKey, Status!NoKey, StatusFacts!Goto, Status!Goto
<1>10. ASSUME NEW t \in Threads, Status!BeginPage(t) PROVE StatusFacts!BeginPage(t)
  BY <1>10 DEF StatusFacts!BeginPage, Status!BeginPage, StatusFacts!Goto, Status!Goto,
     StatusFacts!counters, Status!counters, StatusFacts!history, Status!history
<1>11. ASSUME NEW t \in Threads, NEW k \in Status!Keys, Status!ReadEntry(t, k)
      PROVE  StatusFacts!ReadEntry(t, k)
  BY <1>11 DEF StatusFacts!ReadEntry, Status!ReadEntry, StatusFacts!Visit, Status!Visit,
     StatusFacts!counters, Status!counters, StatusFacts!control, Status!control,
     StatusFacts!history, Status!history
<1>12. ASSUME NEW t \in Threads, Status!EndPage(t) PROVE StatusFacts!EndPage(t)
  BY <1>12 DEF StatusFacts!EndPage, Status!EndPage, StatusFacts!Goto, Status!Goto,
     StatusFacts!counters, Status!counters, StatusFacts!history, Status!history
<1>13. ASSUME NEW t \in Threads, Status!TreeRace(t) PROVE StatusFacts!TreeRace(t)
  BY <1>13 DEF StatusFacts!TreeRace, Status!TreeRace, StatusFacts!Racing, Status!Racing,
     StatusFacts!Rebalances, Status!Rebalances, StatusFacts!counters, Status!counters,
     StatusFacts!control, Status!control, StatusFacts!history, Status!history
<1>14. Status!Keys = StatusFacts!Keys
  BY DEF Status!Keys, StatusFacts!Keys
<1> QED
  BY <1>1, <1>2, <1>3, <1>4, <1>5, <1>6, <1>7, <1>8, <1>9, <1>10, <1>11, <1>12, <1>13, <1>14
     DEF StatusFacts!StatusNext, Status!StatusNext, StatusFacts!statusVars,
         Status!statusVars, StatusFacts!UpdateStep, Status!UpdateStep, StatusFacts!PageStep,
         Status!PageStep

\* Hence the statistics keep their types in the server.
LEMMA StatusTypesInit == ServerInit => Status!TypeOK
BY ServerAssumption, FS_CardinalityType, StatusFacts!InitTypes, SameInit, SameTypes
   DEF ServerInit, StatusFacts!StatusAssumption

\* Their types are kept by every step they take.
LEMMA StatusTypesStep == Status!TypeOK /\ [Status!StatusNext]_(Status!statusVars) => Status!TypeOK'
<1>1. StatusFacts!TypeOK' <=> Status!TypeOK'
  BY SameTypes, PTL
<1> QED
  BY ServerAssumption, FS_CardinalityType, StatusFacts!TypeStep, SameSteps, SameTypes, <1>1
     DEF StatusFacts!StatusAssumption

-----------------------------------------------------------------------------
(***************************************************************************)
(* EveryWriteIsCounted.  Each action moves at most one connection or one   *)
(* update between the sets compared: do_write adds a written response and a *)
(* pending update of its key, Assign and Store count the key and end its   *)
(* being pending, and nothing else changes either side.                    *)
(***************************************************************************)
DeliveredTypes == delivered \in [Conns -> Seq({"text", "garbage"})]

\* The server and the statistics agree on what a thread is doing.
InStep == \A t \in Threads : /\ at[t] = "updating" <=> t \in Status!Updating
                             /\ at[t] = "page" <=> step[t] = "page"

\* The updates that have still to count k.
Pending(k) == {t \in Status!Updating : key[t] = k /\ step[t] \notin {"loadnum", "storenum"}}

\* EveryWriteIsCounted, without the types.
Counted == \A k \in Status!Keys : Cardinality(Written(k)) = tallied[k] + Cardinality(Pending(k))

\* The responses that are being or have been written.
Writes == {c \in Conns : phase[c] \in {"writing", "done"} /\ answer[c] # NoReply}

\* Every write has started one update.
Started == Cardinality(Writes) = finished + Cardinality(Status!Updating)

\* Every action moves a thread in both or in neither.
LEMMA InStepStep ==
    ServerInv /\ Status!TypeOK /\ InStep /\ [ServerNext]_serverVars => InStep'
<1> SUFFICES ASSUME ServerInv, Status!TypeOK, InStep, [ServerNext]_serverVars PROVE InStep'
  OBVIOUS
<1> USE DEF ServerInv, PoolInv, PoolTypes, At, InStep, Status!TypeOK, Status!Updating,
            Status!UpdateSteps, GoTo, Status!Goto
<1>1. CASE UNCHANGED <<at, step>>
  BY <1>1
<1>2. ASSUME NEW t \in Threads, NEW c \in Conns, Dispatch(t, c) \/ WriteMore(t, c) PROVE InStep'
  BY <1>2 DEF Dispatch, HandleAccept, HandleAcceptError, HandleReadError, HandleRead,
     RouteThrows, Terminate, HandleWrite, WriteMore, statusVars
<1>3. ASSUME NEW t \in Threads,
             \/ StartAccept(t) \/ Respond(t) \/ Hang(t) \/ HandlerThrows(t) \/ ThreadExits(t)
      PROVE  InStep'
  BY <1>3 DEF StartAccept, Respond, Hang, HandlerThrows, Terminate, ThreadExits, statusVars
<1>4. ASSUME NEW t \in Threads, StartPage(t) \/ PageReads(t) \/ PageDone(t) PROVE InStep'
  BY <1>4 DEF StartPage, PageReads, PageDone, Status!BeginPage, Status!ReadEntry,
     Status!EndPage, Status!control, netVars
<1>5. ASSUME NEW t \in Threads, DoWrite(t) PROVE InStep'
  BY <1>5 DEF DoWrite, Status!Begin
<1>6. ASSUME NEW t \in Threads, Update(t) PROVE InStep'
  BY <1>6, ZenonT(40) DEF Update, Status!Lookup, Status!Insert, Status!Link, Status!LinkInto,
     Status!Assign, Status!Load, Status!Store, Status!LoadNum, netVars
<1>7. ASSUME NEW t \in Threads, ReadHandled(t) PROVE InStep'
  BY <1>7 DEF ReadHandled, Status!StoreNum
<1>8. ASSUME NEW t \in Threads, TreeRace(t) PROVE InStep'
  BY <1>8 DEF TreeRace, Status!TreeRace, Status!control, netVars
<1>9. CASE UNCHANGED serverVars \/ Environment \/ ProcessExits
  BY <1>1, <1>9 DEF serverVars, netVars, statusVars, Environment, ClientConnects,
     AcceptFails, RequestArrives, ClientGone, ProcessExits
<1> QED
  BY <1>2, <1>3, <1>4, <1>5, <1>6, <1>7, <1>8, <1>9 DEF ServerNext, Proceed

TallyInv == /\ ServerInv
            /\ DeliveredTypes
            /\ Status!TypeOK
            /\ InStep
            /\ Counted
            /\ Started

\* What the threads do that neither writes nor counts.
Unchanging == /\ \A k \in Status!Keys : Written(k)' = Written(k) /\ Pending(k)' = Pending(k)
              /\ Writes' = Writes
              /\ Status!Updating' = Status!Updating
              /\ tallied' = tallied /\ finished' = finished

\* Such steps keep the balance.
LEMMA UnchangingKeeps == Counted /\ Started /\ Unchanging => Counted' /\ Started'
BY DEF Counted, Started, Unchanging, Status!Keys

\* Everything that is counted is finite.
LEMMA PendingFinite ==
    /\ IsFiniteSet(Writes) /\ IsFiniteSet(Status!Updating)
    /\ \A k : IsFiniteSet(Written(k)) /\ IsFiniteSet(Pending(k))
<1>1. /\ Writes \in SUBSET Conns /\ Status!Updating \in SUBSET Threads
      /\ \A k : Written(k) \in SUBSET Conns /\ Pending(k) \in SUBSET Threads
  BY DEF Writes, Status!Updating, Written, Pending
<1> QED
  BY <1>1, ServerAssumption, FS_Subset

\* Steps that leave the statistics alone, and the responses written.
LEMMA NetUnchanging ==
    ASSUME TallyInv, UNCHANGED statusVars,
           \A c \in Conns :
               /\ phase'[c] \in {"writing", "done"} /\ answer'[c] # NoReply
                    <=> phase[c] \in {"writing", "done"} /\ answer[c] # NoReply
               /\ phase[c] \in {"writing", "done"} /\ answer[c] # NoReply =>
                    request'[c] = request[c] /\ answer'[c] = answer[c]
    PROVE  Unchanging
BY DEF statusVars, Unchanging, Written, Pending, Writes, Status!Updating, Status!Keys

\* The steps of the network, the acceptor and the handlers are such.
LEMMA NetSteps ==
    ASSUME TallyInv, ServerInv',
           \/ Environment \/ ProcessExits
           \/ \E t \in Threads, c \in Conns : Dispatch(t, c) \/ WriteMore(t, c)
           \/ \E t \in Threads : \/ StartAccept(t) \/ Respond(t) \/ Hang(t)
                                 \/ HandlerThrows(t) \/ ThreadExits(t)
    PROVE  Unchanging
<1> SUFFICES
      /\ UNCHANGED statusVars
      /\ \A d \in Conns :
           /\ phase'[d] \in {"writing", "done"} /\ answer'[d] # NoReply
                <=> phase[d] \in {"writing", "done"} /\ answer[d] # NoReply
           /\ phase[d] \in {"writing", "done"} /\ answer[d] # NoReply =>
                request'[d] = request[d] /\ answer'[d] = answer[d]
  BY NetUnchanging
<1> USE DEF TallyInv, ServerInv, PoolInv, PoolTypes, ServiceInv, ServiceTypes, AskedInTime,
            Unasked, Become, In, OneThreadPerRequest
<1>1. CASE Environment
  BY <1>1 DEF Environment, ClientConnects, AcceptFails, RequestArrives, ClientGone
<1>2. ASSUME NEW t \in Threads, NEW c \in Conns, Dispatch(t, c) \/ WriteMore(t, c)
      PROVE  /\ UNCHANGED statusVars
             /\ \A d \in Conns :
                  /\ phase'[d] \in {"writing", "done"} /\ answer'[d] # NoReply
                       <=> phase[d] \in {"writing", "done"} /\ answer[d] # NoReply
                  /\ request'[d] = request[d] /\ answer'[d] = answer[d]
  BY <1>2 DEF Dispatch, HandleAccept, HandleAcceptError, HandleReadError, HandleRead,
     RouteThrows, Terminate, HandleWrite, WriteMore
<1>3. ASSUME NEW t \in Threads, StartAccept(t) \/ Hang(t) \/ HandlerThrows(t) \/ ThreadExits(t)
      PROVE  /\ UNCHANGED <<statusVars, request, answer>>
             /\ \A d \in Conns : phase[d] \in {"writing", "done"}
                                   <=> phase'[d] \in {"writing", "done"}
  BY <1>3 DEF StartAccept, Hang, HandlerThrows, Terminate, ThreadExits
<1>4. ASSUME NEW t \in Threads, Respond(t)
      PROVE  /\ UNCHANGED <<statusVars, phase, request>>
             /\ \A d \in Conns : phase[d] \in {"writing", "done"} => answer'[d] = answer[d]
  BY <1>4 DEF Respond
<1>5. CASE ProcessExits
  BY <1>5 DEF ProcessExits
<1> QED
  BY <1>1, <1>2, <1>3, <1>4, <1>5

\* Steps of the statistics that count no key.
LEMMA StatusSteps ==
    ASSUME TallyInv, ServerInv', NEW t \in Threads,
           \/ StartPage(t) \/ PageReads(t) \/ PageDone(t) \/ TreeRace(t)
           \/ Status!Lookup(t) /\ UNCHANGED netVars
           \/ Status!Insert(t) /\ UNCHANGED netVars
           \/ Status!Link(t) /\ UNCHANGED netVars
           \/ Status!Load(t) /\ UNCHANGED netVars
           \/ Status!LoadNum(t) /\ UNCHANGED netVars
    PROVE  Unchanging
<1> USE DEF TallyInv, InStep, Status!TypeOK
<1>1. UNCHANGED <<phase, request, key, tallied, finished>>
  BY DEF StartPage, PageReads, PageDone, TreeRace, netVars, Status!BeginPage,
     Status!ReadEntry, Status!EndPage, Status!TreeRace, Status!Lookup, Status!Insert,
     Status!Link, Status!Load, Status!LoadNum, Status!counters, Status!control,
     Status!history
<1>2. \A c \in Conns : phase[c] \in {"writing", "done"} => answer'[c] = answer[c]
  BY DEF StartPage, PageReads, PageDone, TreeRace, netVars, ServerInv, PoolInv,
     PoolTypes, OneThreadPerRequest, In, ServiceInv, ServiceTypes
<1>3. /\ Status!Updating' = Status!Updating
      /\ \A u \in Status!Updating : step[u] \in {"loadnum", "storenum"}
                                      <=> step'[u] \in {"loadnum", "storenum"}
  <2> USE DEF Status!Updating, Status!UpdateSteps, Status!Goto
  <2>1. CASE StartPage(t) \/ PageReads(t) \/ PageDone(t) \/ TreeRace(t)
    BY <2>1 DEF StartPage, PageReads, PageDone, TreeRace, Status!BeginPage,
       Status!ReadEntry, Status!EndPage, Status!TreeRace, Status!control
  <2>2. CASE Status!Lookup(t) \/ Status!Insert(t) \/ Status!Load(t) \/ Status!LoadNum(t)
    BY <2>2 DEF Status!Lookup, Status!Insert, Status!Load, Status!LoadNum
  <2>3. CASE Status!Link(t)
    BY <2>3 DEF Status!Link, Status!LinkInto
  <2> QED
    BY <2>1, <2>2, <2>3
<1> QED
  BY <1>1, <1>2, <1>3 DEF Unchanging, Written, Writes, Pending

\* The step that counts a key takes one update out of those pending.
LEMMA TallySteps ==
    ASSUME TallyInv, NEW t \in Threads, Status!Assign(t) \/ Status!Store(t), UNCHANGED netVars
    PROVE  Counted' /\ Started'
<1> USE DEF TallyInv, Status!TypeOK, Status!Updating, Status!UpdateSteps
<1>1. key[t] \in Status!Keys /\ tallied' = [tallied EXCEPT ![key[t]] = @ + 1]
  BY DEF Status!Assign, Status!Store, Status!Tally
<1>2. /\ t \in Pending(key[t]) /\ t \in Status!Updating
      /\ UNCHANGED <<key, finished>>
      /\ step' = [step EXCEPT ![t] = "loadnum"]
  BY DEF Pending, Status!Assign, Status!Store, Status!Goto
<1>3. /\ Status!Updating' = Status!Updating
      /\ \A k : Pending(k)' = IF k = key[t] THEN Pending(k) \ {t} ELSE Pending(k)
  BY <1>1, <1>2 DEF Pending
<1>4. /\ Writes' = Writes
      /\ \A k : Written(k)' = Written(k)
  BY DEF netVars, Writes, Written
<1>5. Cardinality(Pending(key[t]) \ {t}) = Cardinality(Pending(key[t])) - 1
  BY <1>2, PendingFinite, FS_RemoveElement
<1>6. \A k : Cardinality(Pending(k)) \in Nat
  BY PendingFinite, FS_CardinalityType
<1>7. Counted'
  <2> SUFFICES ASSUME NEW k \in Status!Keys
               PROVE  Cardinality(Written(k)') = tallied'[k] + Cardinality(Pending(k)')
    BY DEF Counted, Status!Keys
  <2>0. Cardinality(Written(k)) = tallied[k] + Cardinality(Pending(k))
    BY DEF Counted
  <2>1. CASE k = key[t]
    <3>1. tallied'[k] = tallied[k] + 1 /\ tallied[k] \in Nat
      BY <1>1, <2>1
    <3>2. Cardinality(Pending(k)') = Cardinality(Pending(k)) - 1
      BY <1>3, <1>5, <2>1
    <3>3. Cardinality(Pending(k)) \in Nat /\ Written(k)' = Written(k)
      BY <1>4, <1>6
    <3> QED
      BY <2>0, <3>1, <3>2, <3>3
  <2>2. CASE k # key[t]
    BY <1>1, <1>3, <1>4, <2>0, <2>2
  <2> QED
    BY <2>1, <2>2
<1> QED
  BY <1>2, <1>3, <1>4, <1>7 DEF Started

\* The step that ends an update.
LEMMA HandledStep ==
    ASSUME TallyInv, NEW t \in Threads, ReadHandled(t)
    PROVE  Counted' /\ Started'
<1> USE DEF TallyInv, Status!TypeOK, Status!Updating, Status!UpdateSteps
<1>1. /\ step[t] = "storenum"
      /\ step' = [step EXCEPT ![t] = "idle"]
      /\ key' = [key EXCEPT ![t] = Status!NoKey]
      /\ finished' = finished + 1
      /\ UNCHANGED <<phase, request, answer, tallied>>
  BY DEF ReadHandled, Status!StoreNum, Status!Goto
<1>2. Status!Updating' = Status!Updating \ {t} /\ t \in Status!Updating
  BY <1>1
<1>3. \A k : Pending(k)' = Pending(k)
  BY <1>1 DEF Pending
<1>4. Writes' = Writes /\ \A k : Written(k)' = Written(k)
  BY <1>1 DEF Writes, Written
<1>5. Cardinality(Status!Updating \ {t}) = Cardinality(Status!Updating) - 1
  BY <1>2, PendingFinite, FS_RemoveElement
<1>6. Cardinality(Status!Updating) \in Nat
  BY PendingFinite, FS_CardinalityType
<1>7. Counted'
  BY <1>1, <1>3, <1>4 DEF Counted, Status!Keys
<1>8. Cardinality(Writes) = finished + Cardinality(Status!Updating) /\ finished \in Nat
  BY DEF Started
<1>9. Started'
  <2> HIDE DEF Status!Updating
  <2> QED
    BY <1>1, <1>2, <1>4, <1>5, <1>6, <1>8 DEF Started
<1> QED
  BY <1>7, <1>9

\* do_write adds one written response and one pending update of its key.
LEMMA WriteStep ==
    ASSUME TallyInv, NEW t \in Threads, DoWrite(t)
    PROVE  Counted' /\ Started'
<1> DEFINE c == job[t]
           k == <<request[c].uri, answer[c].code>>
<1>1. /\ at[t] = "write" /\ c \in Conns /\ phase[c] = "handling"
      /\ answer[c] \in Responses /\ answer[c] # NoReply
      /\ request[c] \in Received
  BY NoRequestNotReceived DEF DoWrite, TallyInv, ServerInv, PoolInv, OneThreadPerRequest,
     In, ServiceInv, AskedInTime, AnsweredInTime, Asked
<1>2. k \in Status!Keys
  BY <1>1 DEF Status!Keys, Responses, Codes
<1>3. /\ phase' = [phase EXCEPT ![c] = "writing"]
      /\ UNCHANGED <<request, answer>>
      /\ Status!Begin(t, k)
  BY DEF DoWrite, Become
<1>4. /\ step[t] = "idle" /\ step' = [step EXCEPT ![t] = "lookup"]
      /\ key' = [key EXCEPT ![t] = k]
      /\ UNCHANGED <<finished, tallied>>
  BY <1>3 DEF Status!Begin, Status!Goto
<1>5. /\ c \notin Writes /\ Writes' = Writes \cup {c}
      /\ \A l : c \notin Written(l)
      /\ \A l : Written(l)' = IF l = k THEN Written(l) \cup {c} ELSE Written(l)
  BY <1>1, <1>3 DEF TallyInv, ServerInv, PoolInv, PoolTypes, Writes, Written
<1>6. t \notin Status!Updating /\ Status!Updating' = Status!Updating \cup {t}
  BY <1>4 DEF TallyInv, Status!TypeOK, Status!Updating, Status!UpdateSteps
<1>7. \A l : /\ t \notin Pending(l)
             /\ Pending(l)' = IF l = k THEN Pending(l) \cup {t} ELSE Pending(l)
  BY <1>4, <1>6 DEF TallyInv, Status!TypeOK, Pending, Status!Updating, Status!UpdateSteps
<1>8. /\ Cardinality(Writes \cup {c}) = Cardinality(Writes) + 1
      /\ Cardinality(Status!Updating \cup {t}) = Cardinality(Status!Updating) + 1
      /\ Cardinality(Written(k) \cup {c}) = Cardinality(Written(k)) + 1
      /\ Cardinality(Pending(k) \cup {t}) = Cardinality(Pending(k)) + 1
  BY <1>5, <1>6, <1>7, PendingFinite, FS_AddElement
<1>9. Cardinality(Status!Updating) \in Nat /\ \A l : Cardinality(Pending(l)) \in Nat
  BY PendingFinite, FS_CardinalityType
<1>10. finished \in Nat /\ \A l \in Status!Keys : tallied[l] \in Nat
  BY DEF TallyInv, Status!TypeOK
<1>11. Started'
  BY <1>4, <1>5, <1>6, <1>8, <1>9, <1>10 DEF TallyInv, Started
<1>12. Counted'
  <2> SUFFICES ASSUME NEW l \in Status!Keys
               PROVE  Cardinality(Written(l)') = tallied'[l] + Cardinality(Pending(l)')
    BY DEF Counted, Status!Keys
  <2>0. Cardinality(Written(l)) = tallied[l] + Cardinality(Pending(l)) /\ tallied'[l] = tallied[l]
    BY <1>4 DEF TallyInv, Counted
  <2>1. CASE l = k
    <3>1. /\ Cardinality(Written(l)') = Cardinality(Written(l)) + 1
          /\ Cardinality(Pending(l)') = Cardinality(Pending(l)) + 1
      BY <1>5, <1>7, <1>8, <2>1
    <3> QED
      BY <1>9, <1>10, <2>0, <3>1
  <2>2. CASE l # k
    BY <1>5, <1>7, <2>0, <2>2
  <2> QED
    BY <2>1, <2>2
<1> QED
  BY <1>11, <1>12

\* What the socket was given stays a sequence of pieces.
LEMMA DeliveredStep ==
    ASSUME DeliveredTypes, [ServerNext]_serverVars
    PROVE  DeliveredTypes'
<1> USE DEF DeliveredTypes
<1>1. CASE UNCHANGED delivered
  BY <1>1
<1>2. ASSUME NEW t \in Threads, DoWrite(t) PROVE DeliveredTypes'
  <2>1. \/ delivered' = [delivered EXCEPT ![job[t]] = <<"text">>]
        \/ delivered' = delivered
    BY <1>2 DEF DoWrite
  <2>2. <<"text">> \in Seq({"text", "garbage"})
    OBVIOUS
  <2> DEFINE w == <<"text">>
  <2> HIDE DEF w
  <2>3. w \in Seq({"text", "garbage"})
    BY <2>2 DEF w
  <2>4. CASE delivered' = [delivered EXCEPT ![job[t]] = w]
    BY <2>3, <2>4
  <2> QED
    BY <2>1, <2>4 DEF w
<1>3. ASSUME NEW t \in Threads, NEW c \in Conns, WriteMore(t, c) PROVE DeliveredTypes'
  <2> DEFINE S == {"text", "garbage"}
  <2>1. CASE delivered' = delivered
    BY <2>1
  <2>2. ASSUME NEW piece \in S, delivered' = [delivered EXCEPT ![c] = Append(@, piece)]
        PROVE  DeliveredTypes'
    <3> DEFINE w == Append(delivered[c], piece)
    <3> HIDE DEF S
    <3>1. delivered[c] \in Seq(S)
      BY DEF S
    <3>2. w \in Seq(S)
      BY <3>1, AppendProperties
    <3> HIDE DEF w
    <3>3. delivered' = [delivered EXCEPT ![c] = w]
      BY <2>2 DEF w
    <3> QED
      BY <3>2, <3>3 DEF S
  <2> QED
    BY <1>3, <2>1, <2>2 DEF WriteMore
<1>4. ASSUME NEW t \in Threads, NEW c \in Conns, Dispatch(t, c) PROVE UNCHANGED delivered
  BY <1>4 DEF Dispatch, HandleAccept, HandleAcceptError, HandleReadError, HandleRead,
     RouteThrows, Terminate, HandleWrite
<1>5. ASSUME NEW t \in Threads, ~DoWrite(t),
             Proceed(t) \/ HandlerThrows(t) \/ TreeRace(t) \/ ThreadExits(t)
      PROVE  UNCHANGED delivered
  BY <1>5 DEF Proceed, StartAccept, Respond, Hang, StartPage, PageReads, PageDone, Update,
     ReadHandled, HandlerThrows, Terminate, TreeRace, ThreadExits, netVars
<1>6. CASE UNCHANGED serverVars \/ Environment \/ ProcessExits
  BY <1>1, <1>6 DEF serverVars, netVars, Environment, ClientConnects, AcceptFails,
     RequestArrives, ClientGone, ProcessExits
<1> QED
  BY <1>1, <1>2, <1>3, <1>4, <1>5, <1>6 DEF ServerNext

\* Every action keeps writes and updates in balance.
LEMMA CountingStep ==
    ASSUME TallyInv, ServerInv', [ServerNext]_serverVars
    PROVE  Counted' /\ Started'
<1>1. Counted /\ Started
  BY DEF TallyInv
<1>2. CASE UNCHANGED serverVars
  BY <1>1, <1>2 DEF serverVars, netVars, statusVars, Counted, Started, Written, Pending,
     Writes, Status!Updating, Status!Keys
<1>3. ASSUME NEW t \in Threads, Update(t) PROVE Counted' /\ Started'
  BY <1>1, <1>3, StatusSteps, TallySteps, UnchangingKeeps DEF Update
<1>4. ASSUME NEW t \in Threads, DoWrite(t) \/ ReadHandled(t) PROVE Counted' /\ Started'
  BY <1>4, WriteStep, HandledStep
<1>5. ASSUME NEW t \in Threads, StartPage(t) \/ PageReads(t) \/ PageDone(t) \/ TreeRace(t)
      PROVE  Counted' /\ Started'
  BY <1>1, <1>5, StatusSteps, UnchangingKeeps
<1> QED
  BY <1>1, <1>2, <1>3, <1>4, <1>5, NetSteps, UnchangingKeeps DEF ServerNext, Proceed

\* Nothing is written and nothing counted at first.
LEMMA TallyInit == ServerInit => TallyInv
<1> SUFFICES ASSUME ServerInit PROVE TallyInv
  OBVIOUS
<1>1. DeliveredTypes
  BY DEF ServerInit, DeliveredTypes
<1>2. Status!Updating = {} /\ InStep
  BY DEF ServerInit, Status!StatusInit, Status!Updating, Status!UpdateSteps, InStep
<1>3. Writes = {} /\ \A k : Written(k) = {} /\ Pending(k) = {}
  BY <1>2 DEF ServerInit, Writes, Written, Pending
<1>4. finished = 0 /\ \A k \in Status!Keys : tallied[k] = 0
  BY DEF ServerInit, Status!StatusInit
<1>5. Counted /\ Started
  BY <1>2, <1>3, <1>4, FS_EmptySet DEF Counted, Started
<1> QED
  BY <1>1, <1>2, <1>5, ServerInvInit, StatusTypesInit DEF TallyInv

\* Every action keeps the whole invariant.
LEMMA TallyStep == TallyInv /\ [ServerNext]_serverVars => TallyInv'
<1> SUFFICES ASSUME TallyInv, [ServerNext]_serverVars PROVE TallyInv'
  OBVIOUS
<1>1. ServerInv'
  BY ServerInvStep DEF TallyInv
<1>2. Status!TypeOK'
  BY CallsStep, StatusTypesStep DEF TallyInv, ServerInv
<1> QED
  BY <1>1, <1>2, DeliveredStep, InStepStep, CountingStep DEF TallyInv

\* The invariant gives every variable its type.
LEMMA TallyTypes == TallyInv => ServerTypeOK
BY DEF TallyInv, ServerInv, PoolInv, PoolTypes, ServiceInv, ServiceTypes, DeliveredTypes,
   ServerTypeOK

\* Every response that was written has been counted once, under its own uri
\* and code, or is about to be (Connection::do_write, connection.cc:92-95).
THEOREM EveryWriteCounted == ServerSpec => []EveryWriteIsCounted
<1>1. TallyInv => EveryWriteIsCounted
  <2> SUFFICES ASSUME TallyInv PROVE EveryWriteIsCounted
    OBVIOUS
  <2>1. Counted
    BY DEF TallyInv
  <2> QED
    BY <2>1, TallyTypes DEF Counted, Pending, EveryWriteIsCounted
<1> QED
  BY <1>1, TallyInit, TallyStep, PTL DEF ServerSpec

\* The bound on updates (MaxCalls, which Server.tla sets to the number of
\* connections) never keeps a response that is due from being written.
RoomToCount == \A t \in Threads :
    at[t] = "write" => finished + Cardinality(Status!Updating) < Cardinality(Conns)

\* Hence MaxCalls is no restriction on the server.
THEOREM NoWriteBlocked == ServerSpec => []RoomToCount
<1>1. ASSUME TallyInv, NEW t \in Threads, at[t] = "write"
      PROVE  finished + Cardinality(Status!Updating) < Cardinality(Conns)
  <2>1. /\ job[t] \in Conns /\ job[t] \notin Writes /\ Writes \in SUBSET Conns
    BY <1>1 DEF TallyInv, ServerInv, PoolInv, OneThreadPerRequest, In, Writes
  <2>2. Cardinality(Writes) =< Cardinality(Conns) /\ Cardinality(Writes) # Cardinality(Conns)
    BY <2>1, ServerAssumption, FS_Subset
  <2>3. Cardinality(Writes) \in Nat /\ Cardinality(Conns) \in Nat
    BY ServerAssumption, PendingFinite, FS_CardinalityType
  <2>4. Cardinality(Writes) = finished + Cardinality(Status!Updating)
    BY <1>1 DEF TallyInv, Started
  <2>5. Cardinality(Writes) < Cardinality(Conns)
    BY <2>2, <2>3
  <2> QED
    BY <2>4, <2>5
<1>2. TallyInv => RoomToCount
  BY <1>1 DEF RoomToCount
<1> QED
  BY <1>2, TallyInit, TallyStep, PTL DEF ServerSpec
-----------------------------------------------------------------------------
(***************************************************************************)
(* The statistics of the running server.                                   *)
(***************************************************************************)
\* The server's use of the statistics is a behaviour the theorems are about.
LEMMA SameSpec == Status!StatusSpec => StatusFacts!StatusSpec
BY SameInit, SameSteps, PTL DEF Status!StatusSpec, StatusFacts!StatusSpec

\* The statistics' invariants are the same in both copies.
LEMMA SameFacts ==
    /\ StatusFacts!NeverOvercounts <=> Status!NeverOvercounts
    /\ StatusFacts!SerialCountsExact <=> Status!SerialCountsExact
    /\ StatusFacts!PageNeverAhead <=> Status!PageNeverAhead
BY DEF StatusFacts!NeverOvercounts, Status!NeverOvercounts, StatusFacts!SerialCountsExact,
   Status!SerialCountsExact, StatusFacts!PageNeverAhead, Status!PageNeverAhead,
   StatusFacts!Keys, Status!Keys

\* What ServerStatusProofs proves of the most general client.
StatisticsRight == /\ Status!NeverOvercounts
                   /\ Status!SerialCountsExact
                   /\ Status!PageNeverAhead

\* It holds of the statistics as the threads of the server use them.
THEOREM ServerStatistics == ServerSpec => []StatisticsRight
<1>1. StatusFacts!StatusAssumption
  BY ServerAssumption, FS_CardinalityType DEF StatusFacts!StatusAssumption
<1>2. StatusFacts!StatusSpec =>
        [](StatusFacts!NeverOvercounts /\ StatusFacts!SerialCountsExact /\ StatusFacts!PageNeverAhead)
  <2>1. StatusFacts!StatusSpec => []StatusFacts!NeverOvercounts
    BY <1>1, StatusFacts!NoOvercount
  <2>2. StatusFacts!StatusSpec => []StatusFacts!SerialCountsExact
    BY <1>1, StatusFacts!SerialExact
  <2>3. StatusFacts!StatusSpec => []StatusFacts!PageNeverAhead
    BY <1>1, StatusFacts!PagesNeverAhead
  <2> QED
    BY <2>1, <2>2, <2>3, PTL
<1>3. ServerSpec => Status!StatusSpec
  BY CallsStatusRight DEF CallsStatus
<1> QED
  BY <1>2, <1>3, SameSpec, SameFacts, PTL DEF StatisticsRight
-----------------------------------------------------------------------------
(***************************************************************************)
(* The configuration. The statements that have been taken are 1 .. i - 1,  *)
(* as long as none failed, and each has left in the maps what it should.   *)
(***************************************************************************)
Statement == [tokens : Seq(STRING) \ {<< >>}, block : {"none", "ok", "short"}]

\* The statements that have been taken are 1 .. i - 1, as long as none failed.
Taken == 1 .. i - 1
NoneFailed == result \in {"reading", "true", "listening"}

IsPath(n) == config[n].tokens[1] = "path"

\* Every statement that was taken has its form, and the name of its path is on
\* the list.
TakenFit == \A n \in Taken :
    /\ config[n].tokens[1] \in {"port", "path", "default"}
    /\ IsPort(n) => Len(config[n].tokens) > 1 /\ config[n].tokens[2] \in DOMAIN Stoi
    /\ IsPath(n) => Len(config[n].tokens) = 3 /\ config[n].tokens[2] \in Names

AllTaken == result \in {"true", "listening"} => i = Len(config) + 1

\* HandlersAsConfigured, of the statements that were taken.
MapFits == \A n \in Taken : \A p \in STRING : Registers(n, p) =>
    /\ p \in Keys
    /\ (\A m \in n + 1 .. i - 1 : ~Registers(m, p)) => uri_prefix_to_handler[p] = HandlerOf(n)
    /\ \A m \in 1 .. n - 1 :
         Registers(m, p) => "default" \in {config[m].tokens[1], config[n].tokens[1]}

Listed(h) == {handler_name_to_prefixes[h][n] : n \in 1 .. Len(handler_name_to_prefixes[h])}

\* What is listed is the default or the name of a path, and has a handler: so a
\* key that is registered under another name is not on any list.
ListsFit == \A h \in Builders :
    /\ \A p \in Keys : uri_prefix_to_handler[p] = h => p \in Listed(h)
    /\ \A p \in Listed(h) \ {"default"} :
         p \in Keys /\ p \in Names /\ uri_prefix_to_handler[p] = h

\* Of the ports that were taken, the last one counts, and each before it was -1.
PortFits ==
    /\ (\A n \in Taken : ~IsPort(n)) => port = NoPort
    /\ \A n \in Taken : IsPort(n) =>
         IF \E m \in n + 1 .. i - 1 : IsPort(m)
         THEN Stoi[config[n].tokens[2]] = NoPort
         ELSE port = Stoi[config[n].tokens[2]]

ListeningFits == result = "listening" => endpoint = port % PortWrap

ConfigInv ==
    /\ ConfigTypeOK
    /\ AllTaken
    /\ ListsFit
    /\ NoneFailed => TakenFit /\ MapFits /\ PortFits
    /\ ListeningFits

\* What is on a list that one more is put on.
LEMMA AppendedSet ==
    ASSUME NEW s \in Seq(STRING), NEW p \in STRING
    PROVE  {Append(s, p)[n] : n \in 1 .. Len(Append(s, p))} = {s[n] : n \in 1 .. Len(s)} \cup {p}
<1>1. Len(s) \in Nat /\ Len(Append(s, p)) = Len(s) + 1
  OBVIOUS
<1>2. Append(s, p)[Len(s) + 1] = p
  BY AppendProperties, Zenon
<1>3. \A n \in 1 .. Len(s) : Append(s, p)[n] = s[n]
  OBVIOUS
<1>4. 1 .. Len(Append(s, p)) = (1 .. Len(s)) \cup {Len(s) + 1}
  BY <1>1
<1> QED
  BY <1>1, <1>2, <1>3, <1>4

\* A statement has a token, and its tokens are words.
LEMMA StatementFacts ==
    ASSUME ConfigTypeOK
    PROVE  /\ config \in Seq(Statement) /\ Len(config) \in Nat
           /\ \A n \in 1 .. Len(config) :
                /\ config[n] \in Statement
                /\ config[n].tokens \in Seq(STRING) /\ Len(config[n].tokens) \in Nat \ {0}
                /\ \A k \in 1 .. Len(config[n].tokens) : config[n].tokens[k] \in STRING
<1>1. config \in Seq(Statement)
  BY ConfigsAssumption DEF ConfigTypeOK, Statement
<1>2. Len(config) \in Nat /\ \A n \in 1 .. Len(config) : config[n] \in Statement
  BY <1>1
<1>3. ASSUME NEW n \in 1 .. Len(config)
      PROVE  /\ config[n].tokens \in Seq(STRING) /\ Len(config[n].tokens) \in Nat \ {0}
             /\ \A k \in 1 .. Len(config[n].tokens) : config[n].tokens[k] \in STRING
  <2>1. config[n].tokens \in Seq(STRING) /\ config[n].tokens # << >>
    BY <1>2 DEF Statement
  <2>2. \A s \in Seq(STRING) : s # << >> =>
          Len(s) \in Nat \ {0} /\ \A k \in 1 .. Len(s) : s[k] \in STRING
    OBVIOUS
  <2> QED
    BY <2>1, <2>2
<1> QED
  BY <1>1, <1>2, <1>3

LEMMA ConfigInvInit == ConfigInit => ConfigInv
<1> SUFFICES ASSUME ConfigInit PROVE ConfigInv
  OBVIOUS
<1>1. Len(config) \in Nat
  BY ConfigsAssumption DEF ConfigInit
<1>2. Taken = {} /\ Keys = {} /\ \A h \in Builders : Listed(h) = {}
  BY DEF ConfigInit, Taken, Keys, Listed
<1>3. ConfigTypeOK
  BY <1>1, <1>2 DEF ConfigInit, ConfigTypeOK, NoPort, NotListening
<1> QED
  BY <1>1, <1>2, <1>3
     DEF ConfigInv, ConfigInit, AllTaken, ListsFit, TakenFit, MapFits, PortFits, ListeningFits

\* A statement that fails, or the last one read: nothing changes but the result.
LEMMA EndStep ==
    ASSUME ConfigInv, result = "reading", UNCHANGED <<config, i, info, endpoint>>,
           \/ result' \in {"false", "undefined", "thrown"}
           \/ result' = "true" /\ i > Len(config)
    PROVE  ConfigInv'
<1>1. ConfigTypeOK' /\ AllTaken'
  <2>1. Len(config) \in Nat
    BY StatementFacts DEF ConfigInv
  <2> QED
    BY <2>1 DEF ConfigInv, ConfigTypeOK, AllTaken, info, Keys
<1>2. ListsFit'
  BY DEF ConfigInv, ListsFit, info, Keys, Listed, Names
<1>3. TakenFit' /\ MapFits' /\ PortFits' /\ ListeningFits'
  BY DEF ConfigInv, NoneFailed, TakenFit, MapFits, PortFits, ListeningFits, info, Keys, Names,
     Taken, IsPort, IsPath, Registers, HandlerOf
<1> QED
  BY <1>1, <1>2, <1>3 DEF ConfigInv

\* The constructor.
LEMMA ListenStep == ASSUME ConfigInv, Listen PROVE ConfigInv'
<1>1. /\ result = "true" /\ UNCHANGED <<config, i, info>>
      /\ \/ result' = "listening" /\ endpoint' = port % PortWrap
         \/ result' = "thrown" /\ endpoint' = endpoint
  BY DEF Listen
<1>2. port % PortWrap \in 0 .. PortWrap - 1
  BY ConfigsAssumption DEF ConfigInv, ConfigTypeOK
<1>3. ConfigTypeOK' /\ AllTaken'
  BY <1>1, <1>2 DEF ConfigInv, ConfigTypeOK, AllTaken, info, Keys
<1>4. ListsFit' /\ ListeningFits'
  BY <1>1 DEF ConfigInv, ListsFit, ListeningFits, info, Keys, Listed, Names
<1>5. TakenFit' /\ MapFits' /\ PortFits'
  BY <1>1 DEF ConfigInv, NoneFailed, TakenFit, MapFits, PortFits, info, Keys, Names,
     Taken, IsPort, IsPath, Registers, HandlerOf
<1> QED
  BY <1>3, <1>4, <1>5 DEF ConfigInv

\* One more statement was taken.
LEMMA TakenNext ==
    ASSUME ConfigInv, i =< Len(config), i' = i + 1
    PROVE  /\ Taken' = Taken \cup {i} /\ i \in 1 .. Len(config) /\ i \notin Taken
           /\ Taken \subseteq 1 .. Len(config) /\ Taken \subseteq Nat /\ i \in Nat
           /\ \A n \in Taken : n < i
           /\ \A n \in Taken : n + 1 .. i'- 1 = (n + 1 .. i - 1) \cup {i}
           /\ i + 1 .. i' - 1 = {} /\ 1 .. i - 1 = Taken
           /\ \A n \in Taken : 1 .. n - 1 \subseteq Taken
<1>1. i \in 1 .. Len(config) /\ Len(config) \in Nat
  BY StatementFacts DEF ConfigInv, ConfigTypeOK
<1> QED
  BY <1>1 DEF Taken

LEMMA PortStep == ASSUME ConfigInv, PortStatement PROVE ConfigInv'
<1>1. /\ i \in 1 .. Len(config) /\ i' = i + 1 /\ result = "reading" /\ result' = result
      /\ port = NoPort /\ IsPort(i) /\ Len(config[i].tokens) > 1
      /\ config[i].tokens[2] \in DOMAIN Stoi /\ port' = Stoi[config[i].tokens[2]]
      /\ UNCHANGED <<config, endpoint, path_names, uri_prefix_to_handler,
                     handler_name_to_prefixes>>
  BY TakenNext DEF PortStatement, Looks, Continue, Tokens, IsPort
<1>2. /\ Taken' = Taken \cup {i} /\ \A n \in Taken : n < i
      /\ \A n \in Taken : n + 1 .. i'- 1 = (n + 1 .. i - 1) \cup {i}
      /\ i + 1 .. i' - 1 = {}
  BY <1>1, TakenNext
<1>3. ConfigTypeOK'
  <2>1. port' \in Int
    BY <1>1, ConfigsAssumption
  <2>2. i' \in 1 .. Len(config) + 1
    BY <1>1, StatementFacts DEF ConfigInv
  <2> QED
    BY <1>1, <2>1, <2>2 DEF ConfigInv, ConfigTypeOK, Keys
<1>4. AllTaken' /\ ListsFit' /\ ListeningFits'
  <2>1. ListsFit'
    <3>1. Keys' = Keys /\ Names' = Names /\ \A h \in Builders : Listed(h)' = Listed(h)
      BY <1>1 DEF Keys, Names, Listed
    <3> QED
      BY <1>1, <3>1 DEF ConfigInv, ListsFit
  <2> QED
    BY <1>1, <2>1 DEF AllTaken, ListeningFits
<1>5. TakenFit'
  BY <1>1, <1>2 DEF ConfigInv, NoneFailed, TakenFit, IsPort, IsPath, Names
<1>6. \A p \in STRING : ~Registers(i, p)
  BY <1>1 DEF IsPort, Registers
<1>7. MapFits'
  <2>1. ASSUME NEW n \in Taken, NEW p \in STRING, Registers(n, p)
        PROVE  /\ (\A m \in n + 1 .. i' - 1 : ~Registers(m, p)) =>
                    (\A m \in n + 1 .. i - 1 : ~Registers(m, p))
    BY <1>2
  <2>2. ASSUME NEW n \in Taken', NEW p \in STRING, Registers(n, p)
        PROVE  /\ p \in Keys
               /\ (\A m \in n + 1 .. i' - 1 : ~Registers(m, p)) =>
                    uri_prefix_to_handler[p] = HandlerOf(n)
               /\ \A m \in 1 .. n - 1 :
                    Registers(m, p) => "default" \in {config[m].tokens[1], config[n].tokens[1]}
    <3>1. n \in Taken
      BY <1>2, <1>6, <2>2
    <3> QED
      BY <1>1, <2>1, <2>2, <3>1 DEF ConfigInv, NoneFailed, MapFits
  <2> QED
    BY <1>1, <2>2 DEF MapFits, Registers, HandlerOf, Keys
<1>8. PortFits'
  <2>1. ASSUME NEW n \in Taken, IsPort(n)
        PROVE  Stoi[config[n].tokens[2]] = NoPort /\ \E m \in n + 1 .. i' - 1 : IsPort(m)
    <3>1. i \in n + 1 .. i' - 1
      BY <1>2
    <3> QED
      BY <1>1, <2>1, <3>1 DEF ConfigInv, NoneFailed, PortFits
  <2>2. ~ \E m \in i + 1 .. i' - 1 : IsPort(m)
    BY <1>2
  <2> QED
    BY <1>1, <1>2, <2>1, <2>2 DEF PortFits, IsPort
<1> QED
  BY <1>3, <1>4, <1>5, <1>7, <1>8 DEF ConfigInv

\* The statement gives p the handler h: "path" p h, or "default" h.
LEMMA RegisterStep ==
    ASSUME ConfigInv, result = "reading", i =< Len(config),
           NEW p \in STRING, NEW h \in Builders, Register(p, h), HandlerOf(i) = h,
           UNCHANGED <<config, endpoint, port>>,
           \/ /\ IsPath(i) /\ Len(Tokens) = 3 /\ Tokens[2] = p /\ p \notin Names
              /\ path_names' = Append(path_names, p)
           \/ config[i].tokens[1] = "default" /\ p = "default" /\ UNCHANGED path_names
    PROVE  ConfigInv'
<1>1. /\ i' = i + 1 /\ result' = result
      /\ uri_prefix_to_handler' = Put(uri_prefix_to_handler, p, h)
      /\ handler_name_to_prefixes' = [handler_name_to_prefixes EXCEPT ![h] = Append(@, p)]
  BY DEF Register, Continue
<1>2. /\ Taken' = Taken \cup {i} /\ i \notin Taken /\ \A n \in Taken : n < i
      /\ \A n \in Taken : n + 1 .. i'- 1 = (n + 1 .. i - 1) \cup {i}
      /\ i + 1 .. i' - 1 = {} /\ 1 .. i - 1 = Taken /\ i \in 1 .. Len(config)
      /\ \A n \in Taken : 1 .. n - 1 \subseteq Taken
  BY <1>1, TakenNext
<1>3. /\ Keys' = Keys \cup {p} /\ uri_prefix_to_handler'[p] = h
      /\ \A q \in Keys : q # p => uri_prefix_to_handler'[q] = uri_prefix_to_handler[q]
      /\ uri_prefix_to_handler' \in [Keys \cup {p} -> Builders]
  <2>1. uri_prefix_to_handler \in [Keys -> Builders] /\ Keys' = DOMAIN uri_prefix_to_handler'
    BY DEF ConfigInv, ConfigTypeOK, Keys
  <2>2. /\ DOMAIN Put(uri_prefix_to_handler, p, h) = Keys \cup {p}
        /\ Put(uri_prefix_to_handler, p, h)[p] = h
        /\ \A q \in Keys : q # p => Put(uri_prefix_to_handler, p, h)[q] = uri_prefix_to_handler[q]
        /\ Put(uri_prefix_to_handler, p, h) \in [Keys \cup {p} -> Builders]
    BY <2>1 DEF Put
  <2> QED
    BY <1>1, <2>1, <2>2, Zenon
<1>4. /\ handler_name_to_prefixes' \in [Builders -> Seq(STRING)]
      /\ Listed(h)' = Listed(h) \cup {p}
      /\ \A g \in Builders \ {h} : Listed(g)' = Listed(g)
  <2>1. handler_name_to_prefixes \in [Builders -> Seq(STRING)]
    BY DEF ConfigInv, ConfigTypeOK
  <2>2. \A s \in Seq(STRING) : /\ Append(s, p) \in Seq(STRING)
                               /\ {Append(s, p)[n] : n \in 1 .. Len(Append(s, p))} =
                                    {s[n] : n \in 1 .. Len(s)} \cup {p}
    BY AppendedSet
  <2> QED
    BY <1>1, <2>1, <2>2 DEF Listed
<1>5. /\ path_names' \in Seq(STRING) /\ Names \subseteq Names'
      /\ p \in Names' \cup {"default"} /\ (IsPath(i) => p \in Names')
  <2>1. path_names \in Seq(STRING)
    BY DEF ConfigInv, ConfigTypeOK
  <2>2. CASE path_names' = Append(path_names, p)
    <3>1. Names' = Names \cup {p}
      BY <2>1, <2>2, AppendedSet DEF Names
    <3> QED
      BY <2>1, <2>2, <3>1
  <2>3. CASE config[i].tokens[1] = "default" /\ p = "default" /\ UNCHANGED path_names
    BY <2>1, <2>3 DEF Names, IsPath
  <2> QED
    BY <2>2, <2>3
<1>6. ConfigTypeOK'
  BY <1>1, <1>3, <1>4, <1>5, StatementFacts, SMTT(30) DEF ConfigInv, ConfigTypeOK, Keys
<1>7. AllTaken' /\ ListeningFits'
  BY <1>1 DEF AllTaken, ListeningFits
<1>8. ListsFit'
  <2>1. ASSUME NEW g \in Builders, NEW q \in Keys', uri_prefix_to_handler'[q] = g
        PROVE  q \in Listed(g)'
    BY <1>3, <1>4, <2>1 DEF ConfigInv, ListsFit
  <2>2. ASSUME NEW g \in Builders, NEW q \in Listed(g)' \ {"default"}
        PROVE  q \in Keys' /\ q \in Names' /\ uri_prefix_to_handler'[q] = g
    <3>1. CASE q = p
      <4>1. p \notin Names
        BY <2>2, <3>1
      <4>2. p \notin Listed(g)
        BY <2>2, <3>1, <4>1 DEF ConfigInv, ListsFit
      <4>3. g = h
        BY <1>4, <2>2, <3>1, <4>2
      <4> QED
        BY <1>3, <1>5, <2>2, <3>1, <4>3
    <3>2. CASE q # p
      <4>1. q \in Listed(g)
        BY <1>4, <2>2, <3>2
      <4> QED
        BY <1>3, <1>5, <2>2, <3>2, <4>1 DEF ConfigInv, ListsFit
    <3> QED
      BY <3>1, <3>2
  <2> QED
    BY <2>1, <2>2 DEF ListsFit
<1>9. TakenFit'
  <2>1. config[i].tokens[1] \in {"path", "default"}
        /\ (IsPath(i) => Len(config[i].tokens) = 3 /\ config[i].tokens[2] = p)
    BY DEF IsPath, Tokens
  <2>2. TakenFit
    BY DEF ConfigInv, NoneFailed
  <2> QED
    BY <1>2, <1>5, <2>1, <2>2 DEF TakenFit, IsPath, IsPort
<1>10. Registers(i, p) /\ \A q \in STRING : Registers(i, q) => q = p
  BY DEF IsPath, Tokens, Registers
<1>11. MapFits'
  <2>0. MapFits /\ TakenFit
    BY DEF ConfigInv, NoneFailed
  <2>1. ASSUME NEW n \in Taken', NEW q \in STRING, Registers(n, q)
        PROVE  /\ q \in Keys'
               /\ (\A m \in n + 1 .. i' - 1 : ~Registers(m, q)) =>
                    uri_prefix_to_handler'[q] = HandlerOf(n)
               /\ \A m \in 1 .. n - 1 :
                    Registers(m, q) => "default" \in {config[m].tokens[1], config[n].tokens[1]}
    <3>1. CASE n = i
      <4>1. q = p
        BY <1>10, <2>1, <3>1
      <4>2. ASSUME NEW m \in Taken, Registers(m, p), config[m].tokens[1] # "default"
            PROVE  config[i].tokens[1] = "default"
        BY <2>0, <4>2 DEF TakenFit, Registers, IsPath
      <4> QED
        BY <1>2, <1>3, <3>1, <4>1, <4>2
    <3>2. CASE n \in Taken
      <4>1. /\ q \in Keys
            /\ (\A m \in n + 1 .. i - 1 : ~Registers(m, q)) =>
                 uri_prefix_to_handler[q] = HandlerOf(n)
            /\ \A m \in 1 .. n - 1 :
                 Registers(m, q) => "default" \in {config[m].tokens[1], config[n].tokens[1]}
        BY <2>0, <2>1, <3>2 DEF MapFits
      <4>2. ASSUME \A m \in n + 1 .. i' - 1 : ~Registers(m, q)
            PROVE  q # p /\ \A m \in n + 1 .. i - 1 : ~Registers(m, q)
        <5>1. n + 1 .. i' - 1 = (n + 1 .. i - 1) \cup {i}
          BY <1>2, <3>2
        <5> QED
          BY <1>10, <4>2, <5>1
      <4> QED
        BY <1>3, <4>1, <4>2
    <3> QED
      BY <1>2, <3>1, <3>2
  <2> QED
    BY <1>1, <2>1 DEF MapFits, Registers, HandlerOf
<1>12. PortFits'
  <2>0. PortFits
    BY DEF ConfigInv, NoneFailed
  <2>1. ~IsPort(i)
    BY DEF IsPort, IsPath
  <2>2. ASSUME NEW n \in Taken
        PROVE  (\E m \in n + 1 .. i' - 1 : IsPort(m)) <=> (\E m \in n + 1 .. i - 1 : IsPort(m))
    <3>1. n + 1 .. i' - 1 = (n + 1 .. i - 1) \cup {i}
      BY <1>2, <2>2
    <3> QED
      BY <2>1, <3>1
  <2>3. (\A n \in Taken' : ~IsPort(n)) => port = NoPort
    BY <1>2, <2>0 DEF PortFits
  <2>4. ASSUME NEW n \in Taken', IsPort(n)
        PROVE  IF \E m \in n + 1 .. i' - 1 : IsPort(m)
               THEN Stoi[config[n].tokens[2]] = NoPort
               ELSE port = Stoi[config[n].tokens[2]]
    <3>1. n \in Taken
      BY <1>2, <2>1, <2>4
    <3> QED
      BY <2>0, <2>2, <2>4, <3>1 DEF PortFits
  <2> QED
    BY <1>1, <2>3, <2>4 DEF PortFits, IsPort
<1> QED
  BY <1>6, <1>7, <1>8, <1>9, <1>11, <1>12 DEF ConfigInv

LEMMA ConfigStep == ConfigInv /\ [ConfigNext \/ Made]_configVars => ConfigInv'
<1> SUFFICES ASSUME ConfigInv, [ConfigNext \/ Made]_configVars PROVE ConfigInv'
  OBVIOUS
<1>1. CASE PortStatement
  BY <1>1, PortStep
<1>2. CASE PathStatement
  <2>1. /\ i \in 1 .. Len(config) /\ result = "reading" /\ IsPath(i) /\ Len(Tokens) = 3
        /\ Tokens[2] \notin Names /\ path_names' = Append(path_names, Tokens[2])
        /\ Tokens[3] \in Builders /\ Register(Tokens[2], Tokens[3])
        /\ UNCHANGED <<config, endpoint, port>>
    BY <1>2 DEF PathStatement, Looks, HasForm, CreateByName, IsPath, Tokens, ConfigInv,
        ConfigTypeOK
  <2>2. Tokens[2] \in STRING /\ HandlerOf(i) = Tokens[3]
    BY <2>1, StatementFacts DEF ConfigInv, Tokens, HandlerOf
  <2> QED
    BY <2>1, <2>2, RegisterStep
<1>3. CASE DefaultStatement
  <2>1. /\ i \in 1 .. Len(config) /\ result = "reading" /\ config[i].tokens[1] = "default"
        /\ Len(Tokens) = 2 /\ Tokens[2] \in Builders /\ Register("default", Tokens[2])
        /\ UNCHANGED <<config, endpoint, port, path_names>>
    BY <1>3 DEF DefaultStatement, Looks, HasForm, CreateByName, Tokens, ConfigInv, ConfigTypeOK
  <2>2. HandlerOf(i) = Tokens[2] /\ "default" \in STRING /\ i =< Len(config)
    BY <2>1, StatementFacts DEF ConfigInv, Tokens, HandlerOf
  <2> QED
    BY <2>1, <2>2, RegisterStep
<1>4. CASE PortFails \/ PathFails \/ DefaultFails \/ UnknownStatement \/ AllRead
  <2>1. /\ result = "reading" /\ UNCHANGED <<config, i, info, endpoint>>
        /\ \/ result' \in {"false", "undefined", "thrown"}
           \/ result' = "true" /\ i > Len(config)
    BY <1>4 DEF PortFails, PathFails, DefaultFails, UnknownStatement, AllRead, Looks, End
  <2> QED
    BY <2>1, EndStep
<1>5. CASE Listen
  BY <1>5, ListenStep
<1>6. CASE UNCHANGED configVars
  BY <1>6 DEF configVars, info, ConfigInv, ConfigTypeOK, AllTaken, ListsFit, NoneFailed, TakenFit,
      MapFits, PortFits, ListeningFits, Keys, Listed, Names, Taken, IsPort, IsPath, Registers,
      HandlerOf
<1> QED
  BY <1>1, <1>2, <1>3, <1>4, <1>5, <1>6 DEF ConfigNext, Made

LEMMA ConfigAlways == ConfigSpec => []ConfigInv
BY ConfigInvInit, ConfigStep, PTL DEF ConfigSpec

\* getServerInfo (server.cc:109-154) gives each key of the map the handler of
\* the last statement that names it, and never replaces that of a path silently.
THEOREM MapAsConfigured == ConfigSpec => []HandlersAsConfigured
<1>1. ConfigInv => HandlersAsConfigured
  <2> SUFFICES ASSUME ConfigInv, result \in {"true", "listening"},
                      NEW n \in 1 .. Len(config), NEW p, p \in {"default", config[n].tokens[2]},
                      Registers(n, p)
               PROVE  /\ p \in Keys
                      /\ (\A m \in n + 1 .. Len(config) : ~Registers(m, p)) =>
                           uri_prefix_to_handler[p] = HandlerOf(n)
                      /\ \A m \in 1 .. n - 1 : Registers(m, p) =>
                           "default" \in {config[m].tokens[1], config[n].tokens[1]}
    BY DEF ConfigInv, HandlersAsConfigured
  <2>1. i = Len(config) + 1 /\ Len(config) \in Nat /\ MapFits /\ TakenFit
    BY StatementFacts DEF ConfigInv, AllTaken, NoneFailed
  <2>2. i - 1 = Len(config) /\ n \in Taken
    BY <2>1 DEF Taken
  <2>3. p \in STRING
    <3>1. CASE IsPath(n)
      <4>1. Len(config[n].tokens) = 3
        BY <2>1, <2>2, <3>1 DEF TakenFit
      <4>2. config[n].tokens[2] \in STRING
        BY <4>1, StatementFacts DEF ConfigInv
      <4>3. p = config[n].tokens[2]
        BY <3>1 DEF Registers, IsPath
      <4> QED
        BY <4>2, <4>3, Zenon
    <3>2. CASE ~IsPath(n)
      <4>1. p = "default"
        BY <3>2 DEF Registers, IsPath
      <4>2. config[n].tokens[1] = "default" /\ config[n].tokens[1] \in STRING
        BY <3>2, StatementFacts DEF ConfigInv, Registers, IsPath
      <4> QED
        BY <4>1, <4>2, Zenon
    <3> QED
      BY <3>1, <3>2
  <2> QED
    BY <2>1, <2>2, <2>3 DEF MapFits
<1> QED
  BY <1>1, ConfigAlways, PTL

\* The map that StatusHandler shows lists every key under its handler.
THEOREM ListedRight == ConfigSpec => []ListedUnderItsHandler
<1>1. ConfigInv => ListedUnderItsHandler
  BY DEF ConfigInv, ListsFit, ListedUnderItsHandler, Listed
<1> QED
  BY <1>1, ConfigAlways, PTL

\* The acceptor (server.cc:16-27) listens on the port of a config whose port
\* statements give ports, and there is one such statement.
THEOREM ListensRight == ConfigSpec => []ListensOnItsPort
<1>1. ConfigInv => ListensOnItsPort
  <2> DEFINE ports == {n \in 1 .. Len(config) : IsPort(n)}
             P(n) == Stoi[config[n].tokens[2]]
  <2> SUFFICES ASSUME ConfigInv, result = "listening", ports # {},
                      \A n \in ports : P(n) \in 0 .. PortWrap - 1
               PROVE  \E n \in ports : ports = {n} /\ endpoint = P(n)
    BY DEF ListensOnItsPort
  <2>1. i = Len(config) + 1 /\ Len(config) \in Nat /\ PortFits /\ endpoint = port % PortWrap
    BY StatementFacts DEF ConfigInv, AllTaken, NoneFailed, ListeningFits
  <2>2. i - 1 = Len(config) /\ Taken = 1 .. Len(config)
    BY <2>1 DEF Taken
  <2>3. ASSUME NEW n \in ports PROVE port = P(n) /\ ~ \E m \in n + 1 .. Len(config) : IsPort(m)
    <3>1. n \in Taken /\ IsPort(n) /\ P(n) # NoPort
      BY <2>2, <2>3 DEF NoPort
    <3> QED
      BY <2>1, <2>2, <3>1 DEF PortFits
  <2>4. ASSUME NEW n \in ports, NEW m \in ports PROVE ~(n < m)
    <3>1. ~ \E k \in n + 1 .. Len(config) : IsPort(k)
      BY <2>3
    <3> QED
      BY <2>1, <3>1
  <2>5. PICK n \in ports : TRUE
    OBVIOUS
  <2>6. ports = {n}
    BY <2>1, <2>4
  <2>7. P(n) % PortWrap = P(n)
    <3>1. P(n) \in 0 .. PortWrap - 1 /\ PortWrap \in Nat \ {0}
      BY ConfigsAssumption
    <3> HIDE DEF P
    <3> QED
      BY <3>1
  <2> QED
    BY <2>1, <2>3, <2>6, <2>7
<1> QED
  BY <1>1, ConfigAlways, PTL
=============================================================================
