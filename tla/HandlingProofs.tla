--------------------------- MODULE HandlingProofs ---------------------------
(***************************************************************************)
(* How a request finds its handler, and what the one handler that changes  *)
(* while it serves makes of it: RouteLoop, for every handler map and every *)
(* request, and ProxyHandler, for any number of threads and calls, any     *)
(* hosts with any redirects between them, and any faults.                  *)
(***************************************************************************)
EXTENDS RouteLoop, ProxyHandler, SequenceTheorems, TLAPS

(***************************************************************************)
(* Facts about uris: what ShortenUriPrefix keeps, and that what is         *)
(* registered is the longest registered text that covers it.               *)
(***************************************************************************)
LEMMA RegisteredAreUris == Registered \subseteq Uri /\ NoUri \notin Registered
BY RoutingAssumption, SeqMonotonic DEF Uri

LEMMA RootIsUri == Root \in Uri /\ NoUri \in Uri /\ Root # NoUri
BY DEF Root, NoUri, Uri

LEMMA UriLen == ASSUME NEW u \in Uri
                PROVE  Len(u) \in Nat /\ (u # NoUri => Len(u) # 0)
BY LenProperties, EmptySeq DEF Uri, NoUri

LEMMA Squeeze == ASSUME NEW m \in Nat, NEW n \in Nat, m =< n, n =< m PROVE m = n
OBVIOUS

LEMMA Predecessor == ASSUME NEW m \in Nat, m # 0, m # 1
                     PROVE  m - 1 \in Nat \ {0} /\ m = (m - 1) + 1
OBVIOUS

\* All of a sequence but its last element.
LEMMA FrontFacts ==
    ASSUME NEW S, NEW u \in Seq(S), NEW n \in Nat \ {0}, Len(u) = n + 1
    PROVE  /\ SubSeq(u, 1, n) \in Seq(S)
           /\ Len(SubSeq(u, 1, n)) = n
           /\ \A i \in 1 .. n : SubSeq(u, 1, n)[i] = u[i]
OBVIOUS

\* Two texts of one length that begin alike are the same text.
LEMMA StartsWithEqual ==
    ASSUME NEW u \in Uri, NEW p \in Uri, StartsWith(u, p), Len(p) = Len(u)
    PROVE  p = u
BY SeqEqual DEF StartsWith, Uri

\* Only "/" covers "/".
LEMMA CoversRoot ==
    ASSUME NEW p \in Uri
    PROVE  Covers(p, Root) <=> p = Root
<1>1. ASSUME StartsWith(Root, p), p # NoUri PROVE p = Root
  <2>1. Len(Root) = 1 /\ Root \in Uri
    BY RootIsUri DEF Root
  <2>2. Len(p) =< Len(Root)
    BY <1>1 DEF StartsWith
  <2>3. Len(p) = Len(Root)
    <3>1. Len(p) \in Nat /\ Len(p) # 0
      BY <1>1, UriLen
    <3> QED
      BY <2>1, <2>2, <3>1, Squeeze
  <2> QED
    BY <1>1, <2>1, <2>3, StartsWithEqual
<1> QED
  BY <1>1, RootIsUri DEF Covers

\* Covering texts of one depth are the same text.
LEMMA DepthUnique ==
    ASSUME NEW u \in Uri, NEW p \in Uri, NEW q \in Uri,
           Covers(p, u), Covers(q, u), Depth(p) = Depth(q)
    PROVE  p = q
<1>1. Len(p) \in Nat \ {0} /\ Len(q) \in Nat \ {0}
  BY UriLen DEF Covers
<1>2. CASE p = Root \/ q = Root
  BY <1>1, <1>2 DEF Depth
<1>3. CASE p # Root /\ q # Root
  <2>1. Len(p) = Len(q) /\ StartsWith(u, p) /\ StartsWith(u, q)
    BY <1>3 DEF Depth, Covers
  <2>2. \A i \in 1 .. Len(p) : p[i] = q[i]
    BY <2>1 DEF StartsWith
  <2> QED
    BY <2>1, <2>2, SeqEqual DEF Uri
<1> QED
  BY <1>2, <1>3

LEMMA ShortenIsUri ==
    ASSUME NEW u \in Uri, u # NoUri
    PROVE  ShortenUriPrefix(u) \in Uri
<1>1. Len(u) \in Nat /\ Len(u) # 0
  BY UriLen
<1>2. CASE u = Root \/ Len(u) = 1
  BY <1>2, RootIsUri DEF ShortenUriPrefix
<1>3. CASE u # Root /\ Len(u) # 1
  <2> DEFINE n == Len(u) - 1
  <2>1. n \in Nat \ {0} /\ Len(u) = n + 1
    BY <1>1, <1>3, Predecessor
  <2> HIDE DEF n
  <2>2. SubSeq(u, 1, n) \in Uri
    BY <2>1, FrontFacts DEF Uri
  <2> QED
    BY <1>3, <2>2 DEF n, ShortenUriPrefix
<1> QED
  BY <1>2, <1>3

\* Cutting a text that is not registered loses no registered text above it.
LEMMA ShortenKeepsCovers ==
    ASSUME NEW u \in Uri, u # NoUri, u \notin Registered, NEW p \in Registered
    PROVE  Covers(p, u) <=> Covers(p, ShortenUriPrefix(u))
<1> DEFINE s == ShortenUriPrefix(u)
<1>0. p \in Uri /\ p # NoUri /\ p # u
  BY RegisteredAreUris
<1>1. Len(u) \in Nat \ {0} /\ Len(p) \in Nat \ {0}
  BY <1>0, UriLen
<1>2. CASE u = Root
  <2>1. s = NoUri
    BY <1>2 DEF ShortenUriPrefix
  <2> QED
    BY <1>0, <1>2, <2>1, RootIsUri, CoversRoot DEF Covers
<1>3. CASE u # Root /\ Len(u) = 1
  <2>1. s = Root
    BY <1>3 DEF ShortenUriPrefix
  <2>2. StartsWith(u, p) => p = u
    BY <1>0, <1>1, <1>3, StartsWithEqual DEF StartsWith
  <2>3. Covers(p, u) <=> p = Root
    BY <1>0, <2>2 DEF Covers
  <2> QED
    BY <1>0, <2>1, <2>3, RootIsUri, CoversRoot
<1>4. CASE u # Root /\ Len(u) # 1
  <2>1. s = SubSeq(u, 1, Len(u) - 1)
    BY <1>4 DEF ShortenUriPrefix
  <2>2. /\ s \in Uri
        /\ Len(s) = Len(u) - 1
        /\ \A i \in 1 .. Len(u) - 1 : s[i] = u[i]
    <3> DEFINE n == Len(u) - 1
    <3>1. n \in Nat \ {0} /\ Len(u) = n + 1
      BY <1>1, <1>4, Predecessor
    <3> HIDE DEF n
    <3>2. /\ SubSeq(u, 1, n) \in Uri
          /\ Len(SubSeq(u, 1, n)) = n
          /\ \A i \in 1 .. n : SubSeq(u, 1, n)[i] = u[i]
      BY <3>1, FrontFacts DEF Uri
    <3> QED
      BY <2>1, <3>2 DEF n
  <2>3. s # NoUri
    BY <1>1, <1>4, <2>2 DEF NoUri
  <2>4. StartsWith(u, p) => Len(p) # Len(u)
    BY <1>0, StartsWithEqual
  <2>5. StartsWith(u, p) <=> StartsWith(s, p)
    BY <1>1, <2>2, <2>4 DEF StartsWith
  <2> QED
    BY <2>2, <2>3, <2>5 DEF Covers
<1> QED
  BY <1>1, <1>2, <1>3, <1>4

\* A registered text that covers itself is the deepest that covers it.
LEMMA RegisteredIsLongest ==
    ASSUME NEW u \in Registered
    PROVE  IsLongest(u, u, Registered)
<1>0. u \in Uri /\ u # NoUri /\ Len(u) \in Nat
  BY RegisteredAreUris, UriLen
<1>1. Covers(u, u)
  BY <1>0 DEF Covers, StartsWith
<1>2. ASSUME NEW q \in Registered, Covers(q, u) PROVE Depth(q) =< Depth(u)
  <2>0. q \in Uri /\ Len(q) \in Nat
    BY RegisteredAreUris, UriLen
  <2>1. CASE u = Root
    BY <1>2, <2>0, <2>1, CoversRoot DEF Depth
  <2>2. CASE u # Root
    BY <1>0, <1>2, <2>0, <2>2 DEF Covers, StartsWith, Depth
  <2> QED
    BY <2>1, <2>2
<1> QED
  BY <1>1, <1>2 DEF IsLongest
-----------------------------------------------------------------------------
(***************************************************************************)
(* The invariant: until the headers are done, the prefix is the uri or the *)
(* last Referer seen; after that, the registered texts that cover the      *)
(* prefix are the ones that cover the text looked up.                      *)
(***************************************************************************)
NoneThrew == \A i \in 1 .. pair - 1 : request.referers[i] # NoPath

LookedUp == Lookup(request.uri, request.referers)

SameCovers == \A p \in Registered : Covers(p, LookedUp) <=> Covers(p, handler_uri_prefix)

LoopInv ==
    /\ LoopTypeOK
    /\ pc = "referer" =>
         /\ NoneThrew
         /\ handler_uri_prefix = IF pair = 1 THEN request.uri
                                             ELSE request.referers[pair - 1]
    /\ pc \in {"match", "routed"} =>
         /\ \A i \in 1 .. Len(request.referers) : request.referers[i] # NoPath
         /\ SameCovers
    /\ pc = "routed" => chosen = Longest(LookedUp)
    /\ pc = "thrown" => Route(request.uri, request.referers) = Throws

LEMMA LoopInitInv == LoopInit => LoopInv
<1> SUFFICES ASSUME LoopInit PROVE LoopInv
  OBVIOUS
<1>1. /\ request.uri \in Uri
      /\ request.referers \in Seq(Uri \cup {NoPath})
      /\ Len(request.referers) \in Nat
  BY RequestsAssumption, LenProperties DEF LoopInit
<1> QED
  BY <1>1 DEF LoopInit, LoopInv, LoopTypeOK, NoneThrew

LEMMA LoopStep == LoopInv /\ [LoopNext \/ Stopped]_loopVars => LoopInv'
<1> SUFFICES ASSUME LoopInv, [LoopNext \/ Stopped]_loopVars PROVE LoopInv'
  OBVIOUS
<1>0. /\ request.uri \in Uri
      /\ request.referers \in Seq(Uri \cup {NoPath})
      /\ Len(request.referers) \in Nat
      /\ pair \in Nat \ {0}
      /\ \A i \in 1 .. Len(request.referers) :
           /\ request.referers[i] \in Uri \cup {NoPath}
           /\ request.referers[i] # NoUri
  BY RequestsAssumption, LenProperties, ElementOfSeq DEF LoopInv, LoopTypeOK
<1>1. ASSUME Referer PROVE LoopInv'
  <2>1. pair \in 1 .. Len(request.referers)
    BY <1>0, <1>1 DEF Referer
  <2>2. CASE request.referers[pair] = NoPath
    <3>1. Route(request.uri, request.referers) = Throws
      BY <2>1, <2>2 DEF Route
    <3> QED
      BY <1>0, <1>1, <2>1, <2>2, <3>1 DEF Referer, LoopInv, LoopTypeOK
  <2>3. CASE request.referers[pair] # NoPath
    <3>1. handler_uri_prefix' \in Uri
      BY <1>0, <1>1, <2>1, <2>3 DEF Referer
    <3>2. NoneThrew'
      BY <1>0, <1>1, <2>1, <2>3 DEF Referer, LoopInv, NoneThrew
    <3> QED
      BY <1>0, <1>1, <2>1, <2>3, <3>1, <3>2 DEF Referer, LoopInv, LoopTypeOK
  <2> QED
    BY <2>2, <2>3
<1>2. ASSUME NoMoreReferers PROVE LoopInv'
  <2>1. pair = Len(request.referers) + 1
    BY <1>0, <1>2 DEF NoMoreReferers, LoopInv, LoopTypeOK
  <2>2. \A i \in 1 .. Len(request.referers) : request.referers[i] # NoPath
    BY <1>2, <1>0, <2>1 DEF NoMoreReferers, LoopInv, NoneThrew
  <2>3. handler_uri_prefix = LookedUp
    <3>1. Len(request.referers) = 0 <=> request.referers = << >>
      BY <1>0, EmptySeq
    <3> QED
      BY <1>0, <1>2, <2>1, <3>1 DEF NoMoreReferers, LoopInv, LookedUp, Lookup
  <2> QED
    BY <1>2, <2>2, <2>3
       DEF NoMoreReferers, LoopInv, LoopTypeOK, SameCovers, LookedUp
<1>3. ASSUME Match PROVE LoopInv'
  <2> DEFINE u == handler_uri_prefix
  <2>1. IsLongest(u, u, Registered)
    BY <1>3, RegisteredIsLongest DEF Match
  <2>2. IsLongest(u, LookedUp, Registered)
    BY <1>3, <2>1 DEF Match, LoopInv, SameCovers, IsLongest
  <2>3. LookedUp \in Uri
    BY <1>0, <1>3 DEF LookedUp, Lookup, Match, LoopInv
  <2>4. Longest(LookedUp) = u
    <3>1. \A q \in Registered : IsLongest(q, LookedUp, Registered) => q = u
      <4> SUFFICES ASSUME NEW q \in Registered, IsLongest(q, LookedUp, Registered)
                   PROVE  q = u
        OBVIOUS
      <4>1. Covers(q, LookedUp) /\ Covers(u, LookedUp) /\ u \in Registered
        BY <2>2 DEF IsLongest
      <4>2. q \in Uri /\ u \in Uri /\ Depth(q) \in Nat /\ Depth(u) \in Nat
        BY <4>1, RegisteredAreUris, UriLen DEF Depth
      <4>3. Depth(q) =< Depth(u) /\ Depth(u) =< Depth(q)
        BY <2>2, <4>1 DEF IsLongest
      <4>4. Depth(q) = Depth(u)
        BY <4>2, <4>3, Squeeze
      <4> QED
        BY <2>3, <4>1, <4>2, <4>4, DepthUnique
    <3>2. \E p \in Registered : Covers(p, LookedUp)
      BY <2>2 DEF IsLongest
    <3> QED
      BY <2>2, <3>1, <3>2 DEF Longest, IsLongest
  <2> QED
    BY <1>3, <2>4 DEF Match, LoopInv, LoopTypeOK, SameCovers, LookedUp
<1>4. ASSUME Shorten PROVE LoopInv'
  <2>1. handler_uri_prefix' \in Uri
    BY <1>4, ShortenIsUri DEF Shorten, LoopInv, LoopTypeOK
  <2>2. SameCovers'
    BY <1>4, ShortenKeepsCovers
       DEF Shorten, LoopInv, LoopTypeOK, SameCovers, LookedUp
  <2> QED
    BY <1>4, <2>1, <2>2 DEF Shorten, LoopInv, LoopTypeOK, LookedUp
<1>5. ASSUME UseDefault PROVE LoopInv'
  <2>1. \A p \in Registered : ~Covers(p, LookedUp)
    BY <1>5 DEF UseDefault, LoopInv, SameCovers, Covers
  <2>2. Longest(LookedUp) = IF HasDefault THEN Default ELSE Throws
    BY <2>1 DEF Longest
  <2>3. Route(request.uri, request.referers) = Longest(LookedUp)
    BY <1>5 DEF UseDefault, LoopInv, Route, LookedUp
  <2> QED
    BY <1>5, <2>2, <2>3
       DEF UseDefault, LoopInv, LoopTypeOK, SameCovers, LookedUp
<1>6. CASE Stopped \/ UNCHANGED loopVars
  BY <1>6 DEF Stopped, loopVars, LoopInv, LoopTypeOK, NoneThrew, SameCovers, LookedUp
<1> QED
  BY <1>1, <1>2, <1>3, <1>4, <1>5, <1>6 DEF LoopNext

\* The prefix stays a uri and the loop over the headers stays within them.
THEOREM LoopTypeCorrect == LoopSpec => []LoopTypeOK
<1>1. LoopInv => LoopTypeOK
  BY DEF LoopInv
<1> QED
  BY <1>1, LoopInitInv, LoopStep, PTL DEF LoopSpec

\* The while loop of handle_read (connection.cc:69-78) chooses the longest
\* registered uri that covers the uri looked up, for every handler map, and
\* handle_read throws only for a Referer without a path, or when no
\* registered uri covers the request and there is no default handler.
THEOREM LoopFindsLongest == LoopSpec => []LongestPrefixWins
<1>1. LoopInv => LongestPrefixWins
  BY DEF LoopInv, LongestPrefixWins, Route, LookedUp
<1> QED
  BY <1>1, LoopInitInv, LoopStep, PTL DEF LoopSpec
-----------------------------------------------------------------------------
(***************************************************************************)
(* FollowsToTheEnd.  What a call is connected to, what it was answered and *)
(* what it has put into its Response belong together at every step of it,  *)
(* whatever the other calls make of host_.                                 *)
(***************************************************************************)
InReply == {"headers", "body"} \cup Texts

\* A call is connected to a host from the request on.
ConnectedToHost(t) ==
    at[t] \in InReply \cup {"request", "status"} =>
        connected[t].of \in Hosts /\ connected[t].as = "name"

\* What it was answered is that host's answer, and the response has its status.
AnsweredByHost(t) ==
    at[t] \in InReply =>
        /\ answer[t] \in Answers(connected[t].of) \ {NoAnswer}
        /\ response[t].status = SetStatus(answer[t].code)
        /\ at[t] \in Texts => answer[t].code = 302
        /\ at[t] # "headers" => connected[t].of \in response[t].headers

\* It has not returned until then.
OnTheWay(t) == at[t] # "idle" => returned[t] = "none"

\* What it returns as OK.
Arrived(t) ==
    at[t] = "idle" /\ returned[t] = "OK" =>
        /\ connected[t].of \notin Redirects
        /\ connected[t].of \in response[t].headers
        /\ response[t].status = SetStatus(answer[t].code)
        /\ ~answer[t].early => response[t].body = connected[t].of

CallInv(t) == ConnectedToHost(t) /\ AnsweredByHost(t) /\ OnTheWay(t) /\ Arrived(t)

AnAnswer == [code : {0, 200, 302, 404}, early : BOOLEAN, location : Locations \cup {NoLocation}]

Responses == [status : {0, 200, 404, 500}, headers : SUBSET Hosts, body : Hosts \cup {NoHost}]

ProxyInv == ProxyTypeOK /\ \A t \in Threads : CallInv(t)

\* The answers of a host say whether it redirects, and where to.
LEMMA AnswersFacts ==
    ASSUME NEW h \in Hosts, NEW a \in Answers(h)
    PROVE  /\ a \in AnAnswer
           /\ a.location.form # "missing" => a.code = 302
           /\ a # NoAnswer => (a.code = 302 <=> h \in Redirects)
           /\ a.code = 302 => a.location \in Location[h] /\ a.location \in Locations
<1>1. Location[h] \in SUBSET Locations
  BY ProxyAssumption
<1>2. CASE a = NoAnswer
  BY <1>2 DEF NoAnswer, NoLocation, AnAnswer
<1>3. CASE a \in [code : {302}, early : BOOLEAN, location : Location[h]]
  BY <1>1, <1>3 DEF AnAnswer, Redirects
<1>4. CASE a \in [code : IF h \in Redirects THEN {} ELSE {200, 404}, early : BOOLEAN,
                  location : {NoLocation}]
  BY <1>4 DEF AnAnswer, NoLocation
<1> QED
  BY <1>2, <1>3, <1>4 DEF Answers

\* Nothing is called yet.
LEMMA ProxyInvInit == ProxyInit => ProxyInv
<1> SUFFICES ASSUME ProxyInit PROVE ProxyInv
  OBVIOUS
<1>1. ProxyTypeOK
  <2>1. host_ \in Text /\ calls \in 0 .. MaxCalls
    BY ProxyAssumption DEF ProxyInit, Text
  <2>2. NoAnswer \in AnAnswer /\ Empty \in Responses
    BY DEF NoAnswer, NoLocation, AnAnswer, Empty, Responses
  <2>3. /\ answer \in [Threads -> AnAnswer]
        /\ response \in [Threads -> Responses]
    BY <2>2 DEF ProxyInit
  <2>4. /\ connected \in [Threads -> Text \cup {NoText}]
        /\ named \in [Threads -> Text \cup {NoText}]
    BY DEF ProxyInit
  <2>5. /\ at \in [Threads -> {"idle", "connect", "request", "status", "headers", "body"}
                              \cup Texts]
        /\ returned \in [Threads -> {"none", "OK", "ERROR"}]
        /\ together \in BOOLEAN /\ terminated \in BOOLEAN
    BY DEF ProxyInit
  <2> QED
    BY <2>1, <2>3, <2>4, <2>5 DEF ProxyTypeOK, Responses, AnAnswer
<1>2. \A t \in Threads : CallInv(t)
  BY DEF ProxyInit, CallInv, ConnectedToHost, AnsweredByHost, OnTheWay, Arrived, InReply, Texts
<1> QED
  BY <1>1, <1>2 DEF ProxyInv

\* What a Location leaves is a host or nothing.
LEMMA NameInHosts ==
    ASSUME NEW l \in Locations
    PROVE  NameIn(l) \in Hosts \cup {NoHost}
<1>1. OtherName[l] \in Hosts \cup {NoHost} /\ l.to \in Hosts
  BY ProxyAssumption DEF Locations
<1> QED
  BY <1>1 DEF NameIn

\* host_ holds a text of a host, or what two calls have left of one.
LEMMA CutToText ==
    ASSUME ProxyInv, NEW t \in Threads, at[t] \in Texts
    PROVE  CutTo(at[t], answer[t].location) \in Text
<1>1. answer[t].location \in Locations
  <2>1. /\ connected[t].of \in Hosts
        /\ answer[t] \in Answers(connected[t].of)
        /\ answer[t].code = 302
    BY DEF ProxyInv, CallInv, ConnectedToHost, AnsweredByHost, InReply
  <2> QED
    BY <2>1, AnswersFacts
<1>2. host_ \in Text
  BY DEF ProxyInv, ProxyTypeOK
<1>3. Mangled \in Text /\ \A h \in Hosts : Name(h) \in Text
  BY DEF Text
<1>4. CASE at[t] = "url"
  BY <1>1, <1>4 DEF CutTo, Text, Locations
<1>5. CASE at[t] = "tail" /\ host_.as = "url"
  <2>1. host_ \in [of : Hosts, form : Forms, as : {"url", "tail"}]
    BY <1>2, <1>5 DEF Text, Mangled, Name
  <2> QED
    BY <1>5, <2>1 DEF CutTo, Text
<1>6. CASE at[t] = "name" /\ host_.as = "tail"
  <2>1. [to |-> host_.of, form |-> host_.form] \in Locations
    BY <1>2, <1>6 DEF Text, Mangled, Name, Locations
  <2> QED
    BY <1>3, <1>6, <2>1, NameInHosts DEF CutTo
<1> QED
  BY <1>3, <1>4, <1>5, <1>6 DEF CutTo, Texts

\* A call that does not move stays as it is, whatever happens to host_.
LEMMA OtherCalls ==
    ASSUME NEW t \in Threads, CallInv(t),
           at'[t] = at[t], connected'[t] = connected[t], answer'[t] = answer[t],
           response'[t] = response[t], returned'[t] = returned[t]
    PROVE  CallInv(t)'
BY DEF CallInv, ConnectedToHost, AnsweredByHost, OnTheWay, Arrived

\* Every action keeps every call's state together.
LEMMA ProxyInvStep == ProxyInv /\ [ProxyNext]_proxyVars => ProxyInv'
<1> SUFFICES ASSUME ProxyInv, [ProxyNext]_proxyVars PROVE ProxyInv'
  OBVIOUS
<1>a. ProxyTypeOK /\ \A t \in Threads : CallInv(t)
  BY DEF ProxyInv
<1>b. ASSUME NEW t \in Threads, ProxyTypeOK', CallInv(t)',
             \A u \in Threads \ {t} :
                 /\ at'[u] = at[u] /\ connected'[u] = connected[u] /\ answer'[u] = answer[u]
                 /\ response'[u] = response[u] /\ returned'[u] = returned[u]
      PROVE  ProxyInv'
  BY <1>a, <1>b, OtherCalls DEF ProxyInv
<1> USE DEF Goto
<1>1. CASE UNCHANGED proxyVars
  <2>1. \A t \in Threads : CallInv(t)'
    BY <1>1, <1>a, OtherCalls DEF proxyVars
  <2> QED
    BY <1>1, <1>a, <2>1 DEF proxyVars, ProxyInv, ProxyTypeOK
<1>2. ASSUME NEW t \in Threads, Call(t) PROVE ProxyInv'
  <2>1. calls' \in 0 .. MaxCalls
    BY <1>2, <1>a, ProxyAssumption DEF Call, ProxyTypeOK
  <2>2. /\ Empty \in Responses /\ Empty.headers = {} /\ Empty.body = NoHost
        /\ NoAnswer \in AnAnswer
    BY DEF Empty, NoAnswer, NoLocation, AnAnswer, Responses
  <2>3. ProxyTypeOK'
    BY <1>2, <1>a, <2>1, <2>2 DEF Call, ProxyTypeOK, Responses, AnAnswer
  <2>4. /\ at'[t] = "connect" /\ returned'[t] = "none" /\ response'[t] = Empty
        /\ \A u \in Threads \ {t} :
             /\ at'[u] = at[u] /\ connected'[u] = connected[u] /\ answer'[u] = answer[u]
             /\ response'[u] = response[u] /\ returned'[u] = returned[u]
    BY <1>2, <1>a DEF Call, ProxyTypeOK
  <2>5. CallInv(t)'
    BY <2>2, <2>4 DEF CallInv, ConnectedToHost, AnsweredByHost, OnTheWay, Arrived, InReply, Texts
  <2> QED
    BY <1>b, <2>3, <2>4, <2>5
<1>3. ASSUME NEW t \in Threads, Connect(t) PROVE ProxyInv'
  <2>1. host_.of \in Hosts /\ host_ \in Text /\ host_.as = "name"
    BY <1>3, <1>a DEF Connect, Text, Mangled, Name, ProxyTypeOK
  <2>2. ProxyTypeOK'
    BY <1>3, <1>a, <2>1 DEF Connect, ProxyTypeOK
  <2>3. /\ at[t] = "connect" /\ at'[t] = "request" /\ connected'[t] = host_
        /\ UNCHANGED <<answer, response, returned>>
        /\ \A u \in Threads \ {t} : at'[u] = at[u] /\ connected'[u] = connected[u]
    BY <1>3, <1>a DEF Connect, ProxyTypeOK
  <2>4. CallInv(t)'
    BY <1>a, <2>1, <2>3
       DEF CallInv, ConnectedToHost, AnsweredByHost, OnTheWay, Arrived, InReply, Texts
  <2> QED
    BY <1>b, <2>2, <2>3, <2>4
<1>4. ASSUME NEW t \in Threads, SendRequest(t) PROVE ProxyInv'
  <2>1. ProxyTypeOK'
    BY <1>4, <1>a DEF SendRequest, ProxyTypeOK
  <2>2. /\ at[t] = "request" /\ at'[t] = "status"
        /\ UNCHANGED <<connected, answer, response, returned>>
        /\ \A u \in Threads \ {t} : at'[u] = at[u]
    BY <1>4, <1>a DEF SendRequest, ProxyTypeOK
  <2>3. CallInv(t)'
    BY <1>a, <2>2
       DEF CallInv, ConnectedToHost, AnsweredByHost, OnTheWay, Arrived, InReply, Texts
  <2> QED
    BY <1>b, <2>1, <2>2, <2>3
<1>5. ASSUME NEW t \in Threads, ReadStatus(t) PROVE ProxyInv'
  <2>1. PICK a \in Answers(connected[t].of) :
          /\ answer' = [answer EXCEPT ![t] = a]
          /\ IF a = NoAnswer
             THEN /\ response' = [response EXCEPT ![t].status = 500]
                  /\ returned' = [returned EXCEPT ![t] = "ERROR"]
                  /\ Goto(t, "idle")
             ELSE /\ response' = [response EXCEPT ![t].status = SetStatus(a.code)]
                  /\ Goto(t, "headers")
                  /\ UNCHANGED returned
    BY <1>5 DEF ReadStatus
  <2>2. /\ at[t] = "status" /\ UNCHANGED <<host_, connected, named, calls, together, terminated>>
        /\ connected[t].of \in Hosts /\ connected[t].as = "name"
    BY <1>5, <1>a DEF ReadStatus, CallInv, ConnectedToHost
  <2>3. a \in AnAnswer
    BY <2>1, <2>2, AnswersFacts
  <2>4. PICK s \in {200, 404, 500} :
          /\ response' = [response EXCEPT ![t].status = s]
          /\ a # NoAnswer => s = SetStatus(a.code)
    BY <2>1 DEF SetStatus
  <2>5. response[t] \in Responses /\ response \in [Threads -> Responses]
    BY <1>a DEF ProxyTypeOK, Responses
  <2>6. response' \in [Threads -> Responses]
    BY <2>4, <2>5 DEF Responses
  <2>7. /\ response'[t].status = s /\ response'[t].headers = response[t].headers
        /\ response'[t].body = response[t].body
    BY <2>4, <2>5 DEF Responses
  <2>8. ProxyTypeOK'
    <3>1. answer' \in [Threads -> AnAnswer]
      BY <1>a, <2>1, <2>3 DEF ProxyTypeOK, AnAnswer
    <3>2. /\ returned' \in [Threads -> {"none", "OK", "ERROR"}]
          /\ at' \in [Threads -> {"idle", "connect", "request", "status", "headers", "body"}
                                 \cup Texts]
      <4>1. CASE a = NoAnswer
        <5>1. returned' = [returned EXCEPT ![t] = "ERROR"] /\ at' = [at EXCEPT ![t] = "idle"]
          BY <2>1, <4>1 DEF Goto
        <5> QED
          BY <1>a, <5>1 DEF ProxyTypeOK
      <4>2. CASE a # NoAnswer
        BY <1>a, <2>1, <4>2 DEF ProxyTypeOK, Goto
      <4> QED
        BY <4>1, <4>2
    <3> QED
      BY <1>a, <2>2, <2>6, <3>1, <3>2 DEF ProxyTypeOK, Responses, AnAnswer
  <2>9. /\ answer'[t] = a
        /\ a = NoAnswer => at'[t] = "idle" /\ returned'[t] = "ERROR"
        /\ a # NoAnswer => at'[t] = "headers" /\ returned'[t] = returned[t]
    BY <1>a, <2>1 DEF ProxyTypeOK
  <2>10. \A u \in Threads \ {t} :
           /\ at'[u] = at[u] /\ connected'[u] = connected[u] /\ answer'[u] = answer[u]
           /\ response'[u] = response[u] /\ returned'[u] = returned[u]
    BY <1>a, <2>1, <2>2, <2>4 DEF ProxyTypeOK
  <2>11. CallInv(t)'
    <3>1. connected'[t] = connected[t] /\ Answers(connected[t].of)' = Answers(connected[t].of)
      BY <2>2
    <3>2. CallInv(t)
      BY <1>a
    <3>3. CASE a = NoAnswer
      BY <2>9, <3>3 DEF CallInv, ConnectedToHost, AnsweredByHost, OnTheWay, Arrived, InReply, Texts
    <3>4. CASE a # NoAnswer
      <4>1. ConnectedToHost(t)' /\ Arrived(t)'
        BY <2>2, <2>9, <3>4 DEF ConnectedToHost, Arrived
      <4>2. AnsweredByHost(t)'
        BY <2>1, <2>2, <2>4, <2>7, <2>9, <3>4 DEF AnsweredByHost, Texts
      <4>3. OnTheWay(t)'
        BY <2>2, <2>7, <2>9, <3>2, <3>4 DEF CallInv, OnTheWay
      <4> QED
        BY <4>1, <4>2, <4>3 DEF CallInv
    <3> QED
      BY <3>3, <3>4
  <2> QED
    BY <1>b, <2>8, <2>10, <2>11
<1>6. ASSUME NEW t \in Threads, ReadHeaders(t) PROVE ProxyInv'
  <2>1. /\ at[t] = "headers" /\ connected[t].of \in Hosts
        /\ UNCHANGED <<host_, connected, named, answer, returned, calls, together, terminated>>
    BY <1>6, <1>a DEF ReadHeaders, CallInv, ConnectedToHost, InReply
  <2>2. response[t] \in Responses /\ response \in [Threads -> Responses]
    BY <1>a DEF ProxyTypeOK, Responses
  <2>3. response' = [response EXCEPT ![t].headers = @ \cup {connected[t].of}]
    BY <1>6 DEF ReadHeaders
  <2>4. response' \in [Threads -> Responses]
    BY <2>1, <2>2, <2>3 DEF Responses
  <2>5. /\ response'[t].status = response[t].status /\ response'[t].body = response[t].body
        /\ response'[t].headers = response[t].headers \cup {connected[t].of}
    BY <2>2, <2>3 DEF Responses
  <2>6. at' = [at EXCEPT ![t] = IF answer[t].location.form # "missing" THEN "url" ELSE "body"]
    BY <1>6 DEF ReadHeaders
  <2>7. ProxyTypeOK'
    BY <1>a, <2>1, <2>4, <2>6 DEF ProxyTypeOK, Responses, Texts
  <2>8. /\ at'[t] = "body" \/ (at'[t] = "url" /\ answer[t].code = 302)
        /\ \A u \in Threads \ {t} : at'[u] = at[u] /\ response'[u] = response[u]
    <3>1. answer[t] \in Answers(connected[t].of)
      BY <1>a, <2>1 DEF CallInv, AnsweredByHost, InReply
    <3>2. answer[t].location.form # "missing" => answer[t].code = 302
      BY <2>1, <3>1, AnswersFacts
    <3> QED
      BY <1>a, <2>3, <2>6, <3>2 DEF ProxyTypeOK
  <2>9. CallInv(t)'
    BY <1>a, <2>1, <2>5, <2>8
       DEF CallInv, ConnectedToHost, AnsweredByHost, OnTheWay, Arrived, InReply, Texts
  <2> QED
    BY <1>b, <2>1, <2>7, <2>8, <2>9
<1>7. ASSUME NEW t \in Threads, Relocate(t) PROVE ProxyInv'
  <2>1. host_' \in Text
    BY <1>7, CutToText DEF Relocate
  <2>2. /\ at' = [at EXCEPT ![t] = AfterText[at[t]]] /\ at[t] \in Texts
        /\ AfterText[at[t]] \in {"tail", "name", "body"}
        /\ UNCHANGED <<connected, named, answer, response, returned, calls, together, terminated>>
    BY <1>7 DEF Relocate, AfterText, Texts
  <2>3. ProxyTypeOK'
    BY <1>a, <2>1, <2>2 DEF ProxyTypeOK, Texts
  <2>4. at'[t] \in {"tail", "name", "body"} /\ \A u \in Threads \ {t} : at'[u] = at[u]
    BY <1>a, <2>2 DEF ProxyTypeOK
  <2>5. CallInv(t)'
    BY <1>a, <2>2, <2>4
       DEF CallInv, ConnectedToHost, AnsweredByHost, OnTheWay, Arrived, InReply, Texts
  <2> QED
    BY <1>b, <2>2, <2>3, <2>4, <2>5
<1>8. ASSUME NEW t \in Threads, ReadBody(t) PROVE ProxyInv'
  <2>1. /\ at[t] = "body" /\ connected[t].of \in Hosts
        /\ UNCHANGED <<host_, connected, named, answer, calls, together, terminated>>
        /\ answer[t].code = 302 <=> connected[t].of \in Redirects
    BY <1>8, <1>a, AnswersFacts
       DEF ReadBody, CallInv, ConnectedToHost, AnsweredByHost, InReply
  <2>2. response[t] \in Responses /\ response \in [Threads -> Responses]
    BY <1>a DEF ProxyTypeOK, Responses
  <2>3. PICK b \in Hosts \cup {NoHost} :
          /\ response' = [response EXCEPT ![t].body = b]
          /\ b = IF answer[t].early THEN response[t].body ELSE connected[t].of
    <3> DEFINE b == IF answer[t].early THEN response[t].body ELSE connected[t].of
    <3>1. response' = [response EXCEPT ![t].body = b]
      BY <1>8 DEF ReadBody
    <3>2. b \in Hosts \cup {NoHost}
      BY <2>1, <2>2 DEF Responses
    <3> QED
      BY <3>1, <3>2
  <2>4. response' \in [Threads -> Responses]
    BY <2>2, <2>3 DEF Responses
  <2>5. /\ response'[t].status = response[t].status /\ response'[t].body = b
        /\ response'[t].headers = response[t].headers
    BY <2>2, <2>3 DEF Responses
  <2>6. ProxyTypeOK'
    <3>1. /\ at' \in [Threads -> {"idle", "connect", "request", "status", "headers", "body"}
                                  \cup Texts]
          /\ returned' \in [Threads -> {"none", "OK", "ERROR"}]
      <4>1. \/ at' = [at EXCEPT ![t] = "connect"] /\ returned' = returned
            \/ at' = [at EXCEPT ![t] = "idle"] /\ returned' = [returned EXCEPT ![t] = "OK"]
        BY <1>8 DEF ReadBody
      <4>2. /\ at \in [Threads -> {"idle", "connect", "request", "status", "headers", "body"}
                                    \cup Texts]
            /\ returned \in [Threads -> {"none", "OK", "ERROR"}]
        BY <1>a DEF ProxyTypeOK
      <4>3. CASE at' = [at EXCEPT ![t] = "connect"] /\ returned' = returned
        BY <4>2, <4>3
      <4>4. CASE at' = [at EXCEPT ![t] = "idle"] /\ returned' = [returned EXCEPT ![t] = "OK"]
        BY <4>2, <4>4
      <4> QED
        BY <4>1, <4>3, <4>4
    <3> QED
      BY <1>a, <2>1, <2>4, <3>1 DEF ProxyTypeOK, Responses
  <2>7. /\ answer[t].code = 302 => at'[t] = "connect" /\ returned'[t] = returned[t]
        /\ answer[t].code # 302 => at'[t] = "idle" /\ returned'[t] = "OK"
        /\ \A u \in Threads \ {t} :
             at'[u] = at[u] /\ response'[u] = response[u] /\ returned'[u] = returned[u]
    BY <1>8, <1>a, <2>3 DEF ReadBody, ProxyTypeOK
  <2>8. CallInv(t)'
    BY <1>a, <2>1, <2>3, <2>5, <2>7
       DEF CallInv, ConnectedToHost, AnsweredByHost, OnTheWay, Arrived, InReply, Texts
  <2> QED
    BY <1>b, <2>1, <2>6, <2>7, <2>8
<1>9. ASSUME NEW t \in Threads, ConnectFails(t) \/ LocationThrows(t) \/ HostTorn(t) \/ ReadFails(t) PROVE ProxyInv'
  <2>1. terminated' = TRUE /\ UNCHANGED <<host_, at, connected, named, answer, response,
                                          returned, calls, together>>
    BY <1>9 DEF ConnectFails, LocationThrows, HostTorn, ReadFails, Terminate
  <2>2. \A u \in Threads : CallInv(u)'
    BY <1>a, <2>1, OtherCalls
  <2> QED
    BY <1>a, <2>1, <2>2 DEF ProxyInv, ProxyTypeOK
<1> QED
  BY <1>1, <1>2, <1>3, <1>4, <1>5, <1>6, <1>7, <1>8, <1>9 DEF ProxyNext, Proceed

\* A redirect is followed to the host that answers itself, whatever other
\* calls do to the shared host_ (proxy_handler.cc:35-97).
THEOREM FollowsRedirects == ProxySpec => []FollowsToTheEnd
<1>1. ProxyInv => FollowsToTheEnd
  BY DEF ProxyInv, CallInv, Arrived, FollowsToTheEnd
<1> QED
  BY <1>1, ProxyInvInit, ProxyInvStep, PTL DEF ProxySpec
-----------------------------------------------------------------------------
(***************************************************************************)
(* NamesItsHost.  As long as one call at a time runs, host_ is a name      *)
(* except between the assignments of Relocate, which its call makes in     *)
(* one go, and the host of the request is the one it is sent to.           *)
(***************************************************************************)
OneCall == \A t, u \in Threads : at[t] # "idle" /\ at[u] # "idle" => t = u

\* host_ holds the Location of the call, cut as far as the call has come.
HoldsLocation(t, as) ==
    host_ = [of |-> answer[t].location.to, form |-> answer[t].location.form, as |-> as]

\* After a redirect to "http://host/", host_ is that host.
RedirectedRight(t) ==
    answer[t].location.form = "slash" => host_ = Name(answer[t].location.to)

HostInStep ==
    \A t \in Threads :
        /\ at[t] = "tail" => HoldsLocation(t, "url")
        /\ at[t] = "name" => HoldsLocation(t, "tail")
        /\ at[t] \in {"body", "connect"} => RedirectedRight(t)
        /\ at[t] = "request" => connected[t] = host_
        /\ at[t] \in InReply \cup {"status"} => named[t] = connected[t]

Alone == OneCall /\ HostInStep

AloneInv == ProxyInv /\ (~together => Alone)

\* Every action keeps host_ in step with the one call.
LEMMA AloneStep == AloneInv /\ [ProxyNext]_proxyVars => AloneInv'
<1> SUFFICES ASSUME AloneInv, [ProxyNext]_proxyVars, ~together' PROVE Alone'
  BY ProxyInvStep DEF AloneInv
<1>a. ~together
  BY DEF ProxyNext, Proceed, Call, Connect, ConnectFails, SendRequest, ReadStatus,
     ReadHeaders, Relocate, LocationThrows, ReadBody, HostTorn, ReadFails, Terminate, proxyVars
<1>b. Alone /\ ProxyTypeOK /\ ProxyInv
  BY <1>a DEF AloneInv, ProxyInv
<1> USE DEF ProxyTypeOK, Alone, OneCall, HostInStep, HoldsLocation, RedirectedRight, InReply,
        Texts, Goto
<1>1. CASE UNCHANGED proxyVars
  BY <1>1, <1>b DEF proxyVars
<1>2. ASSUME NEW t \in Threads, Call(t) PROVE Alone'
  <2>1. \A u \in Threads : at[u] = "idle"
    BY <1>2 DEF Call
  <2> QED
    BY <1>2, <1>b, <2>1 DEF Call, NoAnswer, NoLocation
<1>3. ASSUME NEW t \in Threads, Connect(t) PROVE Alone'
  BY <1>3, <1>b DEF Connect
<1>4. ASSUME NEW t \in Threads, SendRequest(t) PROVE Alone'
  BY <1>4, <1>b DEF SendRequest
<1>5. ASSUME NEW t \in Threads, ReadStatus(t) PROVE Alone'
  <2>1. /\ at[t] = "status"
        /\ at' = [at EXCEPT ![t] = "idle"] \/ at' = [at EXCEPT ![t] = "headers"]
        /\ \E x \in Answers(connected[t].of) : answer' = [answer EXCEPT ![t] = x]
        /\ UNCHANGED <<host_, connected, named>>
    BY <1>5 DEF ReadStatus
  <2>2. CASE at' = [at EXCEPT ![t] = "idle"]
    BY <1>b, <2>1, <2>2
  <2>3. CASE at' = [at EXCEPT ![t] = "headers"]
    BY <1>b, <2>1, <2>3
  <2> QED
    BY <2>1, <2>2, <2>3
<1>6. ASSUME NEW t \in Threads, ReadHeaders(t) PROVE Alone'
  BY <1>6, <1>b DEF ReadHeaders
<1>7. ASSUME NEW t \in Threads, Relocate(t) PROVE Alone'
  <2>1. \A u \in Threads \ {t} : at[u] = "idle"
    BY <1>7, <1>b DEF Relocate
  <2>2. answer[t].location \in Locations
    <3>1. /\ connected[t].of \in Hosts
          /\ answer[t] \in Answers(connected[t].of)
          /\ answer[t].code = 302
      BY <1>7, <1>b DEF Relocate, ProxyInv, CallInv, ConnectedToHost, AnsweredByHost
    <3> QED
      BY <3>1, AnswersFacts
  <2>3. CASE at[t] = "url"
    <3>1. /\ HoldsLocation(t, "url")'
          /\ at' = [at EXCEPT ![t] = "tail"]
          /\ UNCHANGED <<connected, named, answer>>
      BY <1>7, <2>3 DEF Relocate, CutTo, AfterText
    <3> QED
      BY <1>b, <2>1, <2>3, <3>1
  <2>4. CASE at[t] = "tail"
    <3>1. HoldsLocation(t, "url")
      BY <1>b, <2>4
    <3>2. /\ HoldsLocation(t, "tail")'
          /\ at' = [at EXCEPT ![t] = "name"]
          /\ UNCHANGED <<connected, named, answer>>
      BY <1>7, <2>4, <3>1 DEF Relocate, CutTo, AfterText
    <3> QED
      BY <1>b, <2>1, <2>4, <3>2
  <2>5. CASE at[t] = "name"
    <3>1. HoldsLocation(t, "tail")
      BY <1>b, <2>5
    <3>2. /\ at' = [at EXCEPT ![t] = "body"]
          /\ UNCHANGED <<connected, named, answer>>
      BY <1>7, <2>5 DEF Relocate, AfterText
    <3>3. RedirectedRight(t)'
      <4> SUFFICES ASSUME answer[t].location.form = "slash"
                   PROVE  host_' = Name(answer[t].location.to)
        BY <3>2
      <4>1. NameIn([to |-> host_.of, form |-> host_.form]) = answer[t].location.to
        BY <3>1 DEF NameIn
      <4>2. answer[t].location.to # NoHost
        BY <2>2, ProxyAssumption DEF Locations
      <4> QED
        BY <1>7, <2>5, <3>1, <4>1, <4>2 DEF Relocate, CutTo
    <3> QED
      BY <1>b, <2>1, <2>5, <3>2, <3>3
  <2> QED
    BY <1>7, <2>3, <2>4, <2>5 DEF Relocate
<1>8. ASSUME NEW t \in Threads, ReadBody(t) PROVE Alone'
  <2>1. /\ at[t] = "body"
        /\ at' = [at EXCEPT ![t] = "idle"] \/ at' = [at EXCEPT ![t] = "connect"]
        /\ UNCHANGED <<host_, connected, named, answer>>
    BY <1>8 DEF ReadBody
  <2>2. CASE at' = [at EXCEPT ![t] = "idle"]
    BY <1>b, <2>1, <2>2
  <2>3. CASE at' = [at EXCEPT ![t] = "connect"]
    BY <1>b, <2>1, <2>3
  <2> QED
    BY <2>1, <2>2, <2>3
<1>9. ASSUME NEW t \in Threads, ConnectFails(t) \/ LocationThrows(t) \/ HostTorn(t) \/ ReadFails(t) PROVE Alone'
  BY <1>9, <1>b DEF ConnectFails, LocationThrows, HostTorn, ReadFails, Terminate
<1> QED
  BY <1>1, <1>2, <1>3, <1>4, <1>5, <1>6, <1>7, <1>8, <1>9 DEF ProxyNext, Proceed

\* One call at a time sends its request with the right "Host:" line, and a
\* redirect to "http://host/" leads it to that host, with Locations of any
\* other form in between (proxy_handler.cc:35-97).
THEOREM HostNamed == ProxySpec => []NamesItsHost
<1>1. ProxyInit => Alone
  BY DEF ProxyInit, Alone, OneCall, HostInStep, InReply, Texts
<1>2. AloneInv => NamesItsHost
  BY DEF AloneInv, Alone, HostInStep, RedirectedRight, InReply, NamesItsHost
<1> QED
  BY <1>1, <1>2, ProxyInvInit, AloneStep, PTL DEF ProxySpec, AloneInv
-----------------------------------------------------------------------------
(***************************************************************************)
(* RedirectSticks.  It fails where a Location names the host of the config *)
(* again, so that is excluded: nothing else could bring host_ back there.  *)
(***************************************************************************)
NoWayBack == \A h \in Hosts : \A l \in Location[h] : NameIn(l) # Configured

\* The Location in host_ is one that a host has given.
HostGiven ==
    host_.as \in {"url", "tail"} =>
        \E h \in Hosts : [to |-> host_.of, form |-> host_.form] \in Location[h]

GivenInv == ProxyInv /\ HostGiven

\* Every assignment to host_ keeps it so, and none names the host of the config.
LEMMA GivenStep ==
    ASSUME GivenInv, [ProxyNext]_proxyVars
    PROVE  HostGiven' /\ (NoWayBack => [host_ # Name(Configured)
                                         => host_' # Name(Configured)]_host_)
<1>1. CASE host_' = host_
  BY <1>1 DEF GivenInv, HostGiven
<1>2. CASE host_' # host_
  <2>1. PICK t \in Threads : Relocate(t)
    BY <1>2 DEF ProxyNext, Proceed, Call, Connect, ConnectFails, SendRequest, ReadStatus,
       ReadHeaders, LocationThrows, ReadBody, HostTorn, ReadFails, Terminate, proxyVars
  <2>2. PICK h \in Hosts : answer[t].location \in Location[h] /\ answer[t].location \in Locations
    <3>1. /\ connected[t].of \in Hosts
          /\ answer[t] \in Answers(connected[t].of)
          /\ answer[t].code = 302
      BY <2>1 DEF Relocate, GivenInv, ProxyInv, CallInv, ConnectedToHost, AnsweredByHost, InReply
    <3> QED
      BY <3>1, AnswersFacts
  <2>3. CASE at[t] = "url"
    <3>1. host_' = [of |-> answer[t].location.to, form |-> answer[t].location.form, as |-> "url"]
      BY <2>1, <2>3 DEF Relocate, CutTo
    <3>2. [to |-> host_'.of, form |-> host_'.form] = answer[t].location
      BY <2>2, <3>1 DEF Locations
    <3>3. host_'.as = "url"
      BY <3>1
    <3>4. host_' # Name(Configured)
      BY <3>3 DEF Name
    <3> QED
      BY <2>2, <3>2, <3>4 DEF HostGiven
  <2>4. CASE at[t] = "tail" /\ host_.as = "url"
    <3>1. host_' = [host_ EXCEPT !.as = "tail"]
      BY <2>1, <2>4 DEF Relocate, CutTo
    <3>2. host_ \in [of : Hosts, form : Forms, as : {"url", "tail"}]
      BY <2>4 DEF GivenInv, ProxyInv, ProxyTypeOK, Text, Name, Mangled
    <3>3. host_'.of = host_.of /\ host_'.form = host_.form /\ host_'.as = "tail"
      BY <3>1, <3>2
    <3>4. host_' # Name(Configured)
      BY <3>3 DEF Name
    <3> QED
      BY <2>4, <3>3, <3>4 DEF GivenInv, HostGiven
  <2>5. CASE at[t] = "name" /\ host_.as = "tail"
    <3> DEFINE n == NameIn([to |-> host_.of, form |-> host_.form])
    <3>1. host_' = IF n = NoHost THEN Mangled ELSE Name(n)
      BY <2>1, <2>5 DEF Relocate, CutTo
    <3>2. NoWayBack => n # Configured
      BY <2>5 DEF GivenInv, HostGiven, NoWayBack
    <3> HIDE DEF n
    <3>3. host_'.as \notin {"url", "tail"} /\ (NoWayBack => host_' # Name(Configured))
      BY <3>1, <3>2 DEF Mangled, Name
    <3> QED
      BY <3>3 DEF HostGiven
  <2>6. CASE host_' = Mangled
    BY <2>6 DEF HostGiven, Mangled, Name
  <2> QED
    BY <2>1, <2>3, <2>4, <2>5, <2>6 DEF Relocate, CutTo, Texts
<1> QED
  BY <1>1, <1>2

\* Once host_ has been redirected, every later call starts where it led
\* (proxy_handler.cc:79-81 assign the member, which nothing resets).
THEOREM RedirectsStick ==
    ASSUME NoWayBack
    PROVE  ProxySpec => RedirectSticks
<1>1. ProxyInit => GivenInv
  BY ProxyInvInit DEF ProxyInit, Name, GivenInv, HostGiven
<1>2. GivenInv /\ [ProxyNext]_proxyVars => GivenInv'
  BY GivenStep, ProxyInvStep DEF GivenInv
<1>3. GivenInv /\ [ProxyNext]_proxyVars
        => [host_ # Name(Configured) => host_' # Name(Configured)]_host_
  BY GivenStep, NoWayBack
<1> QED
  BY <1>1, <1>2, <1>3, PTL DEF ProxySpec, RedirectSticks
=============================================================================
