---------------------------- MODULE ProxyHandler ----------------------------
(***************************************************************************)
(* ProxyHandler::HandleRequest (proxy_handler.cc): the request is sent on  *)
(* to the host host_, and again for as long as the answer is a redirect,   *)
(* which changes host_.  One handler object serves all threads, and host_  *)
(* is a member of it: a redirect that one call meets moves all of them.    *)
(*                                                                         *)
(* What the host of each name answers is part of the environment; whether  *)
(* it redirects does not change while the server runs, but it may redirect *)
(* with any of several Locations.  The code cuts a Location by position,   *)
(* so its form decides what is left of it.                                 *)
(*                                                                         *)
(* Bound: MaxCalls, the calls of HandleRequest in a behaviour.             *)
(***************************************************************************)
EXTENDS Integers, FiniteSets

CONSTANTS
    Threads,    \* the threads that call HandleRequest
    Hosts,      \* the names of hosts
    Configured, \* the host of the config
    Location,   \* the Locations each host may redirect with; none: it does not
    NoHost,
    OtherName,  \* the host whose name a Location cut wrongly happens to leave
    Faults,     \* what may go wrong outside: "connect", "garbage", "reset"
    MaxCalls    \* bound

\* The forms of a Location, as a host sends it:
\*   slash     "http://host/", or "//host/"
\*   noslash   "http://host"
\*   path      "http://host/more", "http://host:8080/"
\*   relative  "/more" or "/", without host: the same host is meant
\*   short     nothing at all, or nothing behind the scheme
\*   missing   the redirect has no such header, or spells it "location"
Forms == {"slash", "noslash", "path", "relative", "short", "missing"}
Locations == [to : Hosts, form : Forms]
NoLocation == [to |-> NoHost, form |-> "missing"]

ASSUME ProxyAssumption ==
    /\ Configured \in Hosts
    /\ NoHost \notin Hosts
    /\ Location \in [Hosts -> SUBSET Locations]
    /\ OtherName \in [Locations -> Hosts \cup {NoHost}]
    /\ MaxCalls \in Nat

\* The texts host_ goes through (lines 79-81): the whole Location, without
\* what is up to the first ":" and two more characters, without its last two
\* characters.  Only the last may be a name.
Texts == {"url", "tail", "name"}
Name(h) == [of |-> h, form |-> "name", as |-> "name"]
NoText == [of |-> NoHost, form |-> "none", as |-> "none"]
Mangled == [of |-> NoHost, form |-> "none", as |-> "mangled"]
Text == [of : Hosts, form : Forms, as : {"url", "tail"}] \cup {Name(h) : h \in Hosts}
            \cup {Mangled}

VARIABLES
    host_,      \* the member
    at,         \* where each thread is in HandleRequest
    connected,  \* what each thread has resolved and connected to
    named,      \* what its "Host:" line says
    answer,     \* what the host has answered
    response,   \* the Response each thread fills
    returned,   \* what HandleRequest has returned to each thread
    calls,      \* history: how many calls have begun
    together,   \* history: whether two calls ever ran together
    terminated  \* an exception left HandleRequest, or host_ was torn

proxyVars == <<host_, at, connected, named, answer, response, returned, calls,
               together, terminated>>

NoAnswer == [code |-> 0, early |-> FALSE, location |-> NoLocation]
Empty == [status |-> 0, headers |-> {}, body |-> NoHost]

ProxyInit ==
    /\ host_ = Name(Configured)
    /\ at = [t \in Threads |-> "idle"]
    /\ connected = [t \in Threads |-> NoText]
    /\ named = [t \in Threads |-> NoText]
    /\ answer = [t \in Threads |-> NoAnswer]
    /\ response = [t \in Threads |-> Empty]
    /\ returned = [t \in Threads |-> "none"]
    /\ calls = 0
    /\ together = FALSE
    /\ terminated = FALSE

Goto(t, a) == at' = [at EXCEPT ![t] = a]
-----------------------------------------------------------------------------
\* Wrong: a call goes back to the host of the config.
CallAfresh(t) ==
    /\ at[t] = "idle"
    /\ calls < MaxCalls                             \* bound
    /\ calls' = calls + 1
    /\ together' = (together \/ \E u \in Threads \ {t} : at[u] # "idle")
    /\ Goto(t, "connect")
    /\ connected' = [connected EXCEPT ![t] = NoText]
    /\ named' = [named EXCEPT ![t] = NoText]
    /\ answer' = [answer EXCEPT ![t] = NoAnswer]
    /\ response' = [response EXCEPT ![t] = Empty]
    /\ returned' = [returned EXCEPT ![t] = "none"]
    /\ host_' = Name(Configured)
    /\ UNCHANGED terminated

Call(t) ==
    /\ at[t] = "idle"
    /\ calls < MaxCalls                             \* bound
    /\ calls' = calls + 1
    /\ together' = (together \/ \E u \in Threads \ {t} : at[u] # "idle")
    /\ Goto(t, "connect")
    /\ connected' = [connected EXCEPT ![t] = NoText]
    /\ named' = [named EXCEPT ![t] = NoText]
    /\ answer' = [answer EXCEPT ![t] = NoAnswer]
    /\ response' = [response EXCEPT ![t] = Empty]
    /\ returned' = [returned EXCEPT ![t] = "none"]
    /\ UNCHANGED <<host_, terminated>>

\* resolve and connect: a text that is no name does not resolve.
Connect(t) ==
    /\ at[t] = "connect"
    /\ host_.as = "name"
    /\ connected' = [connected EXCEPT ![t] = host_]
    /\ Goto(t, "request")
    /\ UNCHANGED <<host_, named, answer, response, returned, calls, together, terminated>>

Terminate == terminated' = TRUE /\ UNCHANGED <<host_, at, connected, named, answer,
                                               response, returned, calls, together>>

ConnectFails(t) ==
    /\ at[t] = "connect"
    /\ host_.as # "name" \/ "connect" \in Faults
    /\ Terminate

\* The request reads host_ a second time.
SendRequest(t) ==
    /\ at[t] = "request"
    /\ named' = [named EXCEPT ![t] = host_]
    /\ Goto(t, "status")
    /\ UNCHANGED <<host_, connected, answer, response, returned, calls, together, terminated>>

Redirects == {h \in Hosts : Location[h] # {}}

\* What a host may answer: its status, its Location, and whether read_until
\* got the whole body along with the headers.
Answers(h) ==
    [code : {302}, early : BOOLEAN, location : Location[h]]
        \cup [code : IF h \in Redirects THEN {} ELSE {200, 404}, early : BOOLEAN,
              location : {NoLocation}]
        \cup IF "garbage" \in Faults THEN {NoAnswer} ELSE {}

SetStatus(code) == IF code = 200 THEN 200 ELSE 404

ReadStatus(t) ==
    /\ at[t] = "status"
    /\ \E a \in Answers(connected[t].of) :
         /\ answer' = [answer EXCEPT ![t] = a]
         /\ IF a = NoAnswer
            THEN /\ response' = [response EXCEPT ![t].status = 500]
                 /\ returned' = [returned EXCEPT ![t] = "ERROR"]
                 /\ Goto(t, "idle")
            ELSE /\ response' = [response EXCEPT ![t].status = SetStatus(a.code)]
                 /\ Goto(t, "headers")
                 /\ UNCHANGED returned
    /\ UNCHANGED <<host_, connected, named, calls, together, terminated>>

ReadHeaders(t) ==
    /\ at[t] = "headers"
    /\ response' = [response EXCEPT ![t].headers = @ \cup {connected[t].of}]
    /\ Goto(t, IF answer[t].location.form # "missing" THEN "url" ELSE "body")
    /\ UNCHANGED <<host_, connected, named, answer, returned, calls, together, terminated>>

\* Wrong: leaves the "/" and the "\r" at the end.
AfterTextUncut == [url |-> "tail", tail |-> "body", name |-> "body"]

AfterText == [url |-> "tail", tail |-> "name", name |-> "body"]

\* Wrong: stays where it is.
CutToItself(text, l) ==
    IF text = "name" THEN Name(host_.of) ELSE [of |-> host_.of, form |-> "slash", as |-> text]

\* What is left of a Location: its host, if just "http:", "//" and "/" stand
\* around it and the "\r" behind.  Without the "/" at its end the host loses
\* a letter; a path or a port stays a part of the text; from "/more" the
\* middle is left, and from "/" nothing, which resolves to this machine.
NameIn(l) ==
    CASE l.form = "slash" -> l.to
      [] l.form \in {"noslash", "relative"} -> OtherName[l]
      [] OTHER -> NoHost

\* The second and the third assignment cut host_ as they find it: if another
\* call has been there, what is left names no host.
CutTo(text, l) ==
    CASE text = "url" -> [of |-> l.to, form |-> l.form, as |-> "url"]
      [] text = "tail" /\ host_.as = "url" -> [host_ EXCEPT !.as = "tail"]
      [] text = "name" /\ host_.as = "tail" ->
            LET h == NameIn([to |-> host_.of, form |-> host_.form])
            IN IF h = NoHost THEN Mangled ELSE Name(h)
      [] OTHER -> Mangled

\* substr of a position behind the end throws.
TooShort(t) == at[t] = "tail" /\ host_.as = "url" /\ host_.form = "short"

\* The three assignments to host_ of the Location header.
Relocate(t) ==
    /\ at[t] \in Texts
    /\ ~TooShort(t)
    /\ host_' = CutTo(at[t], answer[t].location)
    /\ Goto(t, AfterText[at[t]])
    /\ UNCHANGED <<connected, named, answer, response, returned, calls, together, terminated>>

LocationThrows(t) == TooShort(t) /\ Terminate

\* substr(find(":") + 3) of a text that another call cut meanwhile throws, and
\* a string assigned by two threads, or copied while it is assigned, is torn.
HostTorn(t) ==
    /\ at[t] \in Texts \cup {"connect", "request"}
    /\ \E u \in Threads \ {t} : at[u] \in Texts
    /\ Terminate

\* Wrong: also the redirect's answer is returned.
ReadBodyOnce(t) ==
    /\ at[t] = "body"
    /\ response' = [response EXCEPT ![t].body =
                      IF answer[t].early THEN @ ELSE connected[t].of]
    /\ Goto(t, "idle")
    /\ returned' = [returned EXCEPT ![t] = "OK"]
    /\ UNCHANGED <<host_, connected, named, answer, calls, together, terminated>>

\* read adds what is still to come, and returns 0 if nothing is: then the body
\* that came with the headers is never set.
ReadBody(t) ==
    /\ at[t] = "body"
    /\ response' = [response EXCEPT ![t].body =
                      IF answer[t].early THEN @ ELSE connected[t].of]
    /\ IF answer[t].code = 302
       THEN Goto(t, "connect") /\ UNCHANGED returned
       ELSE Goto(t, "idle") /\ returned' = [returned EXCEPT ![t] = "OK"]
    /\ UNCHANGED <<host_, connected, named, answer, calls, together, terminated>>

ReadFails(t) ==
    /\ "reset" \in Faults
    /\ at[t] \in {"status", "headers", "body"}
    /\ Terminate

Proceed(t) ==
    \/ Connect(t) \/ ConnectFails(t) \/ SendRequest(t) \/ ReadStatus(t)
    \/ ReadHeaders(t) \/ Relocate(t) \/ LocationThrows(t) \/ ReadBody(t)

ProxyNext ==
    /\ ~terminated
    /\ \E t \in Threads : Call(t) \/ Proceed(t) \/ HostTorn(t) \/ ReadFails(t)

\* A thread in HandleRequest goes on, and the hosts answer.
ProxySpec ==
    /\ ProxyInit
    /\ [][ProxyNext]_proxyVars
    /\ \A t \in Threads : WF_proxyVars(~terminated /\ Proceed(t))
-----------------------------------------------------------------------------
ProxyTypeOK ==
    /\ host_ \in Text
    /\ at \in [Threads -> {"idle", "connect", "request", "status", "headers", "body"} \cup Texts]
    /\ connected \in [Threads -> Text \cup {NoText}]
    /\ named \in [Threads -> Text \cup {NoText}]
    /\ answer \in [Threads -> [code : {0, 200, 302, 404}, early : BOOLEAN,
                           location : Locations \cup {NoLocation}]]
    /\ response \in [Threads -> [status : {0, 200, 404, 500}, headers : SUBSET Hosts,
                                 body : Hosts \cup {NoHost}]]
    /\ returned \in [Threads -> {"none", "OK", "ERROR"}]
    /\ calls \in 0 .. MaxCalls
    /\ together \in BOOLEAN
    /\ terminated \in BOOLEAN

\* Whatever redirects other calls follow at the same time: what a call returns
\* as OK comes from a host that does not redirect, its status is that host's,
\* its headers include that host's, and the body is that host's as far as it
\* was read after the headers (proxy_handler.cc:88).
FollowsToTheEnd ==
    /\ ProxyTypeOK
    /\ \A t \in Threads :
        at[t] = "idle" /\ returned[t] = "OK" =>
            /\ connected[t].of \notin Redirects
            /\ connected[t].of \in response[t].headers
            /\ response[t].status = SetStatus(answer[t].code)
            /\ ~answer[t].early => response[t].body = connected[t].of

\* The client gets the body of the host that answers, as
\* reverse_proxy_integration_test.sh:8-14 and reverse_proxy_302_test.sh:7-13
\* compare it with the one that the host gives directly.
ReturnsTheBody ==
    \A t \in Threads :
        at[t] = "idle" /\ returned[t] = "OK" => response[t].body = connected[t].of

\* A redirect is for good: once host_ is no longer the configured host, no
\* call, not even one that has started from there, brings it back, and every
\* later request, of any client, starts where the redirect led.
RedirectSticks ==
    [][host_ # Name(Configured) => host_' # Name(Configured)]_host_

\* With hosts that give a Location with each redirect, and do not redirect in
\* a circle, every call comes to an end, though calls change host_ under each
\* other: there is no limit on hops.
EveryCallEnds ==
    \A t \in Threads : at[t] # "idle" ~> at[t] = "idle" \/ terminated

\* As long as no two calls have run together, a call names the host it is
\* connected to, and a redirect to "http://host/" leads to that host, whatever
\* failed in the calls before it (proxy_handler.cc:79-81).
NamesItsHost ==
    ~together => \A t \in Threads :
        /\ at[t] = "connect" /\ answer[t].location.form = "slash" =>
              host_ = Name(answer[t].location.to)
        /\ at[t] \in {"status", "headers", "body"} => named[t] = connected[t]
=============================================================================
