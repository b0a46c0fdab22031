---------------------------- MODULE ServerStatus ----------------------------
(***************************************************************************)
(* The request statistics shared by the worker threads (server_status.cc): *)
(* the two-level map server_status_ (uri, then status code, to a count),   *)
(* the total num_requests_, UpdateStatus, which changes them, and ToHtml,  *)
(* which reads them to make the status page.  Neither function takes a     *)
(* lock and the Makefile compiles without optimisation, so a step here is  *)
(* one access to memory another thread can see.                            *)
(*                                                                         *)
(* The module is the most general client of the class: any idle thread may *)
(* start an update for any key, or a page.  Server.tla composes it with    *)
(* the threads that really call it.                                        *)
(*                                                                         *)
(* Bounds: MaxCalls (updates in a behaviour), Wrap (2^w of the unsigned).  *)
(***************************************************************************)
EXTENDS Integers, FiniteSets

CONSTANTS
    Threads,    \* the threads that run io_service::run
    Uris,       \* the uris requests carry
    Codes,      \* the codes ResponseCodeToString returns
    Wrap,       \* the number of values of an unsigned
    MaxCalls    \* bound: how many updates are started

ASSUME StatusAssumption == Wrap \in Nat \ {0, 1} /\ MaxCalls \in Nat

VARIABLES
    nodes,          \* server_status_: the keys that are in the map ...
    count,          \* ... and the count each of them holds
    num_requests,   \* num_requests_
    step,           \* how far each thread is in UpdateStatus or ToHtml
    key,            \* the uri and code each thread updates
    reg,            \* the value each thread has loaded and not yet stored
    page,           \* the status page each thread makes, or made last
    crashed,        \* the process died on a torn tree
    finished,       \* history: how many updates have returned
    tallied,        \* history: how many updates have counted each key
    overlapped      \* history: whether two updates ever ran together

counters == <<nodes, count, num_requests>>
control  == <<step, key, reg>>
history  == <<finished, tallied, overlapped>>
statusVars == <<nodes, count, num_requests, step, key, reg, page, crashed,
                finished, tallied, overlapped>>

Keys == Uris \X Codes
Count == 0 .. Wrap - 1

Page == [total : Count, todo : SUBSET Keys, listed : Nat, torn : BOOLEAN]
NoKey == << >>
NoPage == [total |-> 0, todo |-> {}, listed |-> 0, torn |-> FALSE]

UpdateSteps == {"lookup", "insert", "inserting", "assign", "orphan",
                "load", "store", "loadnum", "storenum"}

Updating == {t \in Threads : step[t] \in UpdateSteps}

\* The map of uris holds a map of codes for each uri: linking a key into a
\* new uri's map rebalances the outer tree, otherwise only that uri's tree.
Rebalances(u, k) ==
    /\ step[u] = "inserting"
    /\ \/ key[u][1] = k[1]
       \/ key[u][1] \notin {n[1] : n \in nodes}

\* Another thread is relinking a tree that the path to k goes through.
Racing(t, k) == \E u \in Threads \ {t} : Rebalances(u, k)

\* Wrong: does not wrap.
IncWide(n) == n + 1

\* Unsigned arithmetic.
Inc(n) == IF n = Wrap - 1 THEN 0 ELSE n + 1

StatusInit ==
    /\ nodes = {}
    /\ count = [k \in Keys |-> 0]
    /\ num_requests = 0
    /\ step = [t \in Threads |-> "idle"]
    /\ key = [t \in Threads |-> NoKey]
    /\ reg = [t \in Threads |-> 0]
    /\ page = [t \in Threads |-> NoPage]
    /\ crashed = FALSE
    /\ finished = 0
    /\ tallied = [k \in Keys |-> 0]
    /\ overlapped = FALSE
-----------------------------------------------------------------------------
(* UpdateStatus *)

Goto(t, s) == step' = [step EXCEPT ![t] = s]

Begin(t, k) ==
    /\ step[t] = "idle"
    /\ finished + Cardinality(Updating) < MaxCalls      \* bound
    /\ Goto(t, "lookup")
    /\ key' = [key EXCEPT ![t] = k]
    /\ overlapped' = (overlapped \/ Updating # {})
    /\ UNCHANGED <<counters, reg, page, crashed, finished, tallied>>

\* Wrong: forgets to look the key up first.
LookupNothing(t) ==
    /\ step[t] = "lookup"
    /\ Goto(t, "insert")
    /\ UNCHANGED <<counters, key, reg, page, crashed, history>>

\* The two calls of count().  A search that runs while the tree is relinked
\* may miss a key that is there.
Lookup(t) ==
    /\ step[t] = "lookup"
    /\ \E found \in {key[t] \in nodes} \cup
                    (IF Racing(t, key[t]) THEN {FALSE} ELSE {}) :
         Goto(t, IF found THEN "load" ELSE "insert")
    /\ UNCHANGED <<counters, key, reg, page, crashed, history>>

\* operator[] of the assignment: the key may have come into the map since.
Insert(t) ==
    /\ step[t] = "insert"
    /\ Goto(t, IF key[t] \in nodes THEN "assign" ELSE "inserting")
    /\ UNCHANGED <<counters, key, reg, page, crashed, history>>

\* The new node, with count 0, is linked.  Two threads that relink one tree
\* may lose any of its nodes, and the node of a key that another thread has
\* linked meanwhile may stay unreachable: what is then assigned is not seen.
Survivors(t) == IF Racing(t, key[t]) THEN SUBSET nodes ELSE {nodes}
Reachable(t) == IF Racing(t, key[t]) \/ key[t] \in nodes THEN BOOLEAN ELSE {TRUE}

\* Wrong: the new node already counts the request.
LinkIntoCounted(t, kept, mine) ==
    /\ nodes' = IF mine THEN kept \cup {key[t]} ELSE kept
    /\ count' = [n \in Keys |-> IF n = key[t] /\ mine THEN 1
                               ELSE IF n \in kept THEN count[n] ELSE 0]
    /\ Goto(t, IF mine THEN "assign" ELSE "orphan")

LinkInto(t, kept, mine) ==
    /\ nodes' = IF mine THEN kept \cup {key[t]} ELSE kept
    /\ count' = [n \in Keys |->
                   IF n \in kept /\ ~(mine /\ n = key[t]) THEN count[n] ELSE 0]
    /\ Goto(t, IF mine THEN "assign" ELSE "orphan")

Link(t) ==
    /\ step[t] = "inserting"
    /\ \E kept \in Survivors(t), mine \in Reachable(t) : LinkInto(t, kept, mine)
    /\ page' = [u \in Threads |->
                  IF step[u] = "page" THEN [page[u] EXCEPT !.torn = TRUE]
                                      ELSE page[u]]
    /\ UNCHANGED <<num_requests, key, reg, crashed, history>>

\* An update has written the count of its key, wherever that went.
Tally(t) == tallied' = [tallied EXCEPT ![key[t]] = @ + 1]

\* server_status_[uri][code] = 1
Assign(t) ==
    /\ step[t] \in {"assign", "orphan"}
    /\ count' = IF step[t] = "assign" /\ key[t] \in nodes
                THEN [count EXCEPT ![key[t]] = 1] ELSE count
    /\ Tally(t)
    /\ Goto(t, "loadnum")
    /\ UNCHANGED <<nodes, num_requests, key, reg, page, crashed, finished,
                   overlapped>>

\* server_status_[uri][code]++, whose operator[] inserts a key lost since.
Load(t) ==
    /\ step[t] = "load"
    /\ IF key[t] \in nodes
       THEN /\ reg' = [reg EXCEPT ![t] = count[key[t]]]
            /\ Goto(t, "store")
       ELSE /\ reg' = reg
            /\ Goto(t, "insert")
    /\ UNCHANGED <<counters, key, page, crashed, history>>

Store(t) ==
    /\ step[t] = "store"
    /\ count' = IF key[t] \in nodes
                THEN [count EXCEPT ![key[t]] = Inc(reg[t])] ELSE count
    /\ Tally(t)
    /\ Goto(t, "loadnum")
    /\ UNCHANGED <<nodes, num_requests, key, reg, page, crashed, finished,
                   overlapped>>

\* num_requests_++
LoadNum(t) ==
    /\ step[t] = "loadnum"
    /\ reg' = [reg EXCEPT ![t] = num_requests]
    /\ Goto(t, "storenum")
    /\ UNCHANGED <<counters, key, page, crashed, history>>

StoreNum(t) ==
    /\ step[t] = "storenum"
    /\ num_requests' = Inc(reg[t])
    /\ finished' = finished + 1
    /\ Goto(t, "idle")
    /\ key' = [key EXCEPT ![t] = NoKey]
    /\ reg' = [reg EXCEPT ![t] = 0]
    /\ UNCHANGED <<nodes, count, page, crashed, tallied, overlapped>>
-----------------------------------------------------------------------------
(* ToHtml, and ToString likewise: the total is read first, then the map is  *)
(* walked.                                                                  *)

BeginPage(t) ==
    /\ step[t] = "idle"
    /\ Goto(t, "page")
    /\ page' = [page EXCEPT ![t] = [total |-> num_requests, todo |-> nodes,
                                    listed |-> 0, torn |-> FALSE]]
    /\ UNCHANGED <<counters, key, reg, crashed, history>>

Visit(p, k) == [total |-> p.total, todo |-> p.todo \ {k},
                listed |-> p.listed + count[k], torn |-> p.torn]

ReadEntry(t, k) ==
    /\ step[t] = "page"
    /\ k \in page[t].todo
    /\ page' = [page EXCEPT ![t] = Visit(@, k)]
    /\ UNCHANGED <<counters, control, crashed, history>>

\* Wrong: the total is read after the lists.
EndPageLateTotal(t) ==
    /\ step[t] = "page"
    /\ page[t].todo = {} \/ page[t].torn
    /\ Goto(t, "idle")
    /\ page' = [page EXCEPT ![t].total = num_requests]
    /\ UNCHANGED <<counters, key, reg, crashed, history>>

\* An iterator whose tree was relinked under it may skip what is left.
EndPage(t) ==
    /\ step[t] = "page"
    /\ page[t].todo = {} \/ page[t].torn
    /\ Goto(t, "idle")
    /\ UNCHANGED <<counters, key, reg, page, crashed, history>>
-----------------------------------------------------------------------------
\* A thread that follows the links of a tree another thread is relinking may
\* also follow a bad one.
TreeRace(t) ==
    /\ \/ /\ step[t] \in {"lookup", "insert", "inserting", "load"}
          /\ Racing(t, key[t])
       \/ /\ step[t] = "page"
          /\ \E u \in Threads : step[u] = "inserting"
    /\ crashed' = TRUE
    /\ UNCHANGED <<counters, control, page, history>>

UpdateStep(t) ==
    \/ Lookup(t) \/ Insert(t) \/ Link(t) \/ Assign(t)
    \/ Load(t) \/ Store(t) \/ LoadNum(t) \/ StoreNum(t)

PageStep(t) == BeginPage(t) \/ (\E k \in Keys : ReadEntry(t, k)) \/ EndPage(t)

StatusNext ==
    /\ ~crashed
    /\ \E t \in Threads :
         (\E k \in Keys : Begin(t, k)) \/ UpdateStep(t) \/ PageStep(t) \/ TreeRace(t)

StatusSpec == StatusInit /\ [][StatusNext]_statusVars
-----------------------------------------------------------------------------
\* What each variable holds, and that a thread in UpdateStatus has a key.
TypeOK ==
    /\ nodes \subseteq Keys
    /\ count \in [Keys -> Count]
    /\ num_requests \in Count
    /\ step \in [Threads -> UpdateSteps \cup {"idle", "page"}]
    /\ key \in [Threads -> Keys \cup {NoKey}]
    /\ \A t \in Updating : key[t] \in Keys
    /\ reg \in [Threads -> Count]
    /\ page \in [Threads -> Page]
    /\ crashed \in BOOLEAN
    /\ finished \in Nat
    /\ tallied \in [Keys -> Nat]
    /\ overlapped \in BOOLEAN

\* Whatever the threads do to each other - lost increments, a key inserted
\* twice, a node lost with its count - no counter of UpdateStatus ever shows
\* more requests than have been counted.
NeverOvercounts ==
    /\ num_requests =< finished
    /\ \A k \in Keys : count[k] =< tallied[k]

\* As long as no two updates have run together, the check-then-insert of
\* UpdateStatus and its two increments count every request exactly once, and
\* a wrapped unsigned is the only way to lose one.  (A page may run at any
\* time: ToHtml does not disturb the counters.)
SerialCountsExact ==
    ~overlapped /\ finished < Wrap =>
        /\ num_requests = finished
        /\ \A k \in Keys : tallied[k] < Wrap => count[k] = tallied[k]

\* UpdateStatus changes the map before the total and ToHtml reads the total
\* before the map: a page made while requests are counted one at a time never
\* announces more requests than its lists add up to, whatever update ran
\* between its reads (until a count wraps).
PageNeverAhead ==
    ~overlapped /\ finished < Wrap /\ (\A k \in Keys : tallied[k] < Wrap) =>
        \A t \in Threads :
            step[t] # "page" /\ ~page[t].torn => page[t].total =< page[t].listed
=============================================================================
