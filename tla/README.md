# spaceteam in TLA+

Models, model checks and proofs of the spaceteam web server. File names below
are those of the repository (`src/` holds the server, `config_parser/` the
config parser, `include/` the headers).

## The system

| Component | State | Operations | Talks to |
|---|---|---|---|
| `Server` (`src/server.cc`, `src/main.cc`) | acceptor, five threads in `io_service::run`, the map of handlers, `server_status_` | `makeServer`, `run`, `start_accept`, `handle_accept` | config parser and handlers at start; one pending accept hands on to the next |
| `Connection` (`src/connection.cc`) | socket, 1024 byte buffer | `do_read`, `handle_read`, `do_write`, `handle_write`, `ShortenUriPrefix` | completion handlers called by any thread of the pool; calls `Request::Parse`, a handler, and `UpdateStatus` |
| `ServerStatus` (`src/server_status.cc`) | two-level map of counts, the total, the list of handlers | `UpdateStatus`, `ToHtml` | called by all threads, without a lock |
| Handlers (`src/*_handler.cc`) | the uri prefix and config of each; long lived and shared by all threads | `Init`, `HandleRequest` | files, an S3 script, another host, `ServerStatus` |
| `ProxyHandler` (`src/proxy_handler.cc`) | `host_`, changed by redirects | `HandleRequest` | another host; other threads through `host_` |
| `Request` (`src/request.cc`) | the automaton of the parser, the parsed fields | `Parse`, `consume` | called by `handle_read` |
| `NginxConfigParser` (`config_parser/`) | the stack of open blocks, the last token | `ParseToken`, `Parse`, `ToString` | called by `getServerInfo` |
| `getServerInfo` (`src/server.cc`) | port, path names, two maps | one statement of the config at a time | parser, `CreateByName`, `Init` |
| `Response` (`src/response.cc`) | status, headers, body | `SetStatus`, `ToString` | filled by a handler |
| `StaticHandler` (`src/static_handler.cc`) | its root directory | `HandleRequest` | the file system, Markdown |
| Markdown (`src/markdown/`) | tables of tags filled on first use, shared by all threads; the tokens of one document | `Document::read`, `write` (`_process` and its passes), `isValidTag` | called by `StaticHandler` for a `.md` file |

What is hard: five threads share `ServerStatus`, the handlers and the tables of
the markdown library without locks; a connection is a chain of completion
handlers, any of which may run on any thread; nothing catches an exception;
errors end a chain silently (and the chain of accepts with them); one read is
taken to be one request; and several values (`-1`, an empty response, a word at
the end of a file) stand for something they can also mean literally. The
markdown library walks lists that it changes on the way, with iterators that the
functions it calls move.

## Modules

| Module | Models | Extends / instantiates |
|---|---|---|
| `Routing` | uris, `ShortenUriPrefix`, and what routing should choose | |
| `RouteLoop` | the loop of `handle_read` that chooses a handler, step by step | `Routing` |
| `Handlers` | the outcomes of each handler's `HandleRequest` | `Routing` |
| `HttpService` | what the server promises clients, abstractly | `Handlers` |
| `ServerStatus` | `UpdateStatus` and `ToHtml`, one access to shared memory a step | |
| `Server` | threads, acceptor, connections; `ServerStatus` inlined | `Handlers`; instance of `HttpService` and of `ServerStatus` |
| `ProxyHandler` | `ProxyHandler::HandleRequest` with a shared `host_` | |
| `ConfigParser` | `ParseToken` and `Parse` | |
| `ConfigRoundTrip` | `ToString`, and `config_parser_main.cc` | `ConfigParser` |
| `ServerConfig` | `getServerInfo`, `makeServer`, and the port of the constructor | |
| `RequestParser` | `Request::Parse` and `consume` | |
| `TagTables` | `isValidTag` and the tables it fills, one insertion a step, for any number of threads | |
| `StaticFiles` | `StaticHandler::HandleRequest`, one call to the file system a step, while files change | `TagTables` |
| `Emphasis` | `RawText::_processBoldAndItalicSpans`: pairing the markers of bold and italic | |
| `MarkdownBlocks` | `Document::_process` up to `_processBlocksItems`: HTML, references, headers, rules, lists, quotes, code | |
| `MC...` | small instances for TLC; those of `MCHandling` and `MCServing` begin with one component and go on with the other | the module after `MC`; `MCHandling` extends `MCRouteLoop` and `MCProxyHandler`, `MCServing` `MCServerConfig` and `MCServer`, `MCMarkdown` `MCMarkdownBlocks` and `Emphasis` |
| `SequenceFacts` | facts about sequences that several proofs need: `FlattenSeq` step by step, and induction over an interval stated with a set | |
| `...Proofs` | theorems and their proofs | the module before `Proofs`; `HandlingProofs` extends `RouteLoop` and `ProxyHandler`, `MarkdownProofs` extends `Emphasis` and `MarkdownBlocks`, `ServerProofs` extends `Server` and `ServerConfig` and has an instance of `ServerStatusProofs` |

### How they correspond to the code

*Routing, RouteLoop.* A uri is the sequence of what stands between its slashes:
`/a/b` is `<<"a", "b">>`, `/` is `<<"">>`, and a text without a leading slash is
empty. `Match`, `Shorten` and `UseDefault` are the branches of the `while` loop
and the lookup after it; `Referer` is the loop over the headers before it, whose
last `Referer` wins and whose `substr` throws when there is no slash.

*Server.* `phase` says which operation of a connection is pending or running,
`completion` how it ended; `at` and `job` say what each thread does and for
whom. `Dispatch` is `io_service::run` calling a completion handler:
`HandleAccept`, `HandleRead` or `HandleWrite`, or the error branch of each.
What a thread does between two points where others may notice is one action:
after `HandleAccept` (which starts the read) comes `StartAccept`, after
`HandleRead` (parse and routing) `Respond`, then `DoWrite`, then `Update` and the
steps of `UpdateStatus`, then `ReadHandled`. `handle_write` may therefore run on
another thread before `UpdateStatus` is done, as it may in the code. A response
takes one or two writes; what the second one sends is `"text"` or `"garbage"`,
because the buffer it reads is gone.
An exception ends the process, as nothing catches it.

*ServerStatus.* `Begin`, `Lookup`, `Insert`, `Link`, `Assign`, `Load`, `Store`,
`LoadNum`, `StoreNum` are the accesses of `UpdateStatus`, in the order of the
code; the build does not optimise, so each source expression is its own access.
While one thread relinks the tree of the map, what others see of it is a
nondeterministic choice over the outcomes of such a race, death of the process
included (`TreeRace`). `ToHtml` reads the total and then the entries, in any
order between the updates of others.

*Handlers, HttpService.* For each handler, the set of responses it may give for a
uri, with the value it returns and whether the response was touched at all. A
handler that returns `ERROR` before `SetStatus` leaves `raw_status_` unset: the code
counted is then any of those `ResponseCodeToString` returns. `HttpService` promises
what request_handler.h:26-29 says: the response of the handler, or a 500 where it
fails. `Server` implements it because a response with an empty status line is no
HTTP response (`Replied`): such a client is left without one, as `HttpService`
allows, which promises safety only. That it is not the 500 is `FailureAnswers500`.

*ProxyHandler.* `host_` goes through the three assignments of lines 79-81, each a
step: the whole `Location`, without its scheme, without its end. What that leaves
depends on the form of the `Location` (`Forms`, `NameIn`): its host only if that is
`http://host/`; a name without its last letter if there is no slash; a text that
is no name if there is a path or a port; whatever stands in the middle of one
without a host; and one too short throws (`LocationThrows`). A redirect without the
header leaves `host_` alone. The name that a wrong cut happens to leave is a
constant, `OtherName`. Two calls that assign, or assign and read, at once may end
the process (`HostTorn`).

*ConfigParser.* One action per case of the two functions; `ParseToken` is taken
character by character. The tree is kept as the list of statements with their
depth. Undefined behaviour (`top` of an empty stack) ends in `"undefined"`.

*ServerConfig.* One action for what each kind of statement does when all is well
and one for the ways it fails; `"undefined"` is an access past the end of
`tokens_` or a call through the null pointer of `CreateByName`.

*RequestParser.* A client writes the text of a request part by part
(`NextPart`), one character a step, and one character of it may be spoiled. The
same step consumes the character: one action per group of states of `consume`
that go together. A read may find only the beginning of the text, so every state
is one `Parse` may return in.

*TagTables, StaticFiles.* `IsValidTag` is the call, `Check` the test of
`blockTags.empty()`, `Fill` one insertion of `initTag`, `Found` and `NotFound` a
`find`. What is left of a table that two threads insert into at once, and what a
`find` meanwhile gives, is any of the outcomes of that race. A thread of
`StaticFiles` takes one step for `exists`, `is_regular_file`, each `canonical`, the
opening and the reading; between any two of them a file may be replaced, removed,
turned into a directory, `locked` (it may not be read) or `barred` (it cannot be
looked at: a name too long, a directory that may not be searched, links in a
circle), or the whole root may go. `exists`, `is_regular_file` and `canonical`
throw for what is barred, `canonical` also for what is not there. A path is below
the root or beside it: with no slash between `root_` and the rest of the uri, the
file named is `filesa`, not `files/a` (`RelativePath`), though the one below is meant
(`Meant`). A document looks up one tag of its choice.

*Emphasis.* A text is the sequence of its markers, each an open- or close-marker
of a character and a size; the model starts after the loop that finds them.
`markers` is the heap and `tgt` the list of pointers into it. The inner loop is
`PassOver`, `SplitClose` (which goes on), `Match` and `SplitOpen` (which leave it);
the second loop is `PushOpen`, `PopMatch`, `Unmatch` and `SkipUnmatched`.

*MarkdownBlocks.* A line is what stands between its spaces with the number of
spaces before each, spaces at its end included, which is what makes a bullet with
nothing behind it, or a blank line of eight spaces; the text `*em*` stands for what
begins with a star but is not one. The regular expressions become predicates on that
(`IsUnordered`, `StartsSublist`, `QuoteLevel`, ...), each with what its spaces and
backtracking let through. Each pass is a walk over one list, the third a stack of
frames, for `_processBlocksItems` calls itself for each block and
`parseListBlock` itself for each sublist. Every token carries the numbers of the
lines it came from, which is what the properties are about. A failed `assert` ends
in `"assert"`, the use of what is not there in `"undefined"`.

## Checks

| Run | Question and instance |
|---|---|
| `StatusTwo` | Two threads, two uris, one code, four updates, counters of three values: `NeverOvercounts`, `SerialCountsExact`, `PageNeverAhead`. |
| `ServerFaults` | Two threads, three connections, all faults; one request that goes to StatusHandler, StaticHandler, the default handler or none, by how much of it is read: `OneThreadPerRequest`, `EveryWriteIsCounted`, `OneAccept`, `ExitOnlyAfterDrain`, and that `Server` implements `HttpService` and the client of `ServerStatus`. |
| `ServerServes` | Every config of up to three of eighteen statements: `HandlersAsConfigured`, `ListedUnderItsHandler`, `ListensOnItsPort`. The server of one more config, with `/hold` and `/echo`, two threads and four connections, runs: `EveryRequestAnswered`. |
| `ServerDelivery` | *Violated*: `DeliveredIntact`. |
| `ServerFailure` | *Violated*, without faults: `FailureAnswers500`. |
| `ConfigText` | Every file of up to six of eight characters, parsed, printed, parsed again: `ConfigIsTree`, `AcceptsTheGrammar`, `NothingLeftOut`, `WritesWhatItRead`. |
| `RequestCut` | Requests with no, one and folded headers, cut anywhere or with one character spoiled: `BackIsThere`, `KeepsABeginning`, `GoodWhenTheHeadIs`. |
| `HandlingTogether` | Nested uris, `/` and an entry that ends in a slash, no default; every uri of up to three segments with empty ones, and pairs of Referers: `LongestPrefixWins`, `Terminates`. Behind one of them ProxyHandler: two threads, two calls, four hosts of which two redirect, with Locations that have or miss the slash, are relative, or too short, and hosts that refuse, answer garbage or reset: `FollowsToTheEnd`, `NamesItsHost`, `RedirectSticks`, `EveryCallEnds`. |
| `ProxyBody` | *Violated*, the same hosts, one thread, nothing else going wrong: `ReturnsTheBody`. |
| `StaticTogether` | Two threads, three calls, a markdown file and another, one change of the file system: `RightOnceFilled`, `AsItWas`, `ThrowsOnlyInVain`. |
| `StaticBeside` | *Violated*, one call and no change: `ServesFromTheRoot`. |
| `MarkdownRenders` | Every text of up to four markers: `TopIsThere`, `WritesNestedTags`, `KeepsTheText`, `AllMatched`, `PairingEnds`. Every document of up to two lines out of 31, three out of 15, of 12 and of 12 others, four out of 7 and of 4, five out of 4 and of 4 others, six out of 3: `BlocksTypeOK`, `LinesInOrder`, `KeepsBehindBlanks`, `RendersOrdinary`, `ProcessingEnds`. |

The type invariant of a module is a conjunct of one of its properties, or, for
`RouteLoop`, proved (`LoopTypeCorrect`).

### Bounds, and why they are enough

* Two threads for five: every race here is between two threads, one at each of
  two accesses; a pool is exhausted as well with two as with five.
* Three or four connections: one being accepted, and one for each thread. A
  connection is used once, as in the code.
* `Wrap` (the values of an unsigned) is small so that counters do wrap in
  `StatusTwo`, and larger than the requests of a run of `Server`.
* `MaxCalls`, `MaxLen`, `MaxStatements` bound the length of behaviours. Four
  updates let two threads race twice on each of two keys; six characters hold
  a block in a block (`x{x{}}`), which needs two closing braces on the way back;
  three statements hold two that conflict and one between them. Two calls of the
  proxy overlap, or the second starts where a redirect of the first has led.
* The relative Location of `HandlingTogether` leaves no name, as one with a path does
  not; a redirect without a Location is not among them, for a host that sends it
  keeps a call for ever (see below). The proofs have them all.
* One change of the file system in `StaticTogether`: every step of a call looks
  at one path, so what a call can meet is what it was before a change or after it;
  three calls on two threads let one overlap with two others, or begin after a
  table is filled. Each list of tags has an entry that only it has and one that
  both have, as `ins` and `del` do.
* Four markers hold two pairs that cross, and a marker of three that two others
  split. With five the properties hold too. `MaxTokens` is never reached but by
  texts that clash, whose list grows for ever.
* Three lines hold each block with a line before and one behind it; four to six
  of fewer lines hold what depends on the line behind a blank line: lists in
  lists or in quotes, code in an item, and two blank lines, or ones of spaces.

### Fairness

A thread that is inside a handler goes on (weak fairness of `Proceed`, without
HoldingHandler's loop ever leaving `hang`), and `io_service` runs completed
handlers in the order they completed, so each one gets a thread if there is one
(weak fairness of `Dispatch` for each connection). Clients, hosts and the network
owe nothing. `ProxyHandler` is checked with hosts that answer or fail, that give a
Location with each redirect and do not redirect in a circle: for hosts that do,
the loop has no bound, and no document says that it has. The passes
of the markdown library are straight code of one thread (`Emphasis`,
`MarkdownBlocks`): it keeps running.

### Symmetry

Threads and connections are interchangeable in the safety runs. The liveness
runs (`ServerServes`, `HandlingTogether`, `MarkdownRenders`) use none.

### Where the code and its documentation differ

Four of these have a run of their own, whose property says what the document, the
comment or the test says:

* `DeliveredIntact`: `do_write` (connection.cc:126) gives `async_write` a buffer over
  a temporary, which is gone before a second write of the same operation reads it.
* `FailureAnswers500`: `handle_read` ignores what `HandleRequest` returns
  (connection.cc:91), where request_handler.h:26-29 says "the server will return HTTP
  code 500". `Respond` writes the response as it is, and `EveryWriteIsCounted` counts it
  under its own code.
* `ReturnsTheBody`: what `read_until` took of the body along with the headers is lost
  when nothing follows (proxy_handler.cc:88), and if the host was reached by a
  redirect the body of the redirect is passed on instead; the integration tests of
  the proxy expect the body of the host.
* `ServesFromTheRoot`: the config of README.md:42-44 has the prefix `/` and a root
  without a slash at its end, and serves what lies beside that root (static_handler.cc:30);
  the comment at line 46 says "file is within the base directory".

The others are in a branch of the model, and the properties beside them say by
their hypothesis where they do not hold:

* Two updates of the statistics at once lose a request (server_status.cc:16-18; `Load`
  and `Store`), where server_status.h:24 says that the map holds the "number of
  requests". `NeverOvercounts` says that they can only be lost, `SerialCountsExact`
  when none is.
* A file is accepted whose last word is cut off by its end, and the word is lost
  (`EndOfFile`); config_parser.h:36 says "iff the input config file is valid", and
  config_parser_test.cc:51 refuses such a file. `NothingLeftOut` is what holds of
  files whose last character ends a word.
* A config without a port is accepted (`AllRead`, `Listen`) although README.md:19-21
  says that it must have one, and a second port (server.cc:108 "found duplicate
  port") is noticed only if the first is not `-1` (`PortStatement`).
  `ListensOnItsPort` is what holds of ports that there are.
* A Location that is not `http://host/` leads elsewhere (proxy_handler.cc:79-81;
  `NameIn`, `TooShort`). `NamesItsHost` is what holds of one that is.
* A markdown line of plain text directly behind a quote is lost, where the comment at
  markdown.cpp:254 says that it "can be a continuation" of the quote; so is a line
  directly behind a list that ends there or a block of code. `KeepsBehindBlanks` is
  what holds of lines behind blank ones.
* `assert(p)` (markdown.cpp:381 and 431) fails for a bullet with only spaces behind
  it, or one space and then a star or a dash, where it would start a sublist:
  `NoItem`, which the documents of `RendersOrdinary` do not have.
* A quote that meets HTML (a line of it, or a tag that is opened on one line and
  closed on another) or a list, and code in an item that ends in a blank line, use
  the text of what has none. `RendersOrdinary` says of which documents this is not.
* A request that has partly arrived is answered as it is (`KeepsABeginning`, and
  `Received` in `Server`).
* The first markdown file renders wrongly for a thread that asks while another
  fills the tables: tags are taken for text (`RightOnceFilled` has `=<` there). Two
  threads that fill at once may spoil the tables for good.
* `***a b___`, an open-marker of three and a later close-marker of three of the
  other character, is split into one of size 3 and one of size 0, again and again:
  the loop does not end (`PairingEnds` excludes it), and 0 is no size that
  markdown-tokens.h:367 names.

## Proofs

All of them hold for every value of the constants that satisfies the
assumptions of the modules.

* `ServerStatusProofs`. `TypeCorrect`; `NoOvercount`, whose invariant adds that
  what a thread has loaded and not yet stored is not ahead of the requests
  either, else a store could overtake them; `SerialExact`, whose invariant says
  of the one update in progress what it has seen, loaded and still has to do;
  `PagesNeverAhead`. A page reads the total first and then the entries, one
  by one, so the last compares a total with a sum: each request counted is a *unit*,
  a pair of a key and a number up to its count, and what a page has listed and the
  units it has still to list are at least its total. Cardinalities of sets of units
  take the place of an induction over the keys.
* `HandlingProofs`, of the loop. `LoopTypeCorrect` and `LoopFindsLongest`, from the
  invariant that every registered uri that covers the one looked up also covers
  what is left of it: what has been cut away was not registered. The module begins
  with the facts about uris this needs: what `ShortenUriPrefix` cuts off covers no
  less.
* `ServerProofs`.
  * `AcceptorHandedOn`, `RunDrains`, `OneThreadEach`, from one
    invariant, `PoolInv`: the three need each other, since a thread leaves only when
    nothing is pending (`OneAccept` says when the acceptor is) and nobody works
    (`OneThreadPerRequest` says who would).
  * `LongestExists`: of the registered uris that cover one there is a longest, so
    that `Server` routes each request somewhere.
  * `ServesClients`: `Server` implements `HttpService`, action by action; a response
    with a status is the one the handler gave, and where it failed, a 500. The
    invariant, `ServiceInv`, says when each connection was asked and answered: a
    thread works for a connection whose request has been read, and has not answered
    it before it writes.
  * `CallsStatusRight`: the steps of `Server` are steps of `ServerStatus`, so
    `ServerStatistics` obtains there what `ServerStatusProofs` proves.
  * `EveryWriteCounted`, from `TallyInv`, which balances the books: each connection
    whose write was begun is counted, or one thread still has its update to do, and
    the numbers of both add up (cardinalities again). `NoWriteBlocked` follows: the
    bound that `ServerStatus` puts on updates is no restriction in `Server`, which
    has at most one for a connection.
* `HandlingProofs`, of the proxy. `FollowsRedirects`, whose `ProxyInv` says of each call what
  the answer it is reading can contain, given the host that it is connected to and
  the hosts it came from; `HostNamed`, whose `Alone` says how far a call that is by
  itself has cut which Location, of whatever form; `RedirectsStick`, under the
  hypothesis `NoWayBack`, that no Location leaves the name of the configured host (one
  that does brings `host_` back, as it should).
* `StaticFilesProofs`. `AnswersAsItWas` and `ThrowsOnly`: in `FileInv`, the history
  of what the file of a call has been since the call began holds both what each
  earlier step of the call found (that it was there, or a regular file, and that it
  could be looked at) and what the file is now: so what throws later was barred or
  has gone. `RightUnlessRaced`: `Undisturbed` says, as long
  as no two threads have filled the tables at once, that one fills at a time, how
  far it has come, and that `otherTags` is full once `blockTags` is not empty, which
  is the test that `isValidTag` relies on.
* `MarkdownProofs`, of `Emphasis`, in texts and lists of any length.
  * `TopThere` and `NestedTags`. `PairInv` says that matched markers come in pairs,
    each with an `id` of its own, through all the splits, which move the positions of
    the markers behind them. `StackInv` says of the second pass that the stack is
    in the order of the text, that its top is matched, and that it holds each
    open-marker whose partner is ahead (`Waiting`): so the partner of a matched
    close-marker is on the stack, and with the same `id` it is on top. What is behind
    the position does not cross (`NoneCross`), since a pair that would is undone.
  * `FirstPassMatches`. `LeftInv`: each open-marker that was left behind unmatched
    fits no close-marker after it, *and none of them is of three*. The second half
    makes it inductive, since only a marker of three is split into ones that might
    fit.
  * `TextKept`: `KeepsTheText`. In `KeepInv`, the markers written out are the signs
    of the text (`SameText`), since a split replaces a marker of three by two whose
    sizes add up to three. What no split has made is as the text has it (`AsFound`)
    and in its order (`InOrder`): so two triples that meet are two of the text, and
    if they are of different characters, they clash. `FlattenSeq` is used through
    the facts of `SequenceFacts`.
* `MarkdownProofs`, of `MarkdownBlocks`, in documents of any length, of any lines.
  `BlocksTypeCorrect` and `OrdinaryRenders` come from one invariant, `BlocksInv`. Each
  text of a token is cut from a line of the document with spaces only taken away
  (`TextOK`): so if an expression finds a bullet in it that is no item, or HTML, or a
  far indent, a line has them. A text of spaces only is a blank line's, or one of
  a quote (`Hollow`).
  A list or an item has no text, but is there only if a line has a bullet
  (`TokenOK`). The frames share their lists (`Over`): a `parseListBlock` walks the
  list of the frame that called it, which is not at its end, so that what it leaves
  there is in that list, too. That the lines of a quote become tokens of this kind
  is shown from the last line of the quote towards the first.
  * `KeepsOrder`: `LinesInOrder`, from `LinesInv`. In each frame, what has been made
    into tokens stands above what the frame is still to look at (`FrameLines`), and
    above all that a frame it called has (`StackLines`); what a called
    `_processBlocksItems` has stands above what is left to the caller. Of a called
    `parseListBlock` this cannot be said: it walks the rest of the caller's list. It
    can be taken over when the list ends, since the caller then goes on where the
    list stopped, or, if it was none, drops what the list made. That a token has no
    other lines than the tokens in it is part of `Good`.
* `ConfigParserProofs`, for files of any length over any characters.
  * `ParseBuildsATree`: `ConfigIsTree`. The invariant, `TreeInv`, adds what makes it
    inductive: after a word, the last statement is in the block on top of the stack
    and has no block of its own yet (so the next word or `{` belongs to it), and the
    stack is never more than one deeper than the last statement, and that only when
    that statement has a block (so the next statement does not skip a level).
  * `AcceptsExactly`: `AcceptsTheGrammar`. The grammar looks at all tokens of the
    file; `GrammarInv` shows that the last token and the count of open blocks are
    all that is needed to know how the tokens so far may go on.
  * `DropsNothing`: `NothingLeftOut`. `CutInv` says that all of the file before the
    position of the parser is covered by the tokens taken and the white space and
    comments between them, up to the word that has been begun; if the last character
    ends words, none is begun at the end.
* `RequestParserProofs`. `HasBack`: for every text, `BackIsThere`, which with the
  type of `headers` is inductive as it stands. `GoodExactlyThen` and
  `KeepsWhatItFound` relate the automaton to the client: `Sync` gives, for each part
  of the request and position in it, the state of `consume`, every field and the
  status, as long as nothing is spoiled; `KeepInv` says what stays of that once
  a character is.
* `ServerProofs`, of the configuration. `MapAsConfigured`, `ListedRight`, `ListensRight`, for configs of
  any length. `ConfigInv` states the three of the statements that were taken so far,
  with the form each was seen to have. Of the lists it must add that what is listed
  is the name of a path: `getServerInfo` refuses a path whose *name* it knows, and
  only so can a key not move to another handler while the first still lists it.

### Assumptions

The assumptions on the constants are of kinds: the types of what is configured or
sent (`RoutingAssumption`, `HandlersAssumption`, `RequestsAssumption`,
`ProxyAssumption`, `ConfigsAssumption`, where a statement has at least one token, as
`ParseBuildsATree` shows); what a well-formed request is (`RequestAssumption`: parts
that are not empty, and continued lines that begin with one space); that threads and
connections are finitely many and that an unsigned has more than one value
(`ServerAssumption`, `StatusAssumption`); that the lists of tags are not empty
(`TagAssumption`); that a document consists of lines as the module describes them
(`DocumentsAssumption`); and that bounds are numbers (`BoundsAssumption`).

### Only model-checked

* Liveness (`Terminates`, `EveryRequestAnswered`, `EveryCallEnds`, `PairingEnds`,
  `ProcessingEnds`): the prover has no rules for fairness.
* `WritesWhatItRead`: parsing what `ToString` wrote gives the statements it was
  written from. It relates a whole input to the tokens of a whole output, by an
  induction over the nesting of blocks, and the prover cannot be given an induction
  rule over data. (Where an induction over an interval of numbers is enough,
  `SequenceFacts` states it with a set instead of a predicate.)
* `KeepsBehindBlanks`: no line behind a blank one is lost. `KeepsOrder` says that no
  line comes twice; that none is missing needs an account of all lines through all
  passes, where a line may be held by a frame, by its list and by no token in turn.

## Not modelled

* Of the markdown library: `_processParagraphLines`, which joins adjacent lines of
  text into paragraphs; the spans of `processSpanElements` other than emphasis
  (links, images, code spans, escapes), which are substitutions by regular
  expressions over one text; and the writing of HTML. `MarkdownBlocks` has one
  representative for each kind of line its expressions tell apart: of ordered
  lists one number, of headers one level.
* `S3Handler`'s script and the cutting of its output: one nondeterministic outcome.
* The texts of responses and of the status page; logging; MIME types.
* Build, deployment and test scripts.

## Plan

1. Done: `ServerStatus`, `Routing`, `RouteLoop`, `Server` with `HttpService`, then
   the sequential parts: `ConfigParser`, `ConfigRoundTrip`, `ServerConfig`,
   `RequestParser`, and `ProxyHandler`.
2. Done: `TagTables`, `StaticFiles`, `Emphasis`, `MarkdownBlocks`.
3. Done: proofs of `FollowsToTheEnd`, `RightOnceFilled`, `EveryWriteIsCounted` and
   the others above, and the refinement of `HttpService` by `Server`.
4. Done: proofs of `TopIsThere`, `WritesNestedTags`, `AllMatched` and `KeepsTheText`.
5. Done: proofs of `BlocksTypeOK`, `RendersOrdinary` and `LinesInOrder`.
6. Next proofs: `KeepsBehindBlanks`; of `Emphasis`, that no step of the second
   pass matches what the first did not.
