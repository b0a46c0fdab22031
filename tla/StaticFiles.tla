---------------------------- MODULE StaticFiles -----------------------------
(***************************************************************************)
(* StaticHandler::HandleRequest (static_handler.cc) while files come, go   *)
(* and turn into directories: one step for each call to the file system.   *)
(* A markdown file is rendered, which looks tags up in the tables that the *)
(* renderers of all threads share (TagTables).                             *)
(*                                                                         *)
(* A file is replaced as a whole: who has it open goes on reading the old  *)
(* one.  Bounds: MaxCalls and MaxChanges.                                  *)
(***************************************************************************)
EXTENDS TagTables

CONSTANTS
    Names,      \* names of files
    Markdown,   \* those that end in ".md"
    Elsewhere,  \* links to where the name of the root does not occur in the path
    RootSlash,  \* the root of the config ends in a slash
    MaxCalls, MaxChanges    \* bounds


VARIABLES
    files,      \* the file system: what each path is, since which change
    rootThere,  \* the root directory exists and can be looked at
    uri,        \* the uri of each thread's request
    path,       \* relative_path, kept until the answer is taken
    opened,     \* what its ifs reads
    response,   \* the Response it fills
    returned,   \* what HandleRequest returned
    seen,       \* history: what the file at path has been during the call
    calls, changes, \* counters for the bounds
    terminated  \* an exception left HandleRequest

fileVars == <<files, rootThere, uri, path, opened, response, returned, seen,
              calls, changes, terminated>>
staticVars == <<fileVars, tagVars>>

\* A path is below the root directory, or beside it: root "files" and rest "a"
\* make "filesa".
Paths == [below : BOOLEAN, name : Names]

ASSUME StaticAssumption ==
    /\ Names # {} /\ Markdown \subseteq Names /\ Elsewhere \subseteq Paths
    /\ RootSlash \in BOOLEAN
    /\ MaxCalls \in Nat /\ MaxChanges \in Nat

NoPath == CHOOSE p \in Paths : p.below

\* What can be at a path.  A "locked" file may not be read.  A "barred" path
\* cannot be looked at: a name too long, a directory on the way that may not
\* be searched, links in a circle.
Kinds == {"none", "dir", "file", "locked", "barred"}
Regular == {"file", "locked"}
File == [kind : Kinds, since : 0 .. MaxChanges]
Gone == [kind |-> "none", since |-> 0]

\* A uri: whether it is longer than the prefix and begins with it, whether
\* what follows the prefix starts with a slash, and the name that follows.
Uris == [begins : BOOLEAN, slash : BOOLEAN, name : Names]
NoUri == CHOOSE u \in Uris : u.begins

\* The file that a uri means is one of the root directory.
Meant(u) == [below |-> TRUE, name |-> u.name]

\* The body is the file it was read from, or Gone for an empty one.
Untouched == [status |-> 0, body |-> Gone]

StaticInit ==
    /\ TagInit
    /\ at = [t \in Threads |-> "idle"]
    /\ files \in [Paths -> {[kind |-> "file", since |-> 0]}]
    /\ rootThere = TRUE
    /\ uri = [t \in Threads |-> NoUri]
    /\ path = [t \in Threads |-> NoPath]
    /\ opened = [t \in Threads |-> Gone]
    /\ response = [t \in Threads |-> Untouched]
    /\ returned = [t \in Threads |-> "none"]
    /\ seen = [t \in Threads |-> {}]
    /\ calls = 0 /\ changes = 0
    /\ terminated = FALSE
-----------------------------------------------------------------------------
\* The environment.
Notice(new) ==
    /\ files' = new
    /\ seen' = [t \in Threads |-> IF at[t] \in {"idle", "returned"} THEN seen[t]
                                 ELSE seen[t] \cup {new[path[t]]}]
    /\ changes < MaxChanges                         \* bound
    /\ changes' = changes + 1
    /\ UNCHANGED <<uri, path, opened, response, returned, calls, terminated, tagVars>>

FileChanges(p) ==
    /\ p.below => rootThere
    /\ \E k \in Kinds : Notice([files EXCEPT ![p] = [kind |-> k, since |-> changes + 1]])
    /\ UNCHANGED rootThere

RootGoes ==
    /\ rootThere
    /\ rootThere' = FALSE
    /\ \E k \in {"none", "barred"} :
         Notice([p \in Paths |-> IF p.below THEN [kind |-> k, since |-> 0] ELSE files[p]])
-----------------------------------------------------------------------------
Goto(t, a) == at' = [at EXCEPT ![t] = a]
TagsUntouched == UNCHANGED <<otherTags, blockTags, init, query, valid, filled, raced, died>>
Only(t, a) ==
    /\ Goto(t, a)
    /\ TagsUntouched
    /\ UNCHANGED <<files, rootThere, uri, path, opened, response, returned, seen, calls,
                   changes, terminated>>

\* HandleRequest returns, and its local variables are gone.
Respond(t, status, body) ==
    /\ opened' = [opened EXCEPT ![t] = Gone]
    /\ response' = [response EXCEPT ![t] = [status |-> status, body |-> body]]
    /\ returned' = [returned EXCEPT ![t] = "OK"]
    /\ Goto(t, "returned")
    /\ UNCHANGED <<files, rootThere, uri, path, seen, calls, changes, terminated>>

\* NotFoundHandler answers, and OK is returned.
Missing(t) == Respond(t, 404, Gone) /\ TagsUntouched

\* root_ + uri.substr(uri_prefix_.size()): two texts joined as they are name a
\* file below the root only if there is a slash between them.
RelativePath(u) == [below |-> u.slash \/ RootSlash, name |-> u.name]

Call(t, u) ==
    /\ at[t] = "idle"
    /\ calls < MaxCalls                             \* bound
    /\ calls' = calls + 1
    /\ uri' = [uri EXCEPT ![t] = u]
    /\ IF u.begins
       THEN /\ Goto(t, "exists")
            /\ path' = [path EXCEPT ![t] = RelativePath(u)]
            /\ seen' = [seen EXCEPT ![t] = {files[RelativePath(u)]}]
            /\ UNCHANGED returned
       ELSE /\ Goto(t, "returned")
            /\ returned' = [returned EXCEPT ![t] = "ERROR"]
            /\ UNCHANGED <<path, seen>>
    /\ TagsUntouched
    /\ UNCHANGED <<files, rootThere, opened, response, changes, terminated>>

\* The caller takes what it was given; the next call brings a Response of its
\* own (connection.cc:90).
Take(t) ==
    /\ at[t] = "returned"
    /\ Goto(t, "idle")
    /\ uri' = [uri EXCEPT ![t] = NoUri]
    /\ path' = [path EXCEPT ![t] = NoPath]
    /\ response' = [response EXCEPT ![t] = Untouched]
    /\ returned' = [returned EXCEPT ![t] = "none"]
    /\ seen' = [seen EXCEPT ![t] = {}]
    /\ TagsUntouched
    /\ UNCHANGED <<files, rootThere, opened, calls, changes, terminated>>

Is(t) == files[path[t]].kind

\* Wrong: nothing is looked at before canonical.
ExistsNot(t) == at[t] = "exists" /\ Only(t, "canonical")

Exists(t) ==
    /\ at[t] = "exists"
    /\ Is(t) # "barred"
    /\ IF Is(t) = "none" THEN Missing(t) ELSE Only(t, "regular")

IsRegularFile(t) ==
    /\ at[t] = "regular"
    /\ Is(t) # "barred"
    /\ IF Is(t) \notin Regular THEN Missing(t) ELSE Only(t, "canonical")

\* exists, is_regular_file and canonical throw for a path that cannot be looked
\* at, canonical also for what is not there, of the file and of the root.
Throw(t) ==
    /\ \/ at[t] \in {"exists", "regular", "canonical"} /\ Is(t) = "barred"
       \/ at[t] = "canonical" /\ Is(t) = "none"
       \/ at[t] = "canonicalRoot" /\ ~rootThere
    /\ terminated' = TRUE
    /\ UNCHANGED <<files, rootThere, uri, path, opened, response, returned, seen, calls,
                   changes, tagVars>>

Canonical(t) ==
    /\ at[t] = "canonical"
    /\ Is(t) \notin {"none", "barred"}
    /\ Only(t, "canonicalRoot")

\* The name of the root directory must occur in the path of the file.
CanonicalRoot(t) ==
    /\ at[t] = "canonicalRoot"
    /\ rootThere
    /\ IF path[t] \in Elsewhere THEN Missing(t) ELSE Only(t, "open")

\* A directory opens as well as a file does.
Open(t) ==
    /\ at[t] = "open"
    /\ IF Is(t) \notin {"file", "dir"}
       THEN Missing(t)
       ELSE /\ opened' = [opened EXCEPT ![t] = files[path[t]]]
            /\ Goto(t, "read")
            /\ TagsUntouched
            /\ UNCHANGED <<files, rootThere, uri, path, response, returned, seen, calls,
                           changes, terminated>>

\* Wrong: the file is opened again to be read.
ContentsReopened(t) == files[path[t]]

\* Nothing can be read from a directory.
ContentsOf(t) == IF opened[t].kind = "file" THEN opened[t] ELSE Gone

ReadFile(t) ==
    /\ at[t] = "read"
    /\ path[t].name \notin Markdown
    /\ Respond(t, 200, ContentsOf(t))
    /\ TagsUntouched

\* An empty document has no tags; doc.read never fails for a new document.
ReadMarkdown(t) ==
    /\ at[t] = "read"
    /\ path[t].name \in Markdown
    /\ IF opened[t].kind = "file"
       THEN /\ \E tag \in Tags, nonBlockFirst \in BOOLEAN : IsValidTag(t, tag, nonBlockFirst)
            /\ UNCHANGED fileVars
       ELSE Respond(t, 200, Gone) /\ TagsUntouched

WriteMarkdown(t) ==
    /\ at[t] = "answered"
    /\ Respond(t, 200, ContentsOf(t))
    /\ Returned(t)

HandleRequest(t) ==
    \/ Exists(t) \/ IsRegularFile(t) \/ Canonical(t) \/ Throw(t) \/ CanonicalRoot(t)
    \/ Open(t) \/ ReadFile(t) \/ ReadMarkdown(t) \/ WriteMarkdown(t)
    \/ TagStep(t) /\ UNCHANGED fileVars

StaticNext ==
    /\ ~terminated /\ ~died
    /\ \/ \E t \in Threads : HandleRequest(t) \/ Take(t) \/ \E u \in Uris : Call(t, u)
       \/ RootGoes
       \/ \E p \in Paths : FileChanges(p)

StaticSpec == StaticInit /\ [][StaticNext]_staticVars
-----------------------------------------------------------------------------
StaticTypeOK ==
    /\ TagTypeOK
    /\ at \in [Threads -> {"idle", "returned", "exists", "regular", "canonical", "canonicalRoot", "open",
                          "read", "answered"} \cup InTables]
    /\ files \in [Paths -> File] /\ rootThere \in BOOLEAN
    /\ uri \in [Threads -> Uris] /\ path \in [Threads -> Paths]
    /\ opened \in [Threads -> File]
    /\ response \in [Threads -> [status : {0, 200, 404}, body : File]]
    /\ returned \in [Threads -> {"none", "OK", "ERROR"}]
    /\ seen \in [Threads -> SUBSET File]
    /\ calls \in 0 .. MaxCalls /\ changes \in 0 .. MaxChanges
    /\ terminated \in BOOLEAN

KindsSeen(t) == {f.kind : f \in seen[t]}
WasRegular(t) == KindsSeen(t) \cap Regular # {}

\* However files change between the steps of a call, what it gives is what the
\* file it looks at was at one moment of that call: its contents, all of one
\* version; nothing, only if it was a file and then a directory; and 404 only
\* if it was no file that can be read or is a link to elsewhere.  With a slash
\* between the root and the rest of the uri, that file is the one meant
\* (static_handler.cc:30).
AsItWas ==
    /\ StaticTypeOK
    /\ \A t \in Threads : returned[t] = "OK" =>
        /\ uri[t].slash \/ RootSlash => path[t] = Meant(uri[t])
        /\ IF response[t].status = 404
           THEN path[t] \in Elsewhere \/ KindsSeen(t) # {"file"}
           ELSE \/ response[t].body.kind = "file" /\ response[t].body \in seen[t]
                \/ /\ response[t].body = Gone
                   /\ "dir" \in KindsSeen(t) /\ WasRegular(t)

\* A call ends the process only if its path could not be looked at at some
\* moment of the call, or was a file and then gone, or lies beside a root that
\* is gone: what stays a file, a directory or absent while the call runs is
\* answered (static_handler.cc:36-44).
ThrowsOnlyInVain ==
    terminated => \E t \in Threads :
        \/ "barred" \in KindsSeen(t)
        \/ "none" \in KindsSeen(t) /\ WasRegular(t)
        \/ at[t] = "canonicalRoot" /\ ~path[t].below /\ ~rootThere

\* Fails: a file that is served is "within the base directory"
\* (static_handler.cc:46); the config of README.md:42-44 has a root without a
\* slash at its end and a prefix that takes the slash of the uri.
ServesFromTheRoot ==
    \A t \in Threads : response[t].status = 200 => path[t].below
=============================================================================
