------------------------- MODULE StaticFilesProofs --------------------------
(***************************************************************************)
(* Proofs about StaticFiles and the tables of TagTables, for any number of *)
(* threads, calls and changes, any files, links and tags.                  *)
(***************************************************************************)
EXTENDS StaticFiles, SequenceTheorems, TLAPS

\* Where a call of HandleRequest is.
InCall == {"exists", "regular", "canonical", "canonicalRoot", "open", "read", "answered"}
             \cup InTables

Query == [tag : Tags, nonBlockFirst : BOOLEAN]
Responses == [status : {0, 200, 404}, body : File]

\* What the variables of the handler hold, those of the tables apart.
FileTypes ==
    /\ at \in [Threads -> {"idle", "returned"} \cup InCall]
    /\ files \in [Paths -> File] /\ rootThere \in BOOLEAN
    /\ uri \in [Threads -> Uris] /\ path \in [Threads -> Paths]
    /\ opened \in [Threads -> File]
    /\ response \in [Threads -> Responses]
    /\ returned \in [Threads -> {"none", "OK", "ERROR"}]
    /\ seen \in [Threads -> SUBSET File]
    /\ calls \in 0 .. MaxCalls /\ changes \in 0 .. MaxChanges
    /\ terminated \in BOOLEAN

\* The values that stand for nothing have their types too.
LEMMA Nothings ==
    /\ NoPath \in Paths /\ NoUri \in Uris /\ NoQuery \in Query
    /\ Gone \in File /\ Untouched \in Responses
    /\ \A u \in Uris : /\ RelativePath(u) \in Paths
                       /\ u.slash \/ RootSlash => RelativePath(u) = Meant(u)
<1>1. PICK n \in Names : TRUE
  BY StaticAssumption
<1>2. [below |-> TRUE, name |-> n] \in Paths
  BY DEF Paths
<1>3. NoPath \in Paths
  BY <1>2 DEF NoPath
<1>4. [begins |-> TRUE, slash |-> TRUE, name |-> n] \in Uris
  BY DEF Uris
<1>5. NoUri \in Uris
  BY <1>4 DEF NoUri
<1>6. NoQuery \in Query
  <2>1. otherTagInit[1] \in Entry
    BY TagAssumption
  <2>2. otherTagInit[1].name \in Tags
    BY <2>1 DEF Entry
  <2> QED
    BY <2>2 DEF NoQuery, Query
<1>7. Gone \in File
  BY StaticAssumption DEF Gone, File, Kinds
<1>8. Untouched \in Responses
  BY <1>7 DEF Untouched, Responses
<1>9. \A u \in Uris : /\ RelativePath(u) \in Paths
                      /\ u.slash \/ RootSlash => RelativePath(u) = Meant(u)
  BY StaticAssumption DEF Uris, Meant, RelativePath, Paths
<1> QED
  BY <1>3, <1>5, <1>6, <1>7, <1>8, <1>9
-----------------------------------------------------------------------------
(***************************************************************************)
(* AsItWas and ThrowsOnlyInVain.  Each call system sees the file at one  *)
(* moment of the call, and the history keeps what it has been since the    *)
(* call began: so what an earlier step of the call found is in it, and     *)
(* what the file is now is, too.                                           *)
(***************************************************************************)
Opened == {"read", "answered"} \cup InTables
WasFile == {"canonical", "canonicalRoot", "open"} \cup Opened

InTime(t) ==
    /\ at[t] \in InCall =>
         /\ uri[t].slash \/ RootSlash => path[t] = Meant(uri[t])
         /\ files[path[t]] \in seen[t]
         /\ returned[t] = "none"
    /\ at[t] \in WasFile => WasRegular(t)
    /\ at[t] \in Opened => opened[t] \in seen[t] /\ opened[t].kind \in {"file", "dir"}
    /\ at[t] \in Opened \ {"read"} => opened[t].kind = "file"
    /\ at[t] = "idle" => returned[t] = "none"

Answered(t) == returned[t] = "OK" =>
    /\ uri[t].slash \/ RootSlash => path[t] = Meant(uri[t])
    /\ IF response[t].status = 404
       THEN path[t] \in Elsewhere \/ KindsSeen(t) # {"file"}
       ELSE \/ response[t].body.kind = "file" /\ response[t].body \in seen[t]
            \/ /\ response[t].body = Gone
               /\ "dir" \in KindsSeen(t) /\ WasRegular(t)

RootGone == ~rootThere => \A p \in Paths : p.below => files[p].kind \in {"none", "barred"}

CallInv(t) == InTime(t) /\ Answered(t)

FileInv == /\ FileTypes
           /\ \A t \in Threads : CallInv(t)
           /\ RootGone
           /\ ThrowsOnlyInVain

\* Nothing has been called, and every file is there.
LEMMA FileInvInit == StaticInit => FileInv
<1> SUFFICES ASSUME StaticInit PROVE FileInv
  OBVIOUS
<1>1. FileTypes
  <2>1. files \in [Paths -> File]
    BY StaticAssumption DEF StaticInit, File, Kinds
  <2>2. calls \in 0 .. MaxCalls /\ changes \in 0 .. MaxChanges
    BY StaticAssumption DEF StaticInit
  <2> QED
    BY <2>1, <2>2, Nothings DEF StaticInit, FileTypes
<1>2. ASSUME NEW t \in Threads PROVE CallInv(t)
  BY DEF StaticInit, CallInv, InTime, Answered, InCall, WasFile, Opened, InTables, Filling
<1>3. RootGone /\ ThrowsOnlyInVain
  BY DEF StaticInit, RootGone, ThrowsOnlyInVain
<1> QED
  BY <1>1, <1>2, <1>3 DEF FileInv

\* A call that does not move while no file changes stays as it is.
LEMMA OtherCalls ==
    ASSUME NEW t \in Threads, CallInv(t),
           at'[t] = at[t], uri'[t] = uri[t], path'[t] = path[t], opened'[t] = opened[t],
           response'[t] = response[t], returned'[t] = returned[t], seen'[t] = seen[t],
           files' = files
    PROVE  CallInv(t)'
BY DEF CallInv, InTime, Answered, KindsSeen, WasRegular

\* What a step of one thread leaves alone.
Others(t) ==
    /\ UNCHANGED <<files, rootThere, terminated>>
    /\ \A u \in Threads \ {t} :
         /\ at'[u] = at[u] /\ uri'[u] = uri[u] /\ path'[u] = path[u]
         /\ opened'[u] = opened[u] /\ response'[u] = response[u]
         /\ returned'[u] = returned[u] /\ seen'[u] = seen[u]

\* It is enough to look at the call that moves.
LEMMA OneCall ==
    ASSUME FileInv, ~terminated, NEW t \in Threads, Others(t), FileTypes', CallInv(t)'
    PROVE  FileInv'
<1>1. ASSUME NEW u \in Threads PROVE CallInv(u)'
  <2>1. CASE u = t
    BY <2>1
  <2>2. CASE u # t
    BY <2>2, OtherCalls DEF FileInv, Others
  <2> QED
    BY <2>1, <2>2
<1>2. RootGone' /\ ThrowsOnlyInVain'
  BY DEF FileInv, Others, RootGone, ThrowsOnlyInVain
<1> QED
  BY <1>1, <1>2 DEF FileInv

\* HandleRequest returns an OK that is right.
LEMMA RespondStep ==
    ASSUME FileInv, ~terminated, NEW t \in Threads, at[t] \in InCall,
           NEW status \in {200, 404}, NEW body \in File, Respond(t, status, body),
           IF status = 404
           THEN path[t] \in Elsewhere \/ KindsSeen(t) # {"file"}
           ELSE \/ body.kind = "file" /\ body \in seen[t]
                \/ /\ body = Gone
                   /\ "dir" \in KindsSeen(t) /\ WasRegular(t)
    PROVE  FileInv'
<1> DEFINE r == [status |-> status, body |-> body]
<1>0. r \in Responses
  BY DEF Responses
<1>1. FileTypes'
  <2> HIDE DEF r
  <2>1. response' = [response EXCEPT ![t] = r]
    BY DEF Respond, r
  <2>2. response' \in [Threads -> Responses] /\ opened' \in [Threads -> File]
        /\ path' \in [Threads -> Paths]
    BY <1>0, <2>1, Nothings DEF FileInv, FileTypes, Respond
  <2>3. /\ at' \in [Threads -> {"idle", "returned"} \cup InCall]
        /\ returned' \in [Threads -> {"none", "OK", "ERROR"}]
    BY DEF FileInv, FileTypes, Respond, Goto
  <2> QED
    BY <2>2, <2>3 DEF FileInv, FileTypes, Respond
<1>2. Others(t)
  BY DEF FileInv, FileTypes, Others, Respond, Goto
<1>3. /\ at'[t] = "returned" /\ returned'[t] = "OK" /\ response'[t] = r
      /\ uri'[t] = uri[t] /\ KindsSeen(t)' = KindsSeen(t) /\ seen'[t] = seen[t]
  BY DEF FileInv, FileTypes, Respond, Goto, KindsSeen, WasRegular
<1>4. CallInv(t)'
  <2>1. InTime(t)'
    BY <1>3 DEF InTime, InCall, WasFile, Opened, InTables, Filling
  <2>2. r.status = status /\ r.body = body
    OBVIOUS
  <2>3. uri[t].slash \/ RootSlash => path'[t] = Meant(uri[t])
    BY DEF Respond, FileInv, CallInv, InTime
  <2>4. path'[t] = path[t] /\ WasRegular(t)' = WasRegular(t)
    BY <1>3 DEF Respond, WasRegular
  <2>5. Answered(t)'
    BY <1>3, <2>2, <2>3, <2>4 DEF Answered
  <2> QED
    BY <2>1, <2>5 DEF CallInv
<1> QED
  BY <1>1, <1>2, <1>4, OneCall

\* So is a 404 for a path that is no file now.
LEMMA MissingStep ==
    ASSUME FileInv, ~terminated, NEW t \in Threads, at[t] \in InCall, Missing(t),
           Is(t) # "file" \/ path[t] \in Elsewhere
    PROVE  FileInv'
<1>1. /\ files[path[t]] \in seen[t]
      /\ uri[t].slash \/ RootSlash => path[t] = Meant(uri[t])
  BY DEF FileInv, CallInv, InTime
<1>2. Is(t) \in KindsSeen(t)
  BY <1>1 DEF Is, KindsSeen, WasRegular
<1>3. Respond(t, 404, Gone)
  BY DEF Missing
<1> QED
  BY <1>1, <1>2, <1>3, RespondStep, Nothings

\* A step that only goes on to the next.
LEMMA OnlyStep ==
    ASSUME FileInv, ~terminated, NEW t \in Threads, NEW a \in InCall, at[t] \in InCall,
           at' = [at EXCEPT ![t] = a], UNCHANGED fileVars,
           a \in WasFile => WasRegular(t),
           a \in Opened => at[t] \in Opened,
           a \in Opened \ {"read"} => opened[t].kind = "file"
    PROVE  FileInv'
<1>1. FileTypes' /\ Others(t)
  BY DEF FileInv, FileTypes, Others, fileVars
<1>2. at'[t] = a
  BY DEF FileInv, FileTypes
<1>3. InTime(t) /\ Answered(t)
  BY DEF FileInv, CallInv
<1>4. InTime(t)'
  <2>1. a # "idle"
    BY DEF InCall, InTables, Filling
  <2> QED
    BY <1>2, <1>3, <2>1 DEF InTime, fileVars, KindsSeen, WasRegular
<1>5. Answered(t)'
  BY <1>3 DEF Answered, fileVars, KindsSeen, WasRegular
<1> QED
  BY <1>1, <1>4, <1>5, OneCall DEF CallInv

\* A change of files is seen by the calls that run.
LEMMA NoticeStep ==
    ASSUME FileInv, ~terminated, NEW new \in [Paths -> File], Notice(new),
           rootThere' \in BOOLEAN,
           ~rootThere' => \A p \in Paths : p.below => new[p].kind \in {"none", "barred"}
    PROVE  FileInv'
<1>a. FileTypes
  BY DEF FileInv
<1>1. at' = at /\ files' = new /\ UNCHANGED <<uri, path, opened, response, returned, calls, terminated>>
      /\ changes < MaxChanges /\ changes' = changes + 1
  BY DEF Notice, tagVars
<1>2. seen' = [t \in Threads |-> IF at[t] \in {"idle", "returned"} THEN seen[t]
                                 ELSE seen[t] \cup {new[path[t]]}]
  BY DEF Notice
<1>3. \A t \in Threads : new[path[t]] \in File
  BY <1>a, Nothings DEF FileTypes
<1>4. seen' \in [Threads -> SUBSET File]
  BY <1>a, <1>2, <1>3 DEF FileTypes
<1>5. changes' \in 0 .. MaxChanges
  BY <1>a, <1>1, StaticAssumption DEF FileTypes
<1>6. FileTypes'
  BY <1>a, <1>1, <1>4, <1>5 DEF FileTypes
<1>7. ASSUME NEW t \in Threads PROVE CallInv(t)'
  <2>1. CallInv(t)
    BY DEF FileInv
  <2>2. /\ seen[t] \subseteq seen'[t]
        /\ at[t] \in {"idle", "returned"} => seen'[t] = seen[t]
        /\ at[t] \notin {"idle", "returned"} => new[path[t]] \in seen'[t]
    BY <1>2
  <2>3. KindsSeen(t) \subseteq KindsSeen(t)' /\ (WasRegular(t) => WasRegular(t)')
    BY <2>2 DEF KindsSeen, WasRegular
  <2>4. at[t] \in InCall => at[t] \notin {"idle", "returned"}
    BY DEF InCall, InTables, Filling
  <2>5. WasFile \subseteq InCall
    BY DEF WasFile, InCall, Opened
  <2>6. InTime(t)'
    BY <1>1, <2>1, <2>2, <2>3, <2>4 DEF CallInv, InTime
  <2>7. returned[t] = "OK" => at[t] \in {"idle", "returned"}
    BY <1>a, <2>1 DEF CallInv, InTime, FileTypes
  <2>8. Answered(t)'
    BY <1>1, <2>1, <2>2, <2>7 DEF CallInv, Answered, KindsSeen, WasRegular
  <2> QED
    BY <2>6, <2>8 DEF CallInv
<1>8. RootGone' /\ ThrowsOnlyInVain'
  BY <1>1 DEF RootGone, ThrowsOnlyInVain
<1> QED
  BY <1>6, <1>7, <1>8 DEF FileInv

\* Every action keeps what the calls found in what they have seen.
LEMMA FileInvStep == FileInv /\ [StaticNext]_staticVars => FileInv'
<1> SUFFICES ASSUME FileInv, [StaticNext]_staticVars PROVE FileInv'
  OBVIOUS
<1>a. FileTypes /\ \A t \in Threads : CallInv(t)
  BY DEF FileInv
<1>b. InTables \subseteq Opened /\ Opened \subseteq WasFile /\ WasFile \subseteq InCall
  BY DEF Opened, WasFile, InCall
<1>0. CASE UNCHANGED staticVars
  <2>1. UNCHANGED <<fileVars, at>>
    BY <1>0 DEF staticVars, tagVars
  <2>2. \A t \in Threads : CallInv(t)'
    BY <1>a, <2>1, OtherCalls DEF fileVars
  <2> QED
    BY <2>1, <2>2 DEF fileVars, FileInv, FileTypes, RootGone, ThrowsOnlyInVain, KindsSeen, WasRegular
<1> SUFFICES ASSUME StaticNext PROVE FileInv'
  BY <1>0
<1>c. ~terminated
  BY DEF StaticNext
<1>1. ASSUME NEW t \in Threads, NEW u \in Uris, Call(t, u) PROVE FileInv'
  <2>0. u \in Uris
    OBVIOUS
  <2>1. /\ uri' = [uri EXCEPT ![t] = u] /\ at[t] = "idle"
        /\ calls < MaxCalls /\ calls' = calls + 1
        /\ UNCHANGED <<files, rootThere, opened, response, changes, terminated>>
    BY <1>1 DEF Call
  <2>2. calls' \in 0 .. MaxCalls
    BY <1>a, <2>1, StaticAssumption DEF FileTypes
  <2>3. /\ RelativePath(u) \in Paths /\ files[RelativePath(u)] \in File
        /\ u.slash \/ RootSlash => RelativePath(u) = Meant(u)
    <3>1. \A v \in Uris : /\ RelativePath(v) \in Paths
                          /\ v.slash \/ RootSlash => RelativePath(v) = Meant(v)
      BY Nothings
    <3> QED
      BY <1>a, <3>1, <2>0 DEF FileTypes
  <2>4. CallInv(t)
    BY <1>a
  <2>5. CASE u.begins
    <3>1. /\ at' = [at EXCEPT ![t] = "exists"] /\ path' = [path EXCEPT ![t] = RelativePath(u)]
          /\ seen' = [seen EXCEPT ![t] = {files[RelativePath(u)]}] /\ returned' = returned
      BY <1>1, <2>3, <2>5 DEF Call, Goto
    <3>2. FileTypes'
      BY <1>a, <2>1, <2>2, <2>3, <3>1 DEF FileTypes, InCall
    <3>3. Others(t)
      BY <1>a, <2>1, <3>1 DEF FileTypes, Others
    <3>4. /\ at'[t] = "exists" /\ path'[t] = RelativePath(u) /\ seen'[t] = {files[RelativePath(u)]}
          /\ uri'[t] = u /\ returned'[t] = "none"
      BY <1>a, <2>1, <2>4, <3>1 DEF FileTypes, CallInv, InTime
    <3>5. CallInv(t)'
      BY <2>1, <2>3, <3>4 DEF CallInv, InTime, Answered, WasFile, Opened, InTables, Filling
    <3> QED
      BY <1>c, <3>2, <3>3, <3>5, OneCall
  <2>6. CASE ~u.begins
    <3>1. /\ at' = [at EXCEPT ![t] = "returned"] /\ returned' = [returned EXCEPT ![t] = "ERROR"]
          /\ path' = path /\ seen' = seen
      BY <1>1, <2>6 DEF Call, Goto
    <3>2. FileTypes'
      BY <1>a, <2>1, <2>2, <2>3, <3>1 DEF FileTypes
    <3>3. Others(t)
      BY <1>a, <2>1, <3>1 DEF FileTypes, Others
    <3>4. at'[t] = "returned" /\ returned'[t] = "ERROR"
      BY <1>a, <3>1 DEF FileTypes
    <3>5. CallInv(t)'
      BY <3>4 DEF CallInv, InTime, Answered, InCall, WasFile, Opened, InTables, Filling
    <3> QED
      BY <1>c, <3>2, <3>3, <3>5, OneCall
  <2> QED
    BY <2>5, <2>6
<1>2. ASSUME NEW t \in Threads, Take(t) PROVE FileInv'
  <2>1. /\ at' = [at EXCEPT ![t] = "idle"] /\ uri' = [uri EXCEPT ![t] = NoUri]
        /\ response' = [response EXCEPT ![t] = Untouched]
        /\ returned' = [returned EXCEPT ![t] = "none"] /\ seen' = [seen EXCEPT ![t] = {}]
        /\ path' = [path EXCEPT ![t] = NoPath]
        /\ UNCHANGED <<files, rootThere, opened, calls, changes, terminated>>
    BY <1>2 DEF Take, Goto
  <2>2. FileTypes'
    BY <1>a, <2>1, Nothings DEF FileTypes
  <2>3. Others(t)
    BY <1>a, <2>1 DEF FileTypes, Others
  <2>4. at'[t] = "idle" /\ returned'[t] = "none"
    BY <1>a, <2>1 DEF FileTypes
  <2>5. CallInv(t)'
    BY <2>4 DEF CallInv, InTime, Answered, InCall, WasFile, Opened, InTables, Filling
  <2> QED
    BY <1>c, <2>2, <2>3, <2>5, OneCall
<1>3. ASSUME NEW t \in Threads, Exists(t) \/ IsRegularFile(t) PROVE FileInv'
  <2>1. at[t] \in InCall /\ at[t] \in {"exists", "regular"}
    BY <1>3 DEF Exists, IsRegularFile, InCall
  <2>2. CASE Missing(t) /\ Is(t) # "file"
    BY <1>c, <2>1, <2>2, MissingStep
  <2>3. CASE Only(t, "regular")
    <3>1. "regular" \in InCall /\ "regular" \notin WasFile /\ "regular" \notin Opened
      BY DEF InCall, WasFile, Opened, InTables, Filling
    <3>2. at' = [at EXCEPT ![t] = "regular"] /\ UNCHANGED fileVars
      BY <2>3 DEF Only, Goto, fileVars
    <3> QED
      BY <1>c, <2>1, <3>1, <3>2, OnlyStep
  <2>4. CASE Only(t, "canonical") /\ Is(t) \in Regular
    <3>1. "canonical" \in InCall /\ "canonical" \notin Opened
      BY DEF InCall, Opened, InTables, Filling
    <3>2. at' = [at EXCEPT ![t] = "canonical"] /\ UNCHANGED fileVars
      BY <2>4 DEF Only, Goto, fileVars
    <3>3. WasRegular(t)
      BY <1>a, <2>1, <2>4 DEF CallInv, InTime, KindsSeen, WasRegular, Is
    <3> QED
      BY <1>c, <2>1, <3>1, <3>2, <3>3, OnlyStep
  <2> QED
    BY <1>3, <2>2, <2>3, <2>4 DEF Exists, IsRegularFile, Regular
<1>4. ASSUME NEW t \in Threads, Throw(t) PROVE FileInv'
  <2>1. /\ terminated' = TRUE
        /\ UNCHANGED <<files, rootThere, at, uri, path, opened, response, returned, seen, calls, changes>>
    BY <1>4 DEF Throw, tagVars
  <2>2. \A u \in Threads : CallInv(u)'
    BY <1>a, <2>1, OtherCalls
  <2>3. FileTypes' /\ RootGone'
    BY <2>1 DEF FileInv, FileTypes, RootGone
  <2>4. /\ at[t] \in InCall /\ at[t] \in {"exists", "regular", "canonical", "canonicalRoot"}
        /\ at[t] \in {"canonical", "canonicalRoot"} => at[t] \in WasFile
    BY <1>4 DEF Throw, InCall, WasFile
  <2>5. /\ at[t] \in {"canonical", "canonicalRoot"} => WasRegular(t)
        /\ Is(t) \in KindsSeen(t) /\ path[t] \in Paths
    BY <1>a, <2>4 DEF CallInv, InTime, KindsSeen, WasRegular, Is, FileTypes
  <2>6. \/ "barred" \in KindsSeen(t)
        \/ "none" \in KindsSeen(t) /\ WasRegular(t)
        \/ at[t] = "canonicalRoot" /\ ~path[t].below /\ ~rootThere
    <3>1. CASE Is(t) = "barred" \/ (at[t] = "canonical" /\ Is(t) = "none")
      BY <2>5, <3>1
    <3>2. CASE at[t] = "canonicalRoot" /\ ~rootThere /\ path[t].below
      BY <2>5, <3>2 DEF FileInv, RootGone, Is
    <3> QED
      BY <1>4, <3>1, <3>2 DEF Throw
  <2>7. ThrowsOnlyInVain'
    BY <2>1, <2>6 DEF ThrowsOnlyInVain, KindsSeen, WasRegular
  <2> QED
    BY <2>2, <2>3, <2>7 DEF FileInv
<1>5. ASSUME NEW t \in Threads, Canonical(t) \/ CanonicalRoot(t) PROVE FileInv'
  <2>1. at[t] \in InCall /\ at[t] \in WasFile
    BY <1>5 DEF Canonical, CanonicalRoot, InCall, WasFile
  <2>2. WasRegular(t)
    BY <1>a, <2>1 DEF CallInv, InTime
  <2>3. ASSUME NEW a \in {"canonicalRoot", "open"}, Only(t, a) PROVE FileInv'
    <3>1. a \in InCall /\ a \notin Opened
      BY DEF InCall, Opened, InTables, Filling
    <3>2. at' = [at EXCEPT ![t] = a] /\ UNCHANGED fileVars
      BY <2>3 DEF Only, Goto, fileVars
    <3> QED
      BY <1>c, <2>1, <2>2, <3>1, <3>2, OnlyStep
  <2>4. CASE Missing(t) /\ path[t] \in Elsewhere
    BY <1>c, <2>1, <2>4, MissingStep
  <2> QED
    BY <1>5, <2>3, <2>4 DEF Canonical, CanonicalRoot
<1>6. ASSUME NEW t \in Threads, Open(t) PROVE FileInv'
  <2>1. at[t] \in InCall /\ at[t] \in WasFile /\ at[t] = "open"
    BY <1>6 DEF Open, InCall, WasFile
  <2>2. CASE Is(t) \notin {"file", "dir"}
    BY <1>6, <1>c, <2>1, <2>2, MissingStep DEF Open
  <2>3. CASE Is(t) \in {"file", "dir"}
    <3>1. /\ opened' = [opened EXCEPT ![t] = files[path[t]]] /\ at' = [at EXCEPT ![t] = "read"]
          /\ UNCHANGED <<files, rootThere, uri, path, response, returned, seen, calls,
                         changes, terminated>>
      BY <1>6, <2>3 DEF Open, Goto
    <3>2. files[path[t]] \in File /\ files[path[t]].kind \in {"file", "dir"}
      BY <1>a, <2>3 DEF FileTypes, File, Kinds, Is
    <3>3. FileTypes'
      BY <1>a, <3>1, <3>2 DEF FileTypes, InCall
    <3>4. Others(t)
      BY <1>a, <3>1 DEF FileTypes, Others
    <3>5. at'[t] = "read" /\ opened'[t] = files[path[t]]
      BY <1>a, <3>1 DEF FileTypes
    <3>6. InTime(t) /\ Answered(t)
      BY <1>a DEF CallInv
    <3>7. InTime(t)'
      BY <2>1, <3>1, <3>2, <3>5, <3>6 DEF InTime, KindsSeen, WasRegular
    <3>8. Answered(t)'
      BY <3>1, <3>6 DEF Answered, KindsSeen, WasRegular
    <3> QED
      BY <1>c, <3>3, <3>4, <3>7, <3>8, OneCall DEF CallInv
  <2> QED
    BY <2>2, <2>3
<1>7. ASSUME NEW t \in Threads, at[t] \in Opened, Respond(t, 200, ContentsOf(t)) PROVE FileInv'
  <2>1. /\ opened[t] \in seen[t] /\ opened[t].kind \in {"file", "dir"}
        /\ WasRegular(t) /\ opened[t].kind \in KindsSeen(t) /\ opened[t] \in File
        /\ at[t] \in InCall
    BY <1>7, <1>a, <1>b DEF CallInv, InTime, KindsSeen, WasRegular, FileTypes
  <2>2. ContentsOf(t) \in File
    BY <2>1, Nothings DEF ContentsOf
  <2>3. \/ ContentsOf(t).kind = "file" /\ ContentsOf(t) \in seen[t]
        \/ ContentsOf(t) = Gone /\ "dir" \in KindsSeen(t) /\ WasRegular(t)
    BY <2>1 DEF ContentsOf
  <2> QED
    BY <1>7, <1>c, <2>1, <2>2, <2>3, RespondStep
<1>8. ASSUME NEW t \in Threads, ReadFile(t) \/ WriteMarkdown(t) PROVE FileInv'
  <2>1. at[t] \in Opened /\ Respond(t, 200, ContentsOf(t))
    BY <1>8 DEF ReadFile, WriteMarkdown, Opened
  <2> QED
    BY <1>7, <2>1
<1>9. ASSUME NEW t \in Threads, ReadMarkdown(t) PROVE FileInv'
  <2>1. at[t] = "read" /\ "read" \in Opened /\ "read" \in InCall
    BY <1>9 DEF ReadMarkdown, Opened, InCall
  <2>2. CASE opened[t].kind = "file"
    <3>1. at' = [at EXCEPT ![t] = "check"] /\ UNCHANGED fileVars
      BY <1>9, <2>2 DEF ReadMarkdown, IsValidTag
    <3>2. "check" \in InCall /\ WasRegular(t)
      BY <1>a, <1>b, <2>1 DEF CallInv, InTime, InCall, InTables
    <3> QED
      BY <1>c, <2>1, <2>2, <3>1, <3>2, OnlyStep
  <2>3. CASE opened[t].kind # "file"
    <3>1. ContentsOf(t) = Gone /\ Respond(t, 200, Gone)
      BY <1>9, <2>3 DEF ContentsOf, ReadMarkdown
    <3> QED
      BY <1>7, <2>1, <3>1
  <2> QED
    BY <2>2, <2>3
<1>10. ASSUME NEW t \in Threads, TagStep(t), UNCHANGED fileVars PROVE FileInv'
  <2>1. at[t] \in InTables
    BY <1>10 DEF TagStep, Check, Fill, Found, NotFound, Dies, InTables
  <2>2. PICK a \in InTables \cup {"answered"} : at' = [at EXCEPT ![t] = a]
    <3>1. CASE Check(t)
      BY <3>1 DEF Check, NextTable, InTables, Filling
    <3>2. CASE Fill(t)
      BY <1>a, <3>2 DEF Fill, Advance, NextTable, InTables, Filling, FileTypes
    <3>3. CASE Found(t) \/ NotFound(t)
      BY <3>3 DEF Found, NotFound, Answer, InTables
    <3>4. CASE Dies(t)
      BY <1>a, <2>1, <3>4 DEF Dies, FileTypes
    <3> QED
      BY <1>10, <3>1, <3>2, <3>3, <3>4 DEF TagStep
  <2>3. /\ a \in InCall /\ at[t] \in InCall /\ at[t] \in Opened \ {"read"} /\ at[t] \in WasFile
        /\ WasRegular(t) /\ opened[t].kind = "file"
    BY <1>a, <1>b, <2>1 DEF CallInv, InTime, InCall, InTables, Filling
  <2> QED
    BY <1>10, <1>c, <2>2, <2>3, OnlyStep
<1>11. CASE RootGoes
  <2>0. PICK k \in {"none", "barred"} :
          Notice([p \in Paths |-> IF p.below THEN [kind |-> k, since |-> 0] ELSE files[p]])
    BY <1>11 DEF RootGoes
  <2> DEFINE f == [kind |-> k, since |-> 0]
             new == [p \in Paths |-> IF p.below THEN f ELSE files[p]]
  <2>a. f \in File /\ f.kind \in {"none", "barred"}
    BY StaticAssumption DEF File, Kinds
  <2> HIDE DEF f
  <2>1. new \in [Paths -> File] /\ \A p \in Paths : p.below => new[p].kind \in {"none", "barred"}
    BY <1>a, <2>a DEF FileTypes
  <2>2. Notice(new) /\ rootThere' \in BOOLEAN
    BY <1>11, <2>0 DEF f, RootGoes
  <2> HIDE DEF new
  <2> QED
    BY <1>c, <2>1, <2>2, NoticeStep
<1>12. ASSUME NEW p \in Paths, FileChanges(p) PROVE FileInv'
  <2>1. PICK k \in Kinds : Notice([files EXCEPT ![p] = [kind |-> k, since |-> changes + 1]])
    BY <1>12 DEF FileChanges
  <2> DEFINE f == [kind |-> k, since |-> changes + 1]
             new == [files EXCEPT ![p] = f]
  <2>2. f \in File
    BY <1>a, <2>1, StaticAssumption DEF Notice, FileTypes, File
  <2>3. p.below => rootThere /\ rootThere' = rootThere /\ rootThere \in BOOLEAN
    BY <1>12, <1>a DEF FileChanges, FileTypes
  <2> HIDE DEF f
  <2>4. new \in [Paths -> File]
    BY <1>a, <2>2 DEF FileTypes
  <2>5. ~rootThere' => \A q \in Paths : q.below => new[q].kind \in {"none", "barred"}
    BY <1>12, <1>a, <2>3 DEF FileChanges, FileInv, RootGone, FileTypes
  <2>6. Notice(new) /\ rootThere' \in BOOLEAN
    BY <1>12, <1>a, <2>1 DEF f, FileChanges, FileTypes
  <2> HIDE DEF new
  <2> QED
    BY <1>c, <2>4, <2>5, <2>6, NoticeStep
<1> QED
  BY <1>1, <1>2, <1>3, <1>4, <1>5, <1>6, <1>8, <1>9, <1>10, <1>11, <1>12
     DEF StaticNext, HandleRequest

-----------------------------------------------------------------------------
(***************************************************************************)
(* RightOnceFilled.  As long as no two threads fill the tables at once,    *)
(* the one that does leaves them complete one after the other, and a       *)
(* look-up finds the first table complete, whichever words of the second   *)
(* are there.                                                              *)
(***************************************************************************)
\* What the threads may be at while they use no table.
Away == {"idle", "returned", "exists", "regular", "canonical", "canonicalRoot", "open", "read"}

\* What the thread that fills has filled.
FillInv(t) ==
    /\ at[t] = "otherTags" =>
         /\ blockTags = {}
         /\ \A i \in 1 .. Len(otherTagInit) : i < init[t] => Str(otherTagInit[i]) \in otherTags
    /\ at[t] = "blockTags" =>
         /\ Words(otherTagInit) \subseteq otherTags
         /\ \A i \in 1 .. Len(blockTagInit) : i < init[t] => Str(blockTagInit[i]) \in blockTags

AnswerInv(t) ==
    /\ valid[t] =< Right(query[t])
    /\ filled[t] => valid[t] = Right(query[t])

\* What a thread that looks a tag up may rely on, and what it knows of the
\* table it has been through.
LookInv(t) ==
    /\ at[t] \in {"first", "second", "answered"} => blockTags # {}
    /\ filled[t] => Filled
    /\ at[t] = "second" =>
         IF query[t].nonBlockFirst THEN query[t].tag \notin Words(otherTagInit)
         ELSE filled[t] => query[t].tag \notin Words(blockTagInit)
    /\ at[t] = "answered" => AnswerInv(t)

OneFiller == \A t, u \in Threads : at[t] \in Filling /\ at[u] \in Filling => t = u

Complete == blockTags # {} =>
    /\ otherTags = Words(otherTagInit)
    /\ (\A t \in Threads : at[t] \notin Filling) => blockTags = Words(blockTagInit)

Undisturbed == /\ OneFiller
               /\ Complete
               /\ \A t \in Threads : FillInv(t) /\ LookInv(t)

TagInv == TagTypeOK /\ (~raced => Undisturbed)

\* The words of a list are those of its entries.
LEMMA WordsOf ==
    ASSUME NEW list \in Seq(Entry)
    PROVE  /\ \A i \in 1 .. Len(list) : Str(list[i]) \in Words(list)
           /\ \A w \in Words(list) : \E i \in 1 .. Len(list) : w = Str(list[i])
BY DEF Words, Range

\* The tables are empty, and nobody uses them.
LEMMA TagInvInit == StaticInit => TagInv
<1> SUFFICES ASSUME StaticInit PROVE TagInv
  OBVIOUS
<1>1. TagTypeOK
  <2>1. query \in [Threads -> Query] /\ init \in [Threads -> Nat \ {0}]
    BY Nothings DEF StaticInit, TagInit
  <2>2. valid \in [Threads -> 0 .. 2] /\ filled \in [Threads -> BOOLEAN]
    BY DEF StaticInit, TagInit
  <2>3. otherTags = {} /\ blockTags = {} /\ raced = FALSE /\ died = FALSE
    BY DEF StaticInit, TagInit
  <2>4. \A t \in Threads : at[t] = "idle"
    BY DEF StaticInit
  <2> QED
    BY <2>1, <2>2, <2>3, <2>4 DEF TagTypeOK, Query
<1>2. Undisturbed
  BY DEF StaticInit, TagInit, Undisturbed, OneFiller, Complete, FillInv, LookInv, Filling
<1> QED
  BY <1>1, <1>2 DEF TagInv

\* A thread that begins or ends its use of the tables, or that does not use
\* them, disturbs nobody.
LEMMA Apart ==
    ASSUME TagInv, FileTypes, TagTypeOK',
           UNCHANGED <<otherTags, blockTags, init, raced>>,
           \A u \in Threads :
              \/ at'[u] = at[u] /\ query'[u] = query[u] /\ valid'[u] = valid[u]
                 /\ filled'[u] = filled[u]
              \/ at[u] \notin Filling /\ at'[u] \in Away \cup {"check"}
                 /\ (filled'[u] => filled[u] \/ Filled)
    PROVE  TagInv'
<1> SUFFICES ASSUME ~raced PROVE Undisturbed'
  BY DEF TagInv
<1>1. Undisturbed
  BY DEF TagInv
<1>2. \A u \in Threads : (at[u] \in Filling <=> at'[u] \in Filling)
                         /\ (at[u] \in Filling => at'[u] = at[u])
  BY DEF Filling, Away
<1>3. OneFiller' /\ Complete' /\ (Filled <=> Filled')
  BY <1>1, <1>2 DEF Undisturbed, OneFiller, Complete, Filled
<1>4. ASSUME NEW u \in Threads PROVE FillInv(u)' /\ LookInv(u)'
  <2>1. FillInv(u) /\ LookInv(u)
    BY <1>1 DEF Undisturbed
  <2>2. CASE at'[u] = at[u] /\ query'[u] = query[u] /\ valid'[u] = valid[u] /\ filled'[u] = filled[u]
    BY <1>3, <2>1, <2>2 DEF FillInv, LookInv, AnswerInv
  <2>3. CASE at[u] \notin Filling /\ at'[u] \in Away \cup {"check"}
             /\ (filled'[u] => filled[u] \/ Filled)
    BY <1>3, <2>1, <2>3 DEF FillInv, LookInv, Away
  <2> QED
    BY <2>2, <2>3
<1> QED
  BY <1>3, <1>4 DEF Undisturbed

\* The test of blockTags.
LEMMA CheckStep ==
    ASSUME TagInv, FileTypes, NEW t \in Threads, Check(t)
    PROVE  TagInv'
<1>1. /\ at[t] = "check" /\ init' = [init EXCEPT ![t] = 1]
      /\ at' = [at EXCEPT ![t] = IF blockTags = {} THEN "otherTags" ELSE "first"]
      /\ raced' = (raced \/ (blockTags = {} /\ \E u \in Threads \ {t} : at[u] \in Filling))
      /\ UNCHANGED <<otherTags, blockTags, query, valid, filled, died>>
  BY DEF Check, NextTable
<1>2. /\ at'[t] = IF blockTags = {} THEN "otherTags" ELSE "first"
      /\ init'[t] = 1
      /\ \A u \in Threads \ {t} : at'[u] = at[u] /\ init'[u] = init[u]
  BY <1>1 DEF FileTypes, TagInv, TagTypeOK
<1>3. TagTypeOK'
  <2>1. init' \in [Threads -> Nat \ {0}]
    BY <1>1 DEF TagInv, TagTypeOK
  <2>2. Len(otherTagInit) >= 1 /\ Len(blockTagInit) >= 1
    BY TagAssumption
  <2>3. \A u \in Threads : /\ at'[u] = "otherTags" => init'[u] =< Len(otherTagInit)
                           /\ at'[u] = "blockTags" => init'[u] =< Len(blockTagInit)
    BY <1>2, <2>2 DEF TagInv, TagTypeOK
  <2>4. raced' \in BOOLEAN
    BY <1>1 DEF TagInv, TagTypeOK
  <2> QED
    BY <1>1, <2>1, <2>3, <2>4 DEF TagInv, TagTypeOK
<1> SUFFICES ASSUME ~raced' PROVE Undisturbed'
  BY <1>3 DEF TagInv
<1>4. Undisturbed
  BY <1>1 DEF TagInv
<1>5. CASE blockTags = {}
  <2>1. \A u \in Threads \ {t} : at[u] \notin Filling
    BY <1>1, <1>5
  <2>2. OneFiller' /\ Complete'
    BY <1>1, <1>2, <1>5, <2>1 DEF OneFiller, Complete
  <2>3. ASSUME NEW u \in Threads PROVE FillInv(u)' /\ LookInv(u)'
    <3>1. LookInv(u) /\ ~filled[u] /\ at[u] \notin {"first", "second", "answered"}
      BY <1>4, <1>5 DEF Undisturbed, LookInv, Filled
    <3>2. FillInv(u)'
      BY <1>1, <1>2, <1>5, <2>1 DEF FillInv, Filling
    <3>3. LookInv(u)'
      BY <1>1, <1>2, <1>5, <3>1 DEF LookInv
    <3> QED
      BY <3>2, <3>3
  <2> QED
    BY <2>2, <2>3 DEF Undisturbed
<1>6. CASE blockTags # {}
  <2>1. \A u \in Threads : at[u] \in Filling <=> at'[u] \in Filling
    BY <1>1, <1>2, <1>6 DEF Filling
  <2>2. OneFiller' /\ Complete' /\ (Filled => Filled')
    BY <1>1, <1>4, <2>1 DEF Undisturbed, OneFiller, Complete, Filled
  <2>3. ASSUME NEW u \in Threads PROVE FillInv(u)' /\ LookInv(u)'
    <3>1. FillInv(u) /\ LookInv(u)
      BY <1>4 DEF Undisturbed
    <3>2. CASE u = t
      BY <1>1, <1>2, <1>6, <2>2, <3>1, <3>2 DEF FillInv, LookInv
    <3>3. CASE u # t
      BY <1>1, <1>2, <2>2, <3>1, <3>3 DEF FillInv, LookInv, AnswerInv
    <3> QED
      BY <3>2, <3>3
  <2> QED
    BY <2>2, <2>3 DEF Undisturbed
<1> QED
  BY <1>5, <1>6

\* An insertion.
LEMMA FillStep ==
    ASSUME TagInv, FileTypes, NEW t \in Threads, Fill(t)
    PROVE  TagInv'
<1> DEFINE list == List(at[t])
           str == Str(list[init[t]])
<1>1. /\ at[t] \in Filling
      /\ UNCHANGED <<query, valid, filled, raced, died>>
      /\ list = IF at[t] = "otherTags" THEN otherTagInit ELSE blockTagInit
  BY DEF Fill, List
<1>2. IF at[t] = "otherTags"
      THEN /\ otherTags' \in Inserted(t, at[t], otherTags, str) /\ blockTags' = blockTags
      ELSE /\ blockTags' \in Inserted(t, at[t], blockTags, str) /\ otherTags' = otherTags
  BY DEF Fill, Inserts, List
<1>3. list \in Seq(Entry) /\ init[t] \in 1 .. Len(list)
  <2>1. init[t] \in Nat \ {0} /\ init[t] =< Len(list)
    BY <1>1 DEF TagInv, TagTypeOK, Filling
  <2>2. list \in Seq(Entry)
    BY <1>1, TagAssumption
  <2> QED
    BY <2>1, <2>2
<1> HIDE DEF list
<1>4. str \in Words(list) /\ \A w \in Words(list) : \E i \in 1 .. Len(list) : w = Str(list[i])
  BY <1>3, WordsOf
<1>5. \/ /\ init[t] < Len(list) /\ init' = [init EXCEPT ![t] = init[t] + 1] /\ at' = at
      \/ /\ init[t] = Len(list) /\ init' = [init EXCEPT ![t] = 1]
         /\ at' = [at EXCEPT ![t] = IF at[t] = "otherTags" THEN "blockTags" ELSE "first"]
  <2>1. ~(init[t] < Len(list)) => init[t] = Len(list)
    BY <1>3
  <2>2. NextTable[at[t]] = IF at[t] = "otherTags" THEN "blockTags" ELSE "first"
    BY <1>1 DEF Filling, NextTable
  <2> QED
    BY <2>1, <2>2 DEF Fill, Advance, list
<1>6. /\ \A u \in Threads \ {t} : at'[u] = at[u] /\ init'[u] = init[u]
      /\ \/ init[t] < Len(list) /\ init'[t] = init[t] + 1 /\ at'[t] = at[t]
         \/ init[t] = Len(list) /\ init'[t] = 1
            /\ at'[t] = IF at[t] = "otherTags" THEN "blockTags" ELSE "first"
  BY <1>5 DEF FileTypes, TagInv, TagTypeOK
<1>7. TagTypeOK'
  <2>1. init' \in [Threads -> Nat \ {0}]
    <3>1. init \in [Threads -> Nat \ {0}] /\ init[t] + 1 \in Nat \ {0}
      BY DEF TagInv, TagTypeOK
    <3>2. CASE init' = [init EXCEPT ![t] = init[t] + 1]
      BY <3>1, <3>2
    <3>3. CASE init' = [init EXCEPT ![t] = 1]
      BY <3>1, <3>3
    <3> QED
      BY <1>5, <3>2, <3>3
  <2>2. otherTags' \subseteq Words(otherTagInit) /\ blockTags' \subseteq Words(blockTagInit)
    BY <1>1, <1>2, <1>4 DEF Inserted, TagInv, TagTypeOK
  <2>3. Len(otherTagInit) >= 1 /\ Len(blockTagInit) >= 1
    BY TagAssumption
  <2>4. ASSUME NEW u \in Threads
        PROVE  /\ at'[u] = "otherTags" => init'[u] =< Len(otherTagInit)
               /\ at'[u] = "blockTags" => init'[u] =< Len(blockTagInit)
    <3>1. CASE u # t
      BY <1>6, <3>1 DEF TagInv, TagTypeOK
    <3>2. CASE u = t
      BY <1>1, <1>3, <1>6, <2>3, <3>2 DEF Filling
    <3> QED
      BY <3>1, <3>2
  <2> QED
    BY <1>1, <2>1, <2>2, <2>4 DEF TagInv, TagTypeOK
<1> SUFFICES ASSUME ~raced PROVE Undisturbed'
  BY <1>1, <1>7 DEF TagInv
<1>8. Undisturbed
  BY DEF TagInv
<1>9. \A u \in Threads \ {t} : at[u] \notin Filling /\ at'[u] \notin Filling
  BY <1>1, <1>6, <1>8 DEF Undisturbed, OneFiller
<1>10. \A set : Inserted(t, at[t], set, str) = {set \cup {str}}
  BY <1>1, <1>9 DEF Inserted, Changing
<1>11. OneFiller' /\ \A u \in Threads : ~filled[u] /\ LookInv(u) /\ FillInv(u)
  BY <1>1, <1>8, <1>9 DEF Undisturbed, OneFiller, LookInv, Filled
<1>12. CASE at[t] = "otherTags"
  <2>1. otherTags' = otherTags \cup {str} /\ blockTags' = {} /\ blockTags = {} /\ list = otherTagInit
    BY <1>1, <1>2, <1>10, <1>11, <1>12 DEF FillInv
  <2>2. \A i \in 1 .. Len(otherTagInit) : i < init[t] + 1 => Str(otherTagInit[i]) \in otherTags'
    BY <1>3, <1>11, <1>12, <2>1 DEF FillInv
  <2>3. init[t] = Len(list) => Words(otherTagInit) \subseteq otherTags'
    BY <1>3, <1>4, <2>1, <2>2
  <2>4. FillInv(t)'
    BY <1>6, <1>12, <2>1, <2>2, <2>3 DEF FillInv
  <2>5. \A u \in Threads \ {t} : FillInv(u)'
    BY <1>9 DEF FillInv, Filling
  <2>6. \A u \in Threads : LookInv(u)'
    BY <1>1, <1>6, <1>11, <1>12, <2>1 DEF LookInv
  <2> QED
    BY <1>11, <2>1, <2>4, <2>5, <2>6 DEF Undisturbed, Complete
<1>13. CASE at[t] = "blockTags"
  <2>1. blockTags' = blockTags \cup {str} /\ blockTags' # {} /\ otherTags' = otherTags
        /\ list = blockTagInit
    BY <1>1, <1>2, <1>10, <1>13
  <2>2. otherTags = Words(otherTagInit)
    BY <1>11, <1>13 DEF FillInv, TagInv, TagTypeOK
  <2>3. \A i \in 1 .. Len(blockTagInit) : i < init[t] + 1 => Str(blockTagInit[i]) \in blockTags'
    BY <1>3, <1>11, <1>13, <2>1 DEF FillInv
  <2>4. init[t] = Len(list) => blockTags' = Words(blockTagInit)
    BY <1>3, <1>4, <1>7, <2>1, <2>3 DEF TagTypeOK
  <2>5. FillInv(t)'
    BY <1>6, <1>13, <2>1, <2>2, <2>3 DEF FillInv
  <2>6. \A u \in Threads \ {t} : FillInv(u)'
    BY <1>9 DEF FillInv, Filling
  <2>7. ASSUME NEW u \in Threads PROVE LookInv(u)'
    <3>1. at'[u] = at[u] \/ at'[u] = "first"
      BY <1>6, <1>13
    <3> QED
      BY <1>1, <1>11, <2>1, <3>1 DEF LookInv, AnswerInv
  <2>8. Complete'
    <3>1. at'[t] \notin Filling => init[t] = Len(list)
      BY <1>1, <1>6
    <3> QED
      BY <2>1, <2>2, <2>4, <3>1 DEF Complete
  <2> QED
    BY <1>11, <2>5, <2>6, <2>7, <2>8 DEF Undisturbed
<1> QED
  BY <1>1, <1>12, <1>13 DEF Filling

\* A look-up, whether it finds the tag or not.
LEMMA LookStep ==
    ASSUME TagInv, FileTypes, NEW t \in Threads, Found(t) \/ NotFound(t)
    PROVE  TagInv'
<1>1. PICK v \in 0 .. 2, a \in {"second", "answered"} :
        /\ valid' = [valid EXCEPT ![t] = v] /\ at' = [at EXCEPT ![t] = a]
        /\ UNCHANGED <<otherTags, blockTags, init, query, filled, raced, died>>
        /\ \/ /\ query[t].tag \in Contents(Table(t)) /\ v = Value(Table(t)) /\ a = "answered"
           \/ /\ query[t].tag \notin Contents(Table(t)) \/ Changing(t, Table(t))
              /\ v = 0 /\ a = IF at[t] = "first" THEN "second" ELSE "answered"
  <2>1. CASE Found(t)
    <3>1. Value(Table(t)) \in 0 .. 2 /\ "answered" \in {"second", "answered"}
      BY DEF Value
    <3>2. query[t].tag \in Contents(Table(t)) /\ Answer(t, Value(Table(t)), "answered")
      BY <2>1 DEF Found
    <3> HIDE DEF Table, Value, Contents
    <3> QED
      BY <3>1, <3>2 DEF Answer
  <2>2. CASE NotFound(t)
    <3> DEFINE next == IF at[t] = "first" THEN "second" ELSE "answered"
    <3>1. next \in {"second", "answered"} /\ 0 \in 0 .. 2
      OBVIOUS
    <3>2. /\ query[t].tag \notin Contents(Table(t)) \/ Changing(t, Table(t))
          /\ Answer(t, 0, next)
      BY <2>2 DEF NotFound
    <3>3. next = IF at[t] = "first" THEN "second" ELSE "answered"
      OBVIOUS
    <3> HIDE DEF next
    <3> QED
      BY <3>1, <3>2, <3>3 DEF Answer
  <2> QED
    BY <2>1, <2>2
<1>2. at[t] \in {"first", "second"}
  BY DEF Found, NotFound
<1>3. /\ at'[t] = a /\ valid'[t] = v
      /\ \A u \in Threads \ {t} : at'[u] = at[u] /\ valid'[u] = valid[u]
  BY <1>1 DEF FileTypes, TagInv, TagTypeOK
<1>4. TagTypeOK'
  <2>1. valid' \in [Threads -> 0 .. 2]
    BY <1>1 DEF TagInv, TagTypeOK
  <2>2. \A u \in Threads : /\ at'[u] = "otherTags" => init[u] =< Len(otherTagInit)
                           /\ at'[u] = "blockTags" => init[u] =< Len(blockTagInit)
    BY <1>3 DEF TagInv, TagTypeOK
  <2> QED
    BY <1>1, <2>1, <2>2 DEF TagInv, TagTypeOK
<1> SUFFICES ASSUME ~raced PROVE Undisturbed'
  BY <1>1, <1>4 DEF TagInv
<1>5. Undisturbed
  BY DEF TagInv
<1>6. \A u \in Threads : /\ at[u] \in Filling <=> at'[u] \in Filling
                         /\ at[u] \in Filling => at'[u] = at[u]
  BY <1>1, <1>2, <1>3 DEF Filling
<1>7. OneFiller' /\ Complete' /\ (Filled <=> Filled')
  BY <1>1, <1>5, <1>6 DEF Undisturbed, OneFiller, Complete, Filled
<1>8. ASSUME NEW u \in Threads PROVE FillInv(u)'
  BY <1>1, <1>5, <1>6 DEF Undisturbed, FillInv, Filling
<1>9. ASSUME NEW u \in Threads \ {t} PROVE LookInv(u)'
  BY <1>1, <1>3, <1>5, <1>7 DEF Undisturbed, LookInv, AnswerInv
<1>10. LookInv(t)'
  <2> DEFINE q == query[t]
  <2>1. /\ blockTags # {} /\ otherTags = Words(otherTagInit)
        /\ blockTags \subseteq Words(blockTagInit)
        /\ \A u \in Threads : at[u] # "otherTags"
        /\ filled[t] => Filled
    BY <1>2, <1>5 DEF Undisturbed, LookInv, FillInv, Complete, TagInv, TagTypeOK
  <2>2. filled[t] => /\ blockTags = Words(blockTagInit)
                     /\ \A u \in Threads : at[u] \notin Filling
    BY <1>5, <2>1 DEF Undisturbed, Complete, Filled
  <2>3. ~Changing(t, "otherTags") /\ (filled[t] => ~Changing(t, "blockTags"))
    BY <2>1, <2>2 DEF Changing, Filling
  <2>4. q.nonBlockFirst \in BOOLEAN
    BY DEF TagInv, TagTypeOK
  <2>5. CASE at[t] = "first"
    <3>1. Table(t) = IF q.nonBlockFirst THEN "otherTags" ELSE "blockTags"
      BY <2>4, <2>5 DEF Table
    <3>2. a = "second" => IF q.nonBlockFirst THEN q.tag \notin Words(otherTagInit)
                          ELSE filled[t] => q.tag \notin Words(blockTagInit)
      BY <1>1, <2>1, <2>2, <2>3, <3>1 DEF Contents
    <3>3. a = "answered" => v = Right(q)
      BY <1>1, <2>1, <2>5, <3>1 DEF Contents, Value, Right
    <3> QED
      BY <1>1, <1>3, <1>7, <2>1, <3>2, <3>3 DEF LookInv, AnswerInv
  <2>6. CASE at[t] = "second"
    <3>1. Table(t) = IF q.nonBlockFirst THEN "blockTags" ELSE "otherTags"
      BY <2>4, <2>6 DEF Table
    <3>2. a = "answered"
      BY <1>1, <2>6
    <3>3. IF q.nonBlockFirst THEN q.tag \notin Words(otherTagInit)
          ELSE filled[t] => q.tag \notin Words(blockTagInit)
      BY <1>5, <2>6 DEF Undisturbed, LookInv
    <3>4. Right(q) \in 0 .. 2
      BY DEF Right
    <3>5. v =< Right(q) /\ (filled[t] => v = Right(q))
      BY <1>1, <2>1, <2>2, <2>3, <2>6, <3>1, <3>3, <3>4 DEF Contents, Value, Right
    <3> QED
      BY <1>1, <1>3, <1>7, <2>1, <3>2, <3>5 DEF LookInv, AnswerInv
  <2> QED
    BY <1>2, <2>5, <2>6
<1> QED
  BY <1>7, <1>8, <1>9, <1>10 DEF Undisturbed

\* Every action keeps what the threads know of the tables.
LEMMA TagInvStep == FileInv /\ TagInv /\ [StaticNext]_staticVars => TagInv'
<1> SUFFICES ASSUME FileInv, TagInv, [StaticNext]_staticVars PROVE TagInv'
  OBVIOUS
<1>a. FileTypes
  BY DEF FileInv
<1>b. "read" \in Away /\ Away \cap (Filling \cup {"first", "second", "answered"}) = {}
  BY DEF Away, Filling
<1>1. ASSUME TagsUntouched, at' = at PROVE TagInv'
  <2>1. TagTypeOK'
    BY <1>1 DEF TagsUntouched, TagInv, TagTypeOK
  <2> QED
    BY <1>a, <1>1, <2>1, Apart DEF TagsUntouched
<1>2. ASSUME NEW t \in Threads, NEW b \in Away, at[t] \in Away, Goto(t, b), TagsUntouched
      PROVE  TagInv'
  <2>1. at' = [at EXCEPT ![t] = b]
    BY <1>2 DEF Goto
  <2>2. at'[t] = b /\ \A u \in Threads \ {t} : at'[u] = at[u]
    BY <1>a, <2>1 DEF FileTypes
  <2>3. TagTypeOK'
    BY <1>b, <1>2, <2>2 DEF TagsUntouched, TagInv, TagTypeOK, Filling
  <2> QED
    BY <1>a, <1>b, <1>2, <2>2, <2>3, Apart DEF TagsUntouched
<1>3. CASE UNCHANGED staticVars
  BY <1>1, <1>3 DEF staticVars, tagVars, TagsUntouched
<1>4. CASE RootGoes \/ \E p \in Paths : FileChanges(p)
  <2>1. UNCHANGED tagVars
    BY <1>4 DEF RootGoes, FileChanges, Notice
  <2> QED
    BY <1>1, <2>1 DEF tagVars, TagsUntouched
<1>5. ASSUME NEW t \in Threads, NEW u \in Uris, Call(t, u) PROVE TagInv'
  <2>1. TagsUntouched /\ at[t] \in Away /\ "exists" \in Away /\ "returned" \in Away
        /\ (Goto(t, "exists") \/ Goto(t, "returned"))
    BY <1>5 DEF Call, Away
  <2> QED
    BY <1>2, <2>1
<1>6. ASSUME NEW t \in Threads, Take(t) PROVE TagInv'
  <2>1. TagsUntouched /\ at[t] \in Away /\ "idle" \in Away /\ Goto(t, "idle")
    BY <1>6 DEF Take, Away
  <2> QED
    BY <1>2, <2>1
<1>7. ASSUME NEW t \in Threads,
             Exists(t) \/ IsRegularFile(t) \/ Canonical(t) \/ CanonicalRoot(t)
             \/ Open(t) \/ ReadFile(t) \/ (ReadMarkdown(t) /\ opened[t].kind # "file")
      PROVE  TagInv'
  <2>1. at[t] \in Away
    BY <1>7 DEF Exists, IsRegularFile, Canonical, CanonicalRoot, Open, ReadFile, ReadMarkdown, Away
  <2>2. PICK b \in Away : TagsUntouched /\ Goto(t, b)
    <3>1. {"regular", "canonical", "canonicalRoot", "open", "read", "returned"} \subseteq Away
      BY DEF Away
    <3>2. CASE Exists(t) \/ IsRegularFile(t)
      BY <3>1, <3>2 DEF Exists, IsRegularFile, Missing, Respond, Only
    <3>3. CASE Canonical(t) \/ CanonicalRoot(t)
      BY <3>1, <3>3 DEF Canonical, CanonicalRoot, Missing, Respond, Only
    <3>4. CASE Open(t)
      BY <3>1, <3>4 DEF Open, Missing, Respond
    <3>5. CASE ReadFile(t) \/ (ReadMarkdown(t) /\ opened[t].kind # "file")
      BY <3>1, <3>5 DEF ReadFile, ReadMarkdown, Respond
    <3> QED
      BY <1>7, <3>2, <3>3, <3>4, <3>5
  <2> QED
    BY <1>2, <2>1, <2>2
<1>8. ASSUME NEW t \in Threads, Throw(t) PROVE TagInv'
  BY <1>1, <1>8 DEF Throw, tagVars, TagsUntouched
<1>9. ASSUME NEW t \in Threads, ReadMarkdown(t), opened[t].kind = "file" PROVE TagInv'
  <2>1. PICK tag \in Tags, nonBlockFirst \in BOOLEAN : IsValidTag(t, tag, nonBlockFirst)
    BY <1>9 DEF ReadMarkdown
  <2> DEFINE q == [tag |-> tag, nonBlockFirst |-> nonBlockFirst]
  <2>2. q \in Query
    BY DEF Query
  <2>3. /\ query' = [query EXCEPT ![t] = q] /\ filled' = [filled EXCEPT ![t] = Filled]
        /\ at' = [at EXCEPT ![t] = "check"]
        /\ UNCHANGED <<otherTags, blockTags, init, valid, raced, died>>
    BY <2>1 DEF IsValidTag
  <2> HIDE DEF q
  <2>4. /\ at'[t] = "check" /\ filled'[t] = Filled /\ at[t] = "read"
        /\ \A u \in Threads \ {t} : at'[u] = at[u] /\ query'[u] = query[u] /\ filled'[u] = filled[u]
    BY <1>a, <1>9, <2>3 DEF FileTypes, TagInv, TagTypeOK, ReadMarkdown
  <2>5. query' \in [Threads -> Query] /\ filled' \in [Threads -> BOOLEAN]
    BY <2>2, <2>3 DEF TagInv, TagTypeOK, Query, Filled
  <2>6. TagTypeOK'
    BY <2>3, <2>4, <2>5 DEF TagInv, TagTypeOK, Query
  <2> QED
    BY <1>a, <1>b, <2>3, <2>4, <2>6, Apart
<1>10. ASSUME NEW t \in Threads, WriteMarkdown(t) PROVE TagInv'
  <2>1. /\ query' = [query EXCEPT ![t] = NoQuery] /\ filled' = [filled EXCEPT ![t] = FALSE]
        /\ valid' = [valid EXCEPT ![t] = 0] /\ at' = [at EXCEPT ![t] = "returned"]
        /\ at[t] = "answered"
        /\ UNCHANGED <<otherTags, blockTags, init, raced, died>>
    BY <1>10 DEF WriteMarkdown, Respond, Returned, Goto
  <2>2. /\ at'[t] = "returned" /\ ~filled'[t] /\ "returned" \in Away /\ at[t] \notin Filling
        /\ \A u \in Threads \ {t} : at'[u] = at[u] /\ query'[u] = query[u]
                                    /\ filled'[u] = filled[u] /\ valid'[u] = valid[u]
    BY <1>a, <2>1 DEF FileTypes, TagInv, TagTypeOK, Away, Filling
  <2>3. query' \in [Threads -> Query] /\ filled' \in [Threads -> BOOLEAN]
        /\ valid' \in [Threads -> 0 .. 2]
    BY <2>1, Nothings DEF TagInv, TagTypeOK, Query
  <2>4. TagTypeOK'
    BY <2>1, <2>2, <2>3 DEF TagInv, TagTypeOK, Query
  <2> QED
    BY <1>a, <2>1, <2>2, <2>4, Apart
<1>11. ASSUME NEW t \in Threads, TagStep(t) PROVE TagInv'
  <2>1. CASE Dies(t)
    <3>1. /\ died' = TRUE
          /\ UNCHANGED <<otherTags, blockTags, at, init, query, valid, filled, raced>>
      BY <2>1 DEF Dies
    <3>2. TagTypeOK'
      BY <3>1 DEF TagInv, TagTypeOK
    <3> QED
      BY <1>a, <3>1, <3>2, Apart
  <2> QED
    BY <1>a, <1>11, <2>1, CheckStep, FillStep, LookStep DEF TagStep
<1> QED
  BY <1>3, <1>4, <1>5, <1>6, <1>7, <1>8, <1>9, <1>10, <1>11 DEF StaticNext, HandleRequest
-----------------------------------------------------------------------------
\* What both parts know holds in every state.
LEMMA Invariant == StaticSpec => [](FileInv /\ TagInv)
BY FileInvInit, FileInvStep, TagInvInit, TagInvStep, PTL DEF StaticSpec

\* StaticHandler (static_handler.cc) answers each call with what the file it
\* looks at was at one moment of it, however many threads and changes of files
\* there are; behind a slash it is the file that is meant.
THEOREM AnswersAsItWas == StaticSpec => []AsItWas
<1>1. FileInv /\ TagInv => AsItWas
  BY DEF FileInv, TagInv, FileTypes, CallInv, Answered, InCall, Responses, AsItWas, StaticTypeOK
<1> QED
  BY <1>1, Invariant, PTL

\* StaticHandler ends the process only for a path that cannot be looked at, a
\* file that went while it was served, or one beside a root that is gone.
THEOREM ThrowsOnly == StaticSpec => []ThrowsOnlyInVain
<1>1. FileInv => ThrowsOnlyInVain
  BY DEF FileInv
<1> QED
  BY <1>1, Invariant, PTL

\* isValidTag (markdown-tokens.cpp) takes no tag for more than it is unless
\* two threads filled its tables at once, and once they are filled it is right.
THEOREM RightUnlessRaced == StaticSpec => []RightOnceFilled
<1>1. TagInv => RightOnceFilled
  BY DEF TagInv, Undisturbed, LookInv, AnswerInv, RightOnceFilled
<1> QED
  BY <1>1, Invariant, PTL
=============================================================================
