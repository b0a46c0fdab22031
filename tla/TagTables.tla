----------------------------- MODULE TagTables ------------------------------
(***************************************************************************)
(* isValidTag of the markdown library (markdown-tokens.cpp): what kind of  *)
(* HTML tag a name is, 2 for a block tag, 1 for another one, 0 for none,   *)
(* looked up in two tables that the first call fills.  There is no lock,   *)
(* and every thread that renders markdown calls it.                        *)
(***************************************************************************)
EXTENDS Integers, Sequences, FiniteSets, Functions

CONSTANTS
    Threads,     \* the threads that render markdown
    Tags,        \* the names that are looked up
    otherTagInit,\* cOtherTagInit and cBlockTagInit, as sequences of
    blockTagInit \* [name, closes]: closes is the "/" at the end of an entry

Entry == [name : Tags, closes : BOOLEAN]

ASSUME TagAssumption ==
    /\ otherTagInit \in Seq(Entry) /\ otherTagInit # << >>
    /\ blockTagInit \in Seq(Entry) /\ blockTagInit # << >>

VARIABLES
    otherTags, blockTags, \* the two tables
    at,         \* where each thread is in isValidTag, or in its caller
    init,       \* the entry of the list each thread is inserting
    query,      \* the arguments of isValidTag
    valid,      \* what it returned
    filled,     \* history: the tables were filled when the call began
    raced,      \* history: two threads ever filled the tables at once
    died        \* the process ended in a table that another thread changed

tagVars == <<otherTags, blockTags, at, init, query, valid, filled, raced, died>>

Filling == {"otherTags", "blockTags"}
InTables == {"check", "first", "second"} \cup Filling

\* A word of a table: the entry without its "/".
Str(e) == e.name

NoQuery == [tag |-> CHOOSE g \in Tags : TRUE, nonBlockFirst |-> FALSE]

Words(list) == {Str(e) : e \in Range(list)}

TagInit ==
    /\ otherTags = {} /\ blockTags = {}
    /\ init = [t \in Threads |-> 1]
    /\ query = [t \in Threads |-> NoQuery]
    /\ valid = [t \in Threads |-> 0]
    /\ filled = [t \in Threads |-> FALSE]
    /\ raced = FALSE
    /\ died = FALSE

Filled == blockTags # {} /\ \A t \in Threads : at[t] \notin Filling

IsValidTag(t, tag, nonBlockFirst) ==
    /\ query' = [query EXCEPT ![t] = [tag |-> tag, nonBlockFirst |-> nonBlockFirst]]
    /\ filled' = [filled EXCEPT ![t] = Filled]
    /\ at' = [at EXCEPT ![t] = "check"]
    /\ UNCHANGED <<otherTags, blockTags, init, valid, raced, died>>
-----------------------------------------------------------------------------
\* Wrong: the table that is tested is the first to be filled.
NextTableSwapped == [check |-> "blockTags", blockTags |-> "otherTags", otherTags |-> "first"]

NextTable == [check |-> "otherTags", otherTags |-> "blockTags", blockTags |-> "first"]

\* blockTags.empty(): the second of the tables decides for both.
Check(t) ==
    /\ at[t] = "check"
    /\ at' = [at EXCEPT ![t] = IF blockTags = {} THEN NextTable["check"] ELSE "first"]
    /\ init' = [init EXCEPT ![t] = 1]
    /\ raced' = (raced \/ (blockTags = {} /\ \E u \in Threads \ {t} : at[u] \in Filling))
    /\ UNCHANGED <<otherTags, blockTags, query, valid, filled, died>>

\* Another thread is in the middle of inserting into this table.
Changing(t, table) == \E u \in Threads \ {t} : at[u] = table

\* What is left of a table: all of it, or, if two threads change it at once,
\* any part of it.
Inserted(t, table, set, str) ==
    IF Changing(t, table) THEN SUBSET (set \cup {str}) ELSE {set \cup {str}}

Inserts(t, table) ==
    IF table = "otherTags"
    THEN /\ otherTags' \in Inserted(t, at[t], otherTags, Str(otherTagInit[init[t]]))
         /\ UNCHANGED blockTags
    ELSE /\ blockTags' \in Inserted(t, at[t], blockTags, Str(blockTagInit[init[t]]))
         /\ UNCHANGED otherTags

List(table) == IF table = "otherTags" THEN otherTagInit ELSE blockTagInit

Advance(t) ==
    IF init[t] < Len(List(at[t]))
    THEN init' = [init EXCEPT ![t] = @ + 1] /\ UNCHANGED at
    ELSE /\ init' = [init EXCEPT ![t] = 1]
         /\ at' = [at EXCEPT ![t] = NextTable[@]]

\* initTag of otherTags and then of blockTags, an insertion a step.
Fill(t) ==
    /\ at[t] \in Filling
    /\ Inserts(t, at[t])
    /\ Advance(t)
    /\ UNCHANGED <<query, valid, filled, raced, died>>

\* The table a look-up uses: nonBlockFirst says which one comes first.
Table(t) ==
    IF (at[t] = "first") = query[t].nonBlockFirst THEN "otherTags" ELSE "blockTags"

Contents(table) == IF table = "otherTags" THEN otherTags ELSE blockTags
Value(table) == IF table = "otherTags" THEN 1 ELSE 2

Answer(t, v, a) ==
    /\ valid' = [valid EXCEPT ![t] = v]
    /\ at' = [at EXCEPT ![t] = a]
    /\ UNCHANGED <<otherTags, blockTags, init, query, filled, raced, died>>

Found(t) ==
    /\ at[t] \in {"first", "second"}
    /\ query[t].tag \in Contents(Table(t))
    /\ Answer(t, Value(Table(t)), "answered")

\* find of a table that is rehashed meanwhile may miss what is there.
NotFound(t) ==
    /\ at[t] \in {"first", "second"}
    /\ query[t].tag \notin Contents(Table(t)) \/ Changing(t, Table(t))
    /\ Answer(t, 0, IF at[t] = "first" THEN "second" ELSE "answered")

\* A table that two threads use while one inserts may lead nowhere at all.
Dies(t) ==
    /\ \/ at[t] \in Filling /\ Changing(t, at[t])
       \/ at[t] \in {"first", "second"} /\ Changing(t, Table(t))
    /\ died' = TRUE
    /\ UNCHANGED <<otherTags, blockTags, at, init, query, valid, filled, raced>>

\* The caller has used the answer.
Returned(t) ==
    /\ query' = [query EXCEPT ![t] = NoQuery]
    /\ valid' = [valid EXCEPT ![t] = 0]
    /\ filled' = [filled EXCEPT ![t] = FALSE]
    /\ UNCHANGED <<otherTags, blockTags, init, raced, died>>

TagStep(t) == Check(t) \/ Fill(t) \/ Found(t) \/ NotFound(t) \/ Dies(t)
-----------------------------------------------------------------------------
TagTypeOK ==
    /\ otherTags \subseteq Words(otherTagInit)
    /\ blockTags \subseteq Words(blockTagInit)
    /\ init \in [Threads -> Nat \ {0}]
    /\ \A t \in Threads :
         /\ at[t] = "otherTags" => init[t] =< Len(otherTagInit)
         /\ at[t] = "blockTags" => init[t] =< Len(blockTagInit)
    /\ query \in [Threads -> [tag : Tags, nonBlockFirst : BOOLEAN]]
    /\ valid \in [Threads -> 0 .. 2]
    /\ filled \in [Threads -> BOOLEAN]
    /\ raced \in BOOLEAN /\ died \in BOOLEAN

\* What isValidTag returns when nothing interferes.
Right(q) ==
    LET inOther == q.tag \in Words(otherTagInit)
        inBlock == q.tag \in Words(blockTagInit)
    IN IF q.nonBlockFirst
       THEN IF inOther THEN 1 ELSE IF inBlock THEN 2 ELSE 0
       ELSE IF inBlock THEN 2 ELSE IF inOther THEN 1 ELSE 0

\* If one thread alone fills the tables, a call of another that runs meanwhile
\* takes a tag for less than it is, never for more: no inline tag opens a
\* block.  Calls that begin after that, at once with any others, are right.
RightOnceFilled ==
    ~raced => \A t \in Threads : at[t] = "answered" =>
        /\ valid[t] =< Right(query[t])
        /\ filled[t] => valid[t] = Right(query[t])
=============================================================================
