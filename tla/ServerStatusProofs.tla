------------------------- MODULE ServerStatusProofs -------------------------
(***************************************************************************)
(* Proofs about ServerStatus, for any threads, uris, codes and width of    *)
(* the counters.                                                           *)
(***************************************************************************)
EXTENDS ServerStatus, FiniteSetTheorems, TLAPS

USE DEF Count, Keys

\* The unsigned increment stays in range, and adds at most one.
LEMMA IncFacts ==
    ASSUME NEW n \in Count
    PROVE  /\ Inc(n) \in Count
           /\ Inc(n) =< n + 1
           /\ n + 1 < Wrap => Inc(n) = n + 1
BY StatusAssumption DEF Inc

\* Every action keeps the types.
LEMMA TypeStep == TypeOK /\ [StatusNext]_statusVars => TypeOK'
<1> SUFFICES ASSUME TypeOK, [StatusNext]_statusVars PROVE TypeOK'
  OBVIOUS
<1> USE DEF TypeOK, Updating, UpdateSteps
<1>0. CASE UNCHANGED statusVars
  BY <1>0 DEF statusVars
<1>1. ASSUME NEW t \in Threads, NEW k \in Keys, Begin(t, k) PROVE TypeOK'
  BY <1>1 DEF Begin, Goto, counters
<1>2. ASSUME NEW t \in Threads, Lookup(t) PROVE TypeOK'
  BY <1>2 DEF Lookup, Goto, counters, history
<1>3. ASSUME NEW t \in Threads, Insert(t) PROVE TypeOK'
  BY <1>3 DEF Insert, Goto, counters, history
<1>4. ASSUME NEW t \in Threads, Link(t) PROVE TypeOK'
  <2>1. key[t] \in Keys
    BY <1>4 DEF Link
  <2>2. PICK kept \in Survivors(t), mine \in Reachable(t) : LinkInto(t, kept, mine)
    BY <1>4 DEF Link
  <2>. /\ kept \in SUBSET nodes
       /\ mine \in BOOLEAN
    BY DEF Survivors, Reachable
  <2>3. nodes' \subseteq Keys /\ count' \in [Keys -> Count]
    BY <2>1, <2>2, StatusAssumption DEF LinkInto
  <2>4. page' \in [Threads -> Page]
    <3>1. page' = [u \in Threads |-> IF step[u] = "page" THEN [page[u] EXCEPT !.torn = TRUE]
                                                        ELSE page[u]]
      BY <1>4 DEF Link
    <3>2. \A p \in Page : [p EXCEPT !.torn = TRUE] \in Page
      BY DEF Page
    <3> QED
      BY <3>1, <3>2
  <2>5. step' \in [Threads -> UpdateSteps \cup {"idle", "page"}]
    BY <2>2 DEF LinkInto, Goto
  <2>6. \A u \in Updating' : key'[u] \in Keys
    BY <1>4, <2>1, <2>2 DEF Link, LinkInto, Goto
  <2> QED
    BY <1>4, <2>3, <2>4, <2>5, <2>6 DEF Link, history
<1>5. ASSUME NEW t \in Threads, Assign(t) PROVE TypeOK'
  <2>1. key[t] \in Keys
    BY <1>5 DEF Assign
  <2> QED
    BY <1>5, <2>1, StatusAssumption DEF Assign, Goto, Tally
<1>6. ASSUME NEW t \in Threads, Load(t) PROVE TypeOK'
  BY <1>6 DEF Load, Goto, counters, history
<1>7. ASSUME NEW t \in Threads, Store(t) PROVE TypeOK'
  <2>1. key[t] \in Keys
    BY <1>7 DEF Store
  <2>2. Inc(reg[t]) \in Count
    BY IncFacts
  <2> QED
    BY <1>7, <2>1, <2>2 DEF Store, Goto, Tally
<1>8. ASSUME NEW t \in Threads, LoadNum(t) PROVE TypeOK'
  BY <1>8 DEF LoadNum, Goto, counters, history
<1>9. ASSUME NEW t \in Threads, StoreNum(t) PROVE TypeOK'
  <2>1. Inc(reg[t]) \in Count
    BY IncFacts
  <2> QED
    BY <1>9, <2>1, StatusAssumption DEF StoreNum, Goto
<1>10. ASSUME NEW t \in Threads, BeginPage(t) PROVE TypeOK'
  BY <1>10 DEF BeginPage, Goto, Page, counters, history
<1>11. ASSUME NEW t \in Threads, NEW k \in Keys, ReadEntry(t, k) PROVE TypeOK'
  <2>1. page[t] \in Page /\ count[k] \in Nat
    BY StatusAssumption
  <2>2. Visit(page[t], k) \in Page
    BY <2>1 DEF Page, Visit
  <2>3. page' \in [Threads -> Page]
    BY <1>11, <2>2 DEF ReadEntry
  <2> QED
    BY <1>11, <2>3 DEF ReadEntry, counters, control, history
<1>12. ASSUME NEW t \in Threads, EndPage(t) PROVE TypeOK'
  BY <1>12 DEF EndPage, Goto, counters, history
<1>13. ASSUME NEW t \in Threads, TreeRace(t) PROVE TypeOK'
  BY <1>13 DEF TreeRace, counters, control, history
<1> QED
  BY <1>0, <1>1, <1>2, <1>3, <1>4, <1>5, <1>6, <1>7, <1>8, <1>9, <1>10, <1>11,
     <1>12, <1>13 DEF StatusNext, UpdateStep, PageStep

LEMMA InitTypes == StatusInit => TypeOK
<1> SUFFICES ASSUME StatusInit PROVE TypeOK
  OBVIOUS
<1>1. 0 \in Count
  BY StatusAssumption
<1>2. NoPage \in Page
  BY <1>1 DEF NoPage, Page
<1>3. Updating = {}
  BY DEF StatusInit, Updating, UpdateSteps
<1> QED
  BY <1>1, <1>2, <1>3 DEF StatusInit, TypeOK

\* Type correctness of the shared statistics (server_status.cc).
THEOREM TypeCorrect == StatusSpec => []TypeOK
  BY InitTypes, TypeStep, PTL DEF StatusSpec
-----------------------------------------------------------------------------
(***************************************************************************)
(* NeverOvercounts.  It is not inductive: what a thread has loaded must    *)
(* not exceed what has been counted either, and stays below it because     *)
(* finished and tallied never fall.                                        *)
(***************************************************************************)
LoadedNeverAhead ==
    \A t \in Threads :
        /\ step[t] = "storenum" => reg[t] =< finished
        /\ step[t] = "store" => reg[t] =< tallied[key[t]]

OvercountInv == TypeOK /\ NeverOvercounts /\ LoadedNeverAhead

LEMMA OvercountStep == OvercountInv /\ [StatusNext]_statusVars => OvercountInv'
<1> SUFFICES ASSUME OvercountInv, [StatusNext]_statusVars
             PROVE  NeverOvercounts' /\ LoadedNeverAhead'
  BY TypeStep DEF OvercountInv
<1> USE DEF OvercountInv, TypeOK, Updating, UpdateSteps, NeverOvercounts,
            LoadedNeverAhead
<1>0. CASE UNCHANGED statusVars
  BY <1>0 DEF statusVars
<1>1. ASSUME NEW t \in Threads, NEW k \in Keys, Begin(t, k)
      PROVE  NeverOvercounts' /\ LoadedNeverAhead'
  BY <1>1 DEF Begin, Goto, counters
<1>2. ASSUME NEW t \in Threads, Lookup(t)
      PROVE  NeverOvercounts' /\ LoadedNeverAhead'
  BY <1>2 DEF Lookup, Goto, counters, history
<1>3. ASSUME NEW t \in Threads, Insert(t)
      PROVE  NeverOvercounts' /\ LoadedNeverAhead'
  BY <1>3 DEF Insert, Goto, counters, history
<1>4. ASSUME NEW t \in Threads, Link(t)
      PROVE  NeverOvercounts' /\ LoadedNeverAhead'
  <2>1. PICK kept \in Survivors(t), mine \in Reachable(t) : LinkInto(t, kept, mine)
    BY <1>4 DEF Link
  <2>2. \A n \in Keys : count'[n] = count[n] \/ count'[n] = 0
    BY <2>1 DEF LinkInto
  <2>3. NeverOvercounts'
    BY <1>4, <2>2 DEF Link, history
  <2>4. LoadedNeverAhead'
    BY <1>4, <2>1 DEF Link, LinkInto, Goto, history
  <2> QED
    BY <2>3, <2>4
<1>5. ASSUME NEW t \in Threads, Assign(t)
      PROVE  NeverOvercounts' /\ LoadedNeverAhead'
  <2>1. key[t] \in Keys
    BY <1>5 DEF Assign
  <2>2. /\ tallied' = [tallied EXCEPT ![key[t]] = @ + 1]
        /\ \A n \in Keys : tallied[n] =< tallied'[n]
    BY <1>5, <2>1 DEF Assign, Tally
  <2>3. NeverOvercounts'
    BY <1>5, <2>1, <2>2 DEF Assign
  <2>4. LoadedNeverAhead'
    BY <1>5, <2>2 DEF Assign, Goto
  <2> QED
    BY <2>3, <2>4
<1>6. ASSUME NEW t \in Threads, Load(t)
      PROVE  NeverOvercounts' /\ LoadedNeverAhead'
  BY <1>6 DEF Load, Goto, counters, history
<1>7. ASSUME NEW t \in Threads, Store(t)
      PROVE  NeverOvercounts' /\ LoadedNeverAhead'
  <2>1. key[t] \in Keys
    BY <1>7 DEF Store
  <2>2. /\ tallied' = [tallied EXCEPT ![key[t]] = @ + 1]
        /\ \A n \in Keys : tallied[n] =< tallied'[n]
    BY <1>7, <2>1 DEF Store, Tally
  <2>3. Inc(reg[t]) =< tallied[key[t]] + 1 /\ Inc(reg[t]) \in Count
    BY <1>7, <2>1, IncFacts DEF Store
  <2>4. NeverOvercounts'
    BY <1>7, <2>1, <2>2, <2>3 DEF Store
  <2>5. LoadedNeverAhead'
    BY <1>7, <2>2 DEF Store, Goto
  <2> QED
    BY <2>4, <2>5
<1>8. ASSUME NEW t \in Threads, LoadNum(t)
      PROVE  NeverOvercounts' /\ LoadedNeverAhead'
  BY <1>8 DEF LoadNum, Goto, counters, history
<1>9. ASSUME NEW t \in Threads, StoreNum(t)
      PROVE  NeverOvercounts' /\ LoadedNeverAhead'
  <2>1. Inc(reg[t]) =< finished + 1 /\ Inc(reg[t]) \in Count
    BY <1>9, IncFacts DEF StoreNum
  <2> QED
    BY <1>9, <2>1 DEF StoreNum, Goto
<1>10. ASSUME NEW t \in Threads, BeginPage(t)
       PROVE  NeverOvercounts' /\ LoadedNeverAhead'
  BY <1>10 DEF BeginPage, Goto, counters, history
<1>11. ASSUME NEW t \in Threads, NEW k \in Keys, ReadEntry(t, k)
       PROVE  NeverOvercounts' /\ LoadedNeverAhead'
  BY <1>11 DEF ReadEntry, counters, control, history
<1>12. ASSUME NEW t \in Threads, EndPage(t)
       PROVE  NeverOvercounts' /\ LoadedNeverAhead'
  BY <1>12 DEF EndPage, Goto, counters, history
<1>13. ASSUME NEW t \in Threads, TreeRace(t)
       PROVE  NeverOvercounts' /\ LoadedNeverAhead'
  BY <1>13 DEF TreeRace, counters, control, history
<1> QED
  BY <1>0, <1>1, <1>2, <1>3, <1>4, <1>5, <1>6, <1>7, <1>8, <1>9, <1>10, <1>11,
     <1>12, <1>13 DEF StatusNext, UpdateStep, PageStep

\* However the threads race, UpdateStatus (server_status.cc:10-19) never
\* counts a request that was not there.
THEOREM NoOvercount == StatusSpec => []NeverOvercounts
<1>1. StatusInit => NeverOvercounts /\ LoadedNeverAhead
  BY DEF StatusInit, NeverOvercounts, LoadedNeverAhead
<1>2. OvercountInv => NeverOvercounts
  BY DEF OvercountInv
<1> QED
  BY <1>1, <1>2, InitTypes, OvercountStep, PTL DEF StatusSpec, OvercountInv
-----------------------------------------------------------------------------
(***************************************************************************)
(* SerialCountsExact.  While no two updates overlap, the one that runs     *)
(* finds its key in the map exactly when the key has been counted before,  *)
(* and what it has loaded is still there when it stores.                   *)
(***************************************************************************)
OneUpdate == \A t, u \in Updating : t = u

LookupRight ==
    /\ \A k \in Keys \ nodes : tallied[k] = 0
    /\ \A t \in Threads :
         /\ step[t] # "orphan"
         /\ step[t] \in {"insert", "inserting"} => key[t] \notin nodes
         /\ step[t] \in {"assign", "load", "store"} => key[t] \in nodes
         /\ step[t] = "assign" => tallied[key[t]] = 0

LoadedStill ==
    \A t \in Threads :
        /\ step[t] = "store" => reg[t] = count[key[t]]
        /\ step[t] = "storenum" => reg[t] = num_requests

TotalExact == finished < Wrap => num_requests = finished
EntriesExact == \A k \in Keys : tallied[k] < Wrap => count[k] = tallied[k]

Serial == OneUpdate /\ LookupRight /\ LoadedStill /\ TotalExact /\ EntriesExact

SerialInv == TypeOK /\ (~overlapped => Serial)

LEMMA SerialStep == SerialInv /\ [StatusNext]_statusVars => SerialInv'
<1> SUFFICES ASSUME SerialInv, [StatusNext]_statusVars, ~overlapped'
             PROVE  Serial'
  BY TypeStep DEF SerialInv
<1>a. ~overlapped
  BY DEF StatusNext, UpdateStep, PageStep, Begin, Lookup, Insert, Link, Assign,
         Load, Store, LoadNum, StoreNum, BeginPage, ReadEntry, EndPage, TreeRace,
         history, statusVars
<1>b. TypeOK /\ Serial
  BY <1>a DEF SerialInv
<1> USE DEF TypeOK, Serial, Updating, UpdateSteps, OneUpdate, LookupRight,
            LoadedStill, TotalExact, EntriesExact
<1>0. CASE UNCHANGED statusVars
  BY <1>0, <1>b DEF statusVars
<1>1. ASSUME NEW t \in Threads, NEW k \in Keys, Begin(t, k) PROVE Serial'
  BY <1>1, <1>b, ZenonT(40) DEF Begin, Goto, counters
<1>2. ASSUME NEW t \in Threads, Lookup(t) PROVE Serial'
  <2>1. ~Racing(t, key[t])
    BY <1>2, <1>b DEF Lookup, Racing, Rebalances
  <2>2. Goto(t, IF key[t] \in nodes THEN "load" ELSE "insert")
    BY <1>2, <2>1 DEF Lookup
  <2> QED
    BY <1>2, <1>b, <2>2 DEF Lookup, Goto, counters, history
<1>3. ASSUME NEW t \in Threads, Insert(t) PROVE Serial'
  BY <1>3, <1>b DEF Insert, Goto, counters, history
<1>4. ASSUME NEW t \in Threads, Link(t) PROVE Serial'
  <2>1. ~Racing(t, key[t]) /\ key[t] \in Keys \ nodes
    BY <1>4, <1>b DEF Link, Racing, Rebalances
  <2>2. LinkInto(t, nodes, TRUE)
    BY <1>4, <2>1 DEF Link, Survivors, Reachable
  <2>3. /\ nodes' = nodes \cup {key[t]}
        /\ count' = [count EXCEPT ![key[t]] = 0]
        /\ step' = [step EXCEPT ![t] = "assign"]
    <3>1. \A n \in Keys : tallied[n] = 0 => count[n] = 0
      BY <1>b, StatusAssumption
    <3> QED
      BY <1>b, <2>1, <2>2, <3>1, ZenonT(40) DEF LinkInto, Goto
  <2> QED
    BY <1>4, <1>b, <2>1, <2>3 DEF Link, history
<1>5. ASSUME NEW t \in Threads, Assign(t) PROVE Serial'
  BY <1>5, <1>b DEF Assign, Goto, Tally
<1>6. ASSUME NEW t \in Threads, Load(t) PROVE Serial'
  BY <1>6, <1>b DEF Load, Goto, counters, history
<1>7. ASSUME NEW t \in Threads, Store(t) PROVE Serial'
  <2>1. key[t] \in nodes /\ key[t] \in Keys /\ reg[t] = count[key[t]]
    BY <1>7, <1>b DEF Store
  <2>2. tallied[key[t]] + 1 < Wrap => Inc(reg[t]) = tallied[key[t]] + 1
    BY <1>b, <2>1, IncFacts, StatusAssumption
  <2>3. EntriesExact'
    BY <1>7, <1>b, <2>1, <2>2 DEF Store, Tally
  <2>4. LookupRight' /\ TotalExact' /\ LoadedStill' /\ OneUpdate'
    BY <1>7, <1>b, <2>1 DEF Store, Goto, Tally
  <2> QED
    BY <2>3, <2>4
<1>8. ASSUME NEW t \in Threads, LoadNum(t) PROVE Serial'
  BY <1>8, <1>b DEF LoadNum, Goto, counters, history
<1>9. ASSUME NEW t \in Threads, StoreNum(t) PROVE Serial'
  <2>1. finished + 1 < Wrap => Inc(reg[t]) = finished + 1
    BY <1>9, <1>b, IncFacts, StatusAssumption DEF StoreNum
  <2> QED
    BY <1>9, <1>b, <2>1 DEF StoreNum, Goto
<1>10. ASSUME NEW t \in Threads, BeginPage(t) PROVE Serial'
  BY <1>10, <1>b DEF BeginPage, Goto, counters, history
<1>11. ASSUME NEW t \in Threads, NEW k \in Keys, ReadEntry(t, k) PROVE Serial'
  BY <1>11, <1>b DEF ReadEntry, counters, control, history
<1>12. ASSUME NEW t \in Threads, EndPage(t) PROVE Serial'
  BY <1>12, <1>b DEF EndPage, Goto, counters, history
<1>13. ASSUME NEW t \in Threads, TreeRace(t) PROVE Serial'
  BY <1>13, <1>b DEF TreeRace, counters, control, history
<1> QED
  BY <1>0, <1>1, <1>2, <1>3, <1>4, <1>5, <1>6, <1>7, <1>8, <1>9, <1>10, <1>11,
     <1>12, <1>13 DEF StatusNext, UpdateStep, PageStep

\* The invariant holds in the initial states.
LEMMA SerialInit == StatusInit => SerialInv
<1>1. StatusInit => Serial
  BY StatusAssumption
     DEF StatusInit, Serial, OneUpdate, LookupRight, LoadedStill, TotalExact,
         EntriesExact, Updating, UpdateSteps
<1> QED
  BY <1>1, InitTypes DEF SerialInv

\* An update that meets no other counts its request exactly: UpdateStatus
\* (server_status.cc:10-19) would be right under a lock.
THEOREM SerialExact == StatusSpec => []SerialCountsExact
<1>1. SerialInv => SerialCountsExact
  BY DEF SerialInv, Serial, TotalExact, EntriesExact, SerialCountsExact
<1> QED
  BY <1>1, SerialInit, SerialStep, PTL DEF StatusSpec
-----------------------------------------------------------------------------
(***************************************************************************)
(* PageNeverAhead.  While updates do not overlap, what is left of a page   *)
(* that is being made still counts at least as many requests as the total  *)
(* it has read is ahead of what it has listed: a count only grows, and the *)
(* total was read when every request in it had been counted.               *)
(***************************************************************************)
\* The requests that the counts f add up to over the keys S, as a set: what
\* a sum over S would be is its cardinality.
Units(f, S) == {p \in S \X (Nat \ {0}) : p[2] =< f[p[1]]}

\* One key contributes its count.
LEMMA UnitsOfOne ==
    ASSUME NEW f, NEW S, NEW k \in S, f[k] \in Nat, IsFiniteSet(Units(f, S))
    PROVE  /\ IsFiniteSet(Units(f, S \ {k}))
           /\ Cardinality(Units(f, S)) = Cardinality(Units(f, S \ {k})) + f[k]
<1> DEFINE U == Units(f, S \ {k})
           V == {k} \X (1 .. f[k])
<1>1. Units(f, S) = U \cup V
  BY DEF Units
<1>2. U \cap V = {} /\ U \in SUBSET Units(f, S)
  BY DEF Units
<1>3. IsFiniteSet(U)
  BY <1>2, FS_Subset
<1>4. IsFiniteSet(V) /\ Cardinality(V) = f[k]
  <2>1. IsFiniteSet(1 .. f[k]) /\ Cardinality(1 .. f[k]) = f[k]
    <3>1. \A n \in Nat : /\ IsFiniteSet(1 .. n)
                         /\ Cardinality(1 .. n) = IF 1 > n THEN 0 ELSE n - 1 + 1
      BY FS_Interval, 1 \in Int, Nat \subseteq Int, Zenon
    <3>2. \A n \in Nat : (IF 1 > n THEN 0 ELSE n - 1 + 1) = n
      OBVIOUS
    <3> QED
      BY <3>1, <3>2, Zenon
  <2>2. IsFiniteSet({k}) /\ Cardinality({k}) = 1
    BY FS_Singleton
  <2>3. IsFiniteSet(V) /\ Cardinality(V) = 1 * Cardinality(1 .. f[k])
    BY <2>1, <2>2, FS_Product
  <2> QED
    BY <2>1, <2>3
<1> HIDE DEF U, V
<1>5. Cardinality(U \cup V) = Cardinality(U) + Cardinality(V) - 0
  BY <1>2, <1>3, <1>4, FS_Union, FS_EmptySet
<1>6. Cardinality(U) \in Nat
  BY <1>3, FS_CardinalityType
<1>7. Cardinality(Units(f, S)) = Cardinality(U) + f[k]
  BY <1>1, <1>4, <1>5, <1>6
<1> QED
  BY <1>3, <1>7 DEF U

\* Counting a request of one key adds one.
LEMMA UnitsCount ==
    ASSUME NEW S, NEW f \in [S -> Nat], NEW k \in S, NEW T \in SUBSET S,
           NEW g, g[k] = f[k] + 1, \A l \in S \ {k} : g[l] = f[l],
           IsFiniteSet(Units(f, S))
    PROVE  /\ IsFiniteSet(Units(g, T)) /\ IsFiniteSet(Units(f, T))
           /\ Cardinality(Units(g, T)) \in Nat /\ Cardinality(Units(f, T)) \in Nat
           /\ k \in T => Cardinality(Units(g, T)) = Cardinality(Units(f, T)) + 1
           /\ k \notin T => Cardinality(Units(g, T)) = Cardinality(Units(f, T))
<1> DEFINE x == <<k, f[k] + 1>>
<1>1. Units(f, T) \in SUBSET Units(f, S)
  BY DEF Units
<1>2. IsFiniteSet(Units(f, T))
  BY <1>1, FS_Subset
<1>3. CASE k \in T
  <2>1. Units(g, T) = Units(f, T) \cup {x}
    BY <1>3 DEF Units
  <2>2. x \notin Units(f, T)
    BY DEF Units
  <2> HIDE DEF x
  <2>3. /\ IsFiniteSet(Units(g, T))
        /\ Cardinality(Units(g, T)) = Cardinality(Units(f, T)) + 1
    <3>1. /\ IsFiniteSet(Units(f, T) \cup {x})
          /\ Cardinality(Units(f, T) \cup {x}) = Cardinality(Units(f, T)) + 1
      BY <1>2, <2>2, FS_AddElement
    <3> QED
      BY <2>1, <3>1, Zenon
  <2>4. Cardinality(Units(f, T)) \in Nat
    BY <1>2, FS_CardinalityType
  <2> QED
    BY <1>2, <1>3, <2>3, <2>4
<1>4. CASE k \notin T
  <2>1. Units(g, T) = Units(f, T)
    BY <1>4 DEF Units
  <2> QED
    BY <1>2, <1>4, <2>1, FS_CardinalityType
<1> QED
  BY <1>3, <1>4

\* No counter has wrapped.
Unwrapped == finished < Wrap /\ \A k \in Keys : tallied[k] < Wrap

\* Every request in the total is in the counts, and so is the one whose
\* update is between the two.
AllCounted == /\ IsFiniteSet(Units(tallied, Keys))
              /\ finished + (IF \E t \in Threads : step[t] \in {"loadnum", "storenum"}
                             THEN 1 ELSE 0)
                    =< Cardinality(Units(tallied, Keys))

\* What a page has listed and what it has still to list add up to its total.
Covered(t) ==
    /\ step[t] # "page" => page[t].todo = {}
    /\ page[t].total =< page[t].listed + Cardinality(Units(tallied, page[t].todo))

PagesCovered == \A t \in Threads : ~page[t].torn => Covered(t)

PageInv == /\ SerialInv
           /\ ~overlapped /\ Unwrapped => AllCounted /\ PagesCovered

\* A part of a finite set of requests is finite.
LEMMA UnitsFinite ==
    ASSUME IsFiniteSet(Units(tallied, Keys)), NEW S \in SUBSET Keys
    PROVE  IsFiniteSet(Units(tallied, S)) /\ Cardinality(Units(tallied, S)) \in Nat
<1>1. Units(tallied, S) \in SUBSET Units(tallied, Keys)
  BY DEF Units
<1> QED
  BY <1>1, FS_Subset, FS_CardinalityType

\* A step that counts the key of the one update.
LEMMA TallyPage ==
    ASSUME PageInv, ~overlapped, Unwrapped, NEW t \in Threads, t \in Updating,
           Tally(t), step[t] \notin {"loadnum", "storenum"},
           step' = [step EXCEPT ![t] = "loadnum"], UNCHANGED <<page, finished>>
    PROVE  AllCounted' /\ PagesCovered'
<1> USE DEF TypeOK, Updating, UpdateSteps
<1>1. TypeOK /\ OneUpdate /\ AllCounted /\ PagesCovered
  BY DEF PageInv, SerialInv, Serial
<1>2. key[t] \in Keys /\ tallied' = [tallied EXCEPT ![key[t]] = @ + 1]
  BY <1>1 DEF Tally
<1>3. ~ \E u \in Threads : step[u] \in {"loadnum", "storenum"}
  BY <1>1 DEF OneUpdate
<1>4. ASSUME NEW T \in SUBSET Keys
      PROVE  /\ IsFiniteSet(Units(tallied', T))
             /\ Cardinality(Units(tallied', T)) \in Nat
             /\ Cardinality(Units(tallied, T)) \in Nat
             /\ key[t] \in T =>
                  Cardinality(Units(tallied', T)) = Cardinality(Units(tallied, T)) + 1
             /\ key[t] \notin T =>
                  Cardinality(Units(tallied', T)) = Cardinality(Units(tallied, T))
  <2>1. tallied \in [Keys -> Nat] /\ IsFiniteSet(Units(tallied, Keys))
    BY <1>1 DEF AllCounted
  <2>2. /\ tallied'[key[t]] = tallied[key[t]] + 1
        /\ \A l \in Keys \ {key[t]} : tallied'[l] = tallied[l]
    BY <1>2, <2>1
  <2> HIDE DEF Keys
  <2> DEFINE f == tallied
             g == tallied'
             k == key[t]
  <2>3. /\ f \in [Keys -> Nat] /\ k \in Keys /\ g[k] = f[k] + 1
        /\ \A l \in Keys \ {k} : g[l] = f[l]
        /\ IsFiniteSet(Units(f, Keys))
    BY <1>2, <2>1, <2>2
  <2> HIDE DEF f, g, k
  <2>4. /\ IsFiniteSet(Units(g, T))
        /\ Cardinality(Units(g, T)) \in Nat /\ Cardinality(Units(f, T)) \in Nat
        /\ k \in T => Cardinality(Units(g, T)) = Cardinality(Units(f, T)) + 1
        /\ k \notin T => Cardinality(Units(g, T)) = Cardinality(Units(f, T))
    BY <2>3, UnitsCount
  <2> QED
    BY <2>4 DEF f, g, k
<1>5. AllCounted'
  <2>1. finished =< Cardinality(Units(tallied, Keys)) /\ finished \in Nat
    BY <1>1, <1>3 DEF AllCounted
  <2> HIDE DEF Keys
  <2>2. /\ IsFiniteSet(Units(tallied', Keys))
        /\ finished + 1 =< Cardinality(Units(tallied', Keys))
    <3>1. /\ IsFiniteSet(Units(tallied', Keys))
          /\ Cardinality(Units(tallied, Keys)) \in Nat
          /\ Cardinality(Units(tallied', Keys)) = Cardinality(Units(tallied, Keys)) + 1
      BY <1>2, <1>4
    <3> QED
      BY <2>1, <3>1
  <2>3. Units(tallied, Keys)' = Units(tallied', Keys)
    BY DEF Units, Keys
  <2>4. Cardinality(Units(tallied', Keys)) \in Nat
    BY <1>4
  <2> QED
    BY <2>1, <2>2, <2>3, <2>4 DEF AllCounted
<1>6. PagesCovered'
  <2> SUFFICES ASSUME NEW u \in Threads, ~page[u].torn PROVE Covered(u)'
    BY DEF PagesCovered
  <2>1. Covered(u) /\ page[u] \in Page
    BY <1>1 DEF PagesCovered
  <2>2. page[u].todo \in SUBSET Keys /\ page[u].total \in Nat /\ page[u].listed \in Nat
    BY <2>1, StatusAssumption DEF Page
  <2>3. page[u].total =< page[u].listed + Cardinality(Units(tallied', page[u].todo))
    BY <1>4, <2>1, <2>2 DEF Covered
  <2>4. step'[u] # "page" => page[u].todo = {}
    BY <1>1, <2>1 DEF Covered
  <2>5. Units(tallied, page[u].todo)' = Units(tallied', page[u].todo)
    BY DEF Units
  <2> QED
    BY <2>3, <2>4, <2>5 DEF Covered
<1> QED
  BY <1>5, <1>6

\* Every action keeps the pages covered.
LEMMA PageInvStep == PageInv /\ [StatusNext]_statusVars => PageInv'
<1> SUFFICES ASSUME PageInv, [StatusNext]_statusVars, ~overlapped', Unwrapped'
             PROVE  AllCounted' /\ PagesCovered'
  BY SerialStep DEF PageInv
<1> USE DEF TypeOK, Updating, UpdateSteps
<1>a. ~overlapped
  BY DEF StatusNext, UpdateStep, PageStep, Begin, Lookup, Insert, Link, Assign,
         Load, Store, LoadNum, StoreNum, BeginPage, ReadEntry, EndPage, TreeRace,
         history, statusVars
<1>b. TypeOK /\ Serial
  BY <1>a DEF PageInv, SerialInv
<1>c. Unwrapped
  <2>1. \/ UNCHANGED <<finished, tallied>>
        \/ \E t \in Threads : t \in Updating /\ Tally(t) /\ finished' = finished
        \/ finished' = finished + 1 /\ tallied' = tallied
    BY DEF StatusNext, UpdateStep, PageStep, Begin, Lookup, Insert, Link, Assign,
         Load, Store, LoadNum, StoreNum, BeginPage, ReadEntry, EndPage, TreeRace,
         history, statusVars
  <2>2. ASSUME NEW t \in Threads, t \in Updating, Tally(t)
        PROVE  \A k \in Keys : tallied[k] =< tallied'[k]
    BY <1>b, <2>2 DEF Tally
  <2>3. \A k \in Keys : tallied[k] \in Nat /\ (tallied' = tallied => tallied'[k] = tallied[k])
    BY <1>b
  <2>4. finished < Wrap
    BY <1>b, <2>1, StatusAssumption DEF Unwrapped
  <2>5. \A k \in Keys : tallied[k] =< tallied'[k]
    BY <2>1, <2>2, <2>3
  <2>6. ASSUME NEW k \in Keys PROVE tallied[k] < Wrap
    <3>1. tallied'[k] < Wrap /\ tallied[k] =< tallied'[k] /\ tallied[k] \in Nat
      BY <2>3, <2>5 DEF Unwrapped
    <3>2. tallied'[k] \in Int
      BY <1>b, <2>1, <2>3 DEF Tally
    <3> QED
      BY <3>1, <3>2, StatusAssumption
  <2> QED
    BY <2>4, <2>6 DEF Unwrapped
<1>d. AllCounted /\ PagesCovered
  BY <1>a, <1>c DEF PageInv
<1>0. ASSUME UNCHANGED <<finished, tallied, page>>,
             (\E t \in Threads : step'[t] \in {"loadnum", "storenum"}) =>
                 \E t \in Threads : step[t] \in {"loadnum", "storenum"},
             \A t \in Threads : step[t] = "page" <=> step'[t] = "page"
      PROVE  AllCounted' /\ PagesCovered'
  <2>1. AllCounted'
    <3>1. Units(tallied, Keys)' = Units(tallied, Keys)
      BY <1>0 DEF Units
    <3>2. Cardinality(Units(tallied, Keys)) \in Nat
      BY <1>d, FS_CardinalityType DEF AllCounted
    <3> HIDE DEF Keys
    <3> QED
      BY <1>0, <1>b, <1>d, <3>1, <3>2 DEF AllCounted
  <2>2. PagesCovered'
    <3>1. \A t \in Threads : Units(tallied, page[t].todo)' = Units(tallied, page[t].todo)
      BY <1>0 DEF Units
    <3> QED
      BY <1>0, <1>d, <3>1 DEF PagesCovered, Covered
  <2> QED
    BY <2>1, <2>2
<1>1. CASE UNCHANGED statusVars
  BY <1>0, <1>1 DEF statusVars
<1>2. ASSUME NEW t \in Threads,
             \/ \E k \in Keys : Begin(t, k)
             \/ Lookup(t) \/ Insert(t) \/ Load(t) \/ LoadNum(t) \/ TreeRace(t)
      PROVE  AllCounted' /\ PagesCovered'
  BY <1>0, <1>2, <1>b DEF Begin, Lookup, Insert, Load, LoadNum, TreeRace, Goto, counters, control, history
<1>3. ASSUME NEW t \in Threads, Assign(t) \/ Store(t) PROVE AllCounted' /\ PagesCovered'
  <2>1. /\ t \in Updating /\ Tally(t) /\ step[t] \notin {"loadnum", "storenum"}
        /\ step' = [step EXCEPT ![t] = "loadnum"] /\ UNCHANGED <<page, finished>>
    BY <1>3 DEF Assign, Store, Goto
  <2> QED
    BY <1>a, <1>c, <2>1, TallyPage
<1>4. ASSUME NEW t \in Threads, StoreNum(t) PROVE AllCounted' /\ PagesCovered'
  <2>1. /\ step[t] = "storenum" /\ step' = [step EXCEPT ![t] = "idle"]
        /\ finished' = finished + 1 /\ UNCHANGED <<tallied, page>>
    BY <1>4 DEF StoreNum, Goto
  <2>2. ~ \E u \in Threads : step'[u] \in {"loadnum", "storenum"}
    BY <1>b, <2>1 DEF Serial, OneUpdate
  <2>3. AllCounted'
    <3>1. Units(tallied, Keys)' = Units(tallied, Keys)
      BY <2>1 DEF Units
    <3>2. Cardinality(Units(tallied, Keys)) \in Nat
      BY <1>d, FS_CardinalityType DEF AllCounted
    <3> HIDE DEF Keys
    <3> QED
      BY <1>b, <1>d, <2>1, <2>2, <3>1, <3>2 DEF AllCounted
  <2>4. PagesCovered'
    <3>1. \A u \in Threads : Units(tallied, page[u].todo)' = Units(tallied, page[u].todo)
      BY <2>1 DEF Units
    <3> QED
      BY <1>b, <1>d, <2>1, <3>1 DEF PagesCovered, Covered
  <2> QED
    BY <2>3, <2>4
<1>5. ASSUME NEW t \in Threads, Link(t) PROVE AllCounted' /\ PagesCovered'
  <2>1. /\ UNCHANGED <<tallied, finished>> /\ step[t] = "inserting"
        /\ \/ step' = [step EXCEPT ![t] = "assign"]
           \/ step' = [step EXCEPT ![t] = "orphan"]
    BY <1>5 DEF Link, LinkInto, Goto, history
  <2>2. AllCounted'
    <3>1. Units(tallied, Keys)' = Units(tallied, Keys)
      BY <2>1 DEF Units
    <3>2. Cardinality(Units(tallied, Keys)) \in Nat
      BY <1>d, FS_CardinalityType DEF AllCounted
    <3>3. ~ \E u \in Threads : step'[u] \in {"loadnum", "storenum"}
      BY <1>b, <2>1 DEF Serial, OneUpdate
    <3> HIDE DEF Keys
    <3> QED
      BY <1>b, <1>d, <2>1, <3>1, <3>2, <3>3 DEF AllCounted
  <2>3. PagesCovered'
    <3> SUFFICES ASSUME NEW u \in Threads, ~page'[u].torn PROVE Covered(u)'
      BY DEF PagesCovered
    <3>1. page'[u] = page[u] /\ step[u] # "page" /\ step'[u] # "page"
      BY <1>5, <1>b, <2>1 DEF Link, Page
    <3>2. Units(tallied, page[u].todo)' = Units(tallied, page[u].todo)
      BY <2>1, <3>1 DEF Units
    <3> QED
      BY <1>d, <2>1, <3>1, <3>2 DEF PagesCovered, Covered
  <2> QED
    BY <2>2, <2>3
<1>6. ASSUME NEW t \in Threads, BeginPage(t) \/ EndPage(t) \/ \E k \in Keys : ReadEntry(t, k)
      PROVE  AllCounted' /\ PagesCovered'
  <2>1. /\ UNCHANGED <<tallied, finished>>
        /\ step[t] \notin {"loadnum", "storenum"} /\ step'[t] \notin {"loadnum", "storenum"}
        /\ \A u \in Threads \ {t} : step'[u] = step[u] /\ page'[u] = page[u]
    BY <1>6, <1>b DEF BeginPage, EndPage, ReadEntry, Goto, control, history
  <2>2. AllCounted'
    <3>1. Units(tallied, Keys)' = Units(tallied, Keys)
      BY <2>1 DEF Units
    <3>2. Cardinality(Units(tallied, Keys)) \in Nat
      BY <1>d, FS_CardinalityType DEF AllCounted
    <3>3. (\E u \in Threads : step'[u] \in {"loadnum", "storenum"})
            => \E u \in Threads : step[u] \in {"loadnum", "storenum"}
      BY <2>1
    <3> HIDE DEF Keys
    <3> QED
      BY <1>b, <1>d, <2>1, <3>1, <3>2, <3>3 DEF AllCounted
  <2>u. \A S : Units(tallied', S) = Units(tallied, S)
    BY <2>1 DEF Units
  <2>3. ASSUME ~page'[t].torn PROVE Covered(t)'
    <3>1. CASE BeginPage(t)
      <4>1. /\ page'[t] = [total |-> num_requests, todo |-> nodes, listed |-> 0, torn |-> FALSE]
            /\ step'[t] = "page"
        BY <1>b, <3>1 DEF BeginPage, Goto
      <4>2. num_requests = finished /\ Units(tallied, nodes) = Units(tallied, Keys)
        BY <1>b, <1>c DEF Serial, TotalExact, Unwrapped, LookupRight, Units
      <4>3. finished =< Cardinality(Units(tallied, Keys))
        <5>1. Cardinality(Units(tallied, Keys)) \in Nat
          BY <1>d, FS_CardinalityType DEF AllCounted
        <5> QED
          BY <1>b, <1>d, <5>1 DEF AllCounted
      <4>4. num_requests =< 0 + Cardinality(Units(tallied', nodes))
        <5>1. Cardinality(Units(tallied, Keys)) \in Nat
          BY <1>d, FS_CardinalityType DEF AllCounted
        <5> QED
          BY <2>u, <4>2, <4>3, <5>1
      <4> QED
        BY <4>1, <4>4 DEF Covered, Units
    <3>2. ASSUME NEW k \in Keys, ReadEntry(t, k) PROVE Covered(t)'
      <4>1. /\ step[t] = "page" /\ step'[t] = "page" /\ k \in page[t].todo
            /\ page'[t] = Visit(page[t], k)
        BY <1>b, <3>2 DEF ReadEntry, control
      <4>2. /\ page[t] \in Page /\ ~page[t].torn
            /\ page'[t].todo = page[t].todo \ {k}
            /\ page'[t].total = page[t].total
            /\ page'[t].listed = page[t].listed + count[k]
        BY <1>b, <2>3, <4>1 DEF Visit
      <4>3. count[k] = tallied[k] /\ tallied[k] \in Nat
        BY <1>b, <1>c DEF Serial, EntriesExact, Unwrapped
      <4>4. page[t].todo \in SUBSET Keys /\ page[t].total \in Nat /\ page[t].listed \in Nat
        BY <4>2, StatusAssumption DEF Page
      <4>5. IsFiniteSet(Units(tallied, page[t].todo))
        BY <1>d, <4>4, UnitsFinite DEF AllCounted
      <4>6. /\ Cardinality(Units(tallied, page[t].todo)) =
                 Cardinality(Units(tallied, page[t].todo \ {k})) + tallied[k]
            /\ IsFiniteSet(Units(tallied, page[t].todo \ {k}))
        BY <4>1, <4>3, <4>5, UnitsOfOne
      <4>7. Cardinality(Units(tallied, page[t].todo \ {k})) \in Nat
        BY <4>6, FS_CardinalityType
      <4>8. page[t].total =< page[t].listed + Cardinality(Units(tallied, page[t].todo))
        BY <1>d, <4>2 DEF PagesCovered, Covered
      <4>9. page'[t].total =< page'[t].listed + Cardinality(Units(tallied', page'[t].todo))
        BY <2>u, <4>2, <4>3, <4>4, <4>6, <4>7, <4>8
      <4>10. Units(tallied, page[t].todo)' = Units(tallied', page'[t].todo)
        BY DEF Units
      <4> QED
        BY <4>1, <4>9, <4>10 DEF Covered
    <3>3. CASE EndPage(t)
      <4>1. page'[t] = page[t] /\ page[t].todo = {} /\ step'[t] # "page" /\ ~page[t].torn
        BY <1>b, <2>3, <3>3 DEF EndPage, Goto
      <4>2. Units(tallied, page[t].todo)' = Units(tallied, page[t].todo)
        BY <2>1, <4>1 DEF Units
      <4> QED
        BY <1>d, <4>1, <4>2 DEF PagesCovered, Covered
    <3> QED
      BY <1>6, <3>1, <3>2, <3>3
  <2>4. ASSUME NEW u \in Threads \ {t}, ~page'[u].torn PROVE Covered(u)'
    <3>1. page'[u] = page[u] /\ step'[u] = step[u]
      BY <2>1
    <3>2. Units(tallied, page[u].todo)' = Units(tallied, page[u].todo)
      BY <2>1, <3>1 DEF Units
    <3> QED
      BY <1>d, <2>4, <3>1, <3>2 DEF PagesCovered, Covered
  <2> QED
    BY <2>2, <2>3, <2>4 DEF PagesCovered
<1> QED
  BY <1>1, <1>2, <1>3, <1>4, <1>5, <1>6 DEF StatusNext, UpdateStep, PageStep

\* The order in which UpdateStatus and ToHtml (server_status.cc:10-19, 44-50) touch
\* the lists and the total keeps a page from announcing more than it lists.
THEOREM PagesNeverAhead == StatusSpec => []PageNeverAhead
<1>1. StatusInit => PageInv
  <2> SUFFICES ASSUME StatusInit PROVE PageInv
    OBVIOUS
  <2>1. SerialInv
    BY SerialInit
  <2>2. \A S : S \subseteq Keys => Units(tallied, S) = {}
    BY DEF StatusInit, Units
  <2>3. AllCounted
    <3>1. Units(tallied, Keys) = {} /\ finished = 0
      BY <2>2 DEF StatusInit
    <3>2. ~ \E t \in Threads : step[t] \in {"loadnum", "storenum"}
      BY DEF StatusInit
    <3> HIDE DEF Keys
    <3> QED
      BY <3>1, <3>2, FS_EmptySet DEF AllCounted
  <2>4. PagesCovered
    <3> SUFFICES ASSUME NEW t \in Threads PROVE Covered(t)
      BY DEF PagesCovered
    <3>1. page[t] = NoPage /\ Units(tallied, NoPage.todo) = {}
      BY <2>2 DEF StatusInit, NoPage
    <3> QED
      BY <3>1, FS_EmptySet DEF Covered, NoPage
  <2> QED
    BY <2>1, <2>3, <2>4 DEF PageInv
<1>2. PageInv => PageNeverAhead
  <2> SUFFICES ASSUME PageInv, ~overlapped, Unwrapped,
                      NEW t \in Threads, step[t] # "page", ~page[t].torn
               PROVE  page[t].total =< page[t].listed
    BY DEF PageNeverAhead, Unwrapped
  <2>1. Covered(t) /\ page[t] \in Page
    BY DEF PageInv, PagesCovered, SerialInv, TypeOK
  <2>2. Units(tallied, page[t].todo) = {}
    BY <2>1 DEF Covered, Units
  <2>3. page[t].total \in Nat /\ page[t].listed \in Nat
    BY <2>1, StatusAssumption DEF Page
  <2> QED
    BY <2>1, <2>2, <2>3, FS_EmptySet DEF Covered
<1> QED
  BY <1>1, <1>2, PageInvStep, PTL DEF StatusSpec
=============================================================================
