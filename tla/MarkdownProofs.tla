--------------------------- MODULE MarkdownProofs ---------------------------
(***************************************************************************)
(* Proofs about the markdown library: Emphasis, for texts and lists of any *)
(* length (matched markers come in pairs, and have an id of their own),    *)
(* and MarkdownBlocks, for documents of any length.                        *)
(***************************************************************************)
EXTENDS Emphasis, MarkdownBlocks, SequenceFacts

Some == [openMarker : BOOLEAN, tokenCharacter : Characters, size : Int, match : Nat,
         cannotMatch : BOOLEAN, disabled : BOOLEAN, id : Int]

\* The list is an order of all the markers.
ListTypes ==
    /\ markers \in Seq(Some)
    /\ tgt \in Seq(Nat)
    /\ Len(tgt) = Len(markers)
    /\ \A a \in 1 .. Len(tgt) : tgt[a] \in 1 .. Len(markers)
    /\ \A a, b \in 1 .. Len(tgt) : tgt[a] = tgt[b] => a = b

WalkTypes ==
    /\ ii \in 1 .. Len(tgt) + 1 /\ iii \in Nat /\ id \in Nat
    /\ openMatches \in Seq(Nat)
    /\ phase \in {"match", "search", "unmatch", "done"}
    /\ phase = "search" => /\ ii =< Len(tgt) /\ IsUnmatchedOpenMarker(At(ii))
                           /\ iii \in ii + 1 .. Len(tgt) + 1
    /\ phase \in {"match", "search"} => openMatches = << >>

\* The markers at two positions are matched with each other.
PairAt(a, b) ==
    /\ At(a).match = tgt[b] /\ At(b).match = tgt[a]
    /\ a # b /\ (At(a).openMarker <=> a < b) /\ (At(b).openMarker <=> b < a)
    /\ At(a).tokenCharacter = At(b).tokenCharacter /\ At(a).size = At(b).size
    /\ At(a).id = At(b).id /\ At(a).id \in 0 .. id - 1
    /\ ~At(a).disabled /\ ~At(b).disabled

Paired == \A a \in 1 .. Len(tgt) : At(a).match # 0 => \E b \in 1 .. Len(tgt) : PairAt(a, b)

\* A marker that was split is not matched.
SplitApart == \A a \in 1 .. Len(tgt) : At(a).disabled \/ At(a).cannotMatch =>
                  At(a).match = 0 /\ At(a).cannotMatch

OneId == \A a, b \in 1 .. Len(tgt) :
    /\ At(a).match # 0 /\ At(a).openMarker
    /\ At(b).match # 0 /\ At(b).openMarker
    /\ At(a).id = At(b).id
    => a = b

PairInv == ListTypes /\ WalkTypes /\ Paired /\ SplitApart /\ OneId
-----------------------------------------------------------------------------
(***************************************************************************)
(* Splitting.                                                              *)
(***************************************************************************)
\* Where what is at a position of the list was before the split of i.
Before(a, i) == IF a =< i THEN a ELSE a - 2

LEMMA RestFacts ==
    ASSUME NEW s \in Seq(Nat), NEW i \in 1 .. Len(s)
    PROVE  /\ SubSeq(s, i + 1, Len(s)) \in Seq(Nat)
           /\ Len(SubSeq(s, i + 1, Len(s))) = Len(s) - i
           /\ \A a \in 1 .. Len(s) - i : SubSeq(s, i + 1, Len(s))[a] = s[a + i]
<1>1. PICK j \in Int : j = i + 1
  OBVIOUS
<1>2. Len(s) \in Nat /\ \A a \in j .. Len(s) : s[a] \in Nat
  BY <1>1
<1>3. /\ SubSeq(s, j, Len(s)) \in Seq(Nat)
      /\ Len(SubSeq(s, j, Len(s))) = IF j =< Len(s) THEN Len(s) - j + 1 ELSE 0
      /\ \A a \in 1 .. Len(s) - j + 1 : SubSeq(s, j, Len(s))[a] = s[j + a - 1]
  BY <1>2, SubSeqProperties
<1>4. /\ Len(s) - j + 1 = Len(s) - i /\ (~(j =< Len(s)) => Len(s) - i = 0)
      /\ \A a \in 1 .. Len(s) - i : j + a - 1 = a + i
  BY <1>1, <1>2
<1>5. Len(SubSeq(s, j, Len(s))) = Len(s) - i
  BY <1>3, <1>4
<1>6. \A a \in 1 .. Len(s) - i : SubSeq(s, j, Len(s))[a] = s[a + i]
  BY <1>3, <1>4
<1> QED
  BY <1>1, <1>3, <1>5, <1>6

LEMMA InsertFacts ==
    ASSUME NEW s \in Seq(Nat), NEW i \in 1 .. Len(s), NEW x \in Nat
    PROVE  /\ InsertAt(s, i + 1, x) \in Seq(Nat)
           /\ Len(InsertAt(s, i + 1, x)) = Len(s) + 1
           /\ \A a \in 1 .. i : InsertAt(s, i + 1, x)[a] = s[a]
           /\ InsertAt(s, i + 1, x)[i + 1] = x
           /\ \A a \in i + 2 .. Len(s) + 1 : InsertAt(s, i + 1, x)[a] = s[a - 1]
<1> DEFINE l == SubSeq(s, 1, i)
           r == SubSeq(s, i + 1, Len(s))
           lx == l \o <<x>>
<1>0. Len(s) \in Nat /\ i \in Nat /\ \A a \in 1 .. Len(s) : s[a] \in Nat
  OBVIOUS
<1>1. l \in Seq(Nat) /\ Len(l) = i /\ \A a \in 1 .. i : l[a] = s[a]
  <2>1. \A a \in 1 .. i : s[a] \in Nat
    BY <1>0
  <2>2. /\ l \in Seq(Nat) /\ Len(l) = IF 1 =< i THEN i - 1 + 1 ELSE 0
        /\ \A a \in 1 .. i - 1 + 1 : l[a] = s[1 + a - 1]
    BY <1>0, <2>1, SubSeqProperties
  <2>3. i - 1 + 1 = i /\ \A a \in 1 .. i : 1 + a - 1 = a
    BY <1>0
  <2> QED
    BY <2>2, <2>3
<1>2. r \in Seq(Nat) /\ Len(r) = Len(s) - i /\ \A a \in 1 .. Len(s) - i : r[a] = s[a + i]
  BY RestFacts
<1>3. <<x>> \in Seq(Nat) /\ Len(<<x>>) = 1 /\ <<x>>[1] = x
  OBVIOUS
<1>4. InsertAt(s, i + 1, x) = lx \o r
  <2>1. SubSeq(s, 1, (i + 1) - 1) = l
    <3>1. (i + 1) - 1 = i
      BY <1>0
    <3> QED
      BY <3>1
  <2>2. InsertAt(s, i + 1, x) = SubSeq(s, 1, (i + 1) - 1) \o <<x>> \o r
    BY Zenon DEF InsertAt
  <2> QED
    BY <2>1, <2>2, Zenon
<1> HIDE DEF l, r
<1>5. /\ lx \in Seq(Nat) /\ Len(lx) = i + 1
      /\ \A a \in 1 .. i + 1 : lx[a] = IF a =< i THEN l[a] ELSE <<x>>[a - i]
  BY <1>1, <1>3, ConcatProperties
<1>6. lx[i + 1] = x /\ \A a \in 1 .. i : lx[a] = s[a]
  BY <1>0, <1>1, <1>3, <1>5
<1> HIDE DEF lx
<1>7. /\ lx \o r \in Seq(Nat) /\ Len(lx \o r) = (i + 1) + (Len(s) - i)
      /\ \A a \in 1 .. (i + 1) + (Len(s) - i) :
           (lx \o r)[a] = IF a =< i + 1 THEN lx[a] ELSE r[a - (i + 1)]
  <2>1. /\ lx \o r \in Seq(Nat) /\ Len(lx \o r) = Len(lx) + Len(r)
        /\ \A a \in 1 .. Len(lx) + Len(r) :
             (lx \o r)[a] = IF a <= Len(lx) THEN lx[a] ELSE r[a - Len(lx)]
    BY <1>2, <1>5, ConcatProperties, Zenon
  <2> QED
    BY <1>2, <1>5, <2>1, Zenon
<1>8. (i + 1) + (Len(s) - i) = Len(s) + 1
  BY <1>0
<1>9. ASSUME NEW a \in i + 2 .. Len(s) + 1 PROVE (lx \o r)[a] = s[a - 1]
  <2>1. /\ a \in 1 .. Len(s) + 1 /\ ~(a =< i + 1) /\ a - (i + 1) \in 1 .. Len(s) - i
        /\ (a - (i + 1)) + i = a - 1
    BY <1>0
  <2> QED
    BY <1>2, <1>7, <1>8, <2>1
<1> QED
  <2>1. \A a \in 1 .. i + 1 : a \in 1 .. Len(s) + 1 /\ a =< i + 1
    BY <1>0
  <2>2. \A a \in 1 .. i : a \in 1 .. i + 1
    BY <1>0
  <2>3. i + 1 \in 1 .. i + 1
    BY <1>0
  <2> QED
    BY <1>4, <1>6, <1>7, <1>8, <1>9, <2>1, <2>2, <2>3

\* Two markers are spliced in behind the one that is split.
LEMMA SplitList ==
    ASSUME ListTypes, NEW i \in 1 .. Len(tgt), NEW size \in Int, Split(i, size)
    PROVE  /\ tgt' \in Seq(Nat) /\ Len(tgt') = Len(tgt) + 2
           /\ tgt'[i + 1] = Len(markers) + 1 /\ tgt'[i + 2] = Len(markers) + 2
           /\ \A a \in (1 .. Len(tgt')) \ {i + 1, i + 2} :
                /\ Before(a, i) \in 1 .. Len(tgt) /\ tgt'[a] = tgt[Before(a, i)]
                /\ Before(a, i) = i => a = i
<1> DEFINE m == Len(markers)
           s == InsertAt(tgt, i + 1, m + 2)
<1>1. tgt' = InsertAt(s, i + 1, m + 1)
  BY DEF Split
<1>2. m \in Nat /\ tgt \in Seq(Nat) /\ Len(tgt) \in Nat
  BY DEF ListTypes
<1>3. /\ s \in Seq(Nat) /\ Len(s) = Len(tgt) + 1
      /\ \A a \in 1 .. i : s[a] = tgt[a]
      /\ s[i + 1] = m + 2
      /\ \A a \in i + 2 .. Len(tgt) + 1 : s[a] = tgt[a - 1]
  <2>1. m + 2 \in Nat
    BY <1>2
  <2> QED
    BY <1>2, <2>1, InsertFacts
<1> HIDE DEF s
<1>4. i \in 1 .. Len(s) /\ m + 1 \in Nat
  BY <1>2, <1>3
<1>5. /\ tgt' \in Seq(Nat) /\ Len(tgt') = Len(s) + 1
      /\ \A a \in 1 .. i : tgt'[a] = s[a]
      /\ tgt'[i + 1] = m + 1
      /\ \A a \in i + 2 .. Len(s) + 1 : tgt'[a] = s[a - 1]
  <2>1. /\ InsertAt(s, i + 1, m + 1) \in Seq(Nat)
        /\ Len(InsertAt(s, i + 1, m + 1)) = Len(s) + 1
        /\ \A a \in 1 .. i : InsertAt(s, i + 1, m + 1)[a] = s[a]
        /\ InsertAt(s, i + 1, m + 1)[i + 1] = m + 1
        /\ \A a \in i + 2 .. Len(s) + 1 : InsertAt(s, i + 1, m + 1)[a] = s[a - 1]
    BY <1>3, <1>4, InsertFacts
  <2> QED
    BY <1>1, <2>1
<1>6. tgt'[i + 2] = m + 2
  BY <1>2, <1>3, <1>5
<1>7. ASSUME NEW a \in (1 .. Len(tgt')) \ {i + 1, i + 2}
      PROVE  /\ Before(a, i) \in 1 .. Len(tgt) /\ tgt'[a] = tgt[Before(a, i)]
             /\ Before(a, i) = i => a = i
  <2>0. a \in 1 .. Len(tgt) + 2 /\ a # i + 1 /\ a # i + 2
    BY <1>2, <1>3, <1>5
  <2>1. CASE a =< i
    <3>1. a \in 1 .. i /\ Before(a, i) = a
      BY <1>2, <2>0, <2>1 DEF Before
    <3>2. tgt'[a] = s[a] /\ s[a] = tgt[a]
      BY <1>3, <1>5, <3>1
    <3>3. a \in 1 .. Len(tgt)
      BY <1>2, <2>1, <2>0
    <3> QED
      BY <3>1, <3>2, <3>3
  <2>2. CASE a > i
    <3>1. /\ a \in i + 2 .. Len(s) + 1 /\ a - 1 \in i + 2 .. Len(tgt) + 1
          /\ (a - 1) - 1 = a - 2 /\ a - 2 \in 1 .. Len(tgt) /\ a - 2 # i /\ Before(a, i) = a - 2
      BY <1>2, <1>3, <2>0, <2>2 DEF Before
    <3>2. tgt'[a] = s[a - 1] /\ s[a - 1] = tgt[(a - 1) - 1]
      BY <1>3, <1>5, <3>1
    <3> QED
      BY <3>1, <3>2
  <2> QED
    BY <2>1, <2>2
<1> QED
  BY <1>2, <1>3, <1>5, <1>6, <1>7

LEMMA SplitMarkers ==
    ASSUME ListTypes, NEW i \in 1 .. Len(tgt), NEW size \in Int, Split(i, size)
    PROVE  /\ markers' \in Seq(Some) /\ Len(markers') = Len(markers) + 2
           /\ \A k \in 1 .. Len(markers) : k # tgt[i] => markers'[k] = markers[k]
           /\ markers'[tgt[i]] = [markers[tgt[i]] EXCEPT !.cannotMatch = TRUE, !.disabled = TRUE]
           /\ markers'[Len(markers) + 1] = Marker(At(i).openMarker, At(i).tokenCharacter,
                                                  At(i).size - size)
           /\ markers'[Len(markers) + 2] = Marker(At(i).openMarker, At(i).tokenCharacter, size)
<1> DEFINE m == Len(markers)
           k == tgt[i]
           split == [markers[k] EXCEPT !.cannotMatch = TRUE, !.disabled = TRUE]
           old == [markers EXCEPT ![k] = split]
           x == Marker(At(i).openMarker, At(i).tokenCharacter, At(i).size - size)
           y == Marker(At(i).openMarker, At(i).tokenCharacter, size)
<1>1. m \in Nat /\ k \in 1 .. m /\ markers \in Seq(Some) /\ markers[k] \in Some
  BY DEF ListTypes
<1>2. markers' = old \o <<x, y>>
  <2>1. [markers EXCEPT ![k].cannotMatch = TRUE, ![k].disabled = TRUE] = old
    BY <1>1
  <2> QED
    BY <2>1 DEF Split, At
<1>3. x \in Some /\ y \in Some /\ split \in Some
  <2>1. \A o \in BOOLEAN, c \in Characters, n \in Int : Marker(o, c, n) \in Some
    BY DEF Marker, Some
  <2>2. /\ At(i).openMarker \in BOOLEAN /\ At(i).tokenCharacter \in Characters
        /\ At(i).size - size \in Int
    <3>1. At(i) \in Some
      BY <1>1 DEF At
    <3>2. \A r \in Some : r.openMarker \in BOOLEAN /\ r.tokenCharacter \in Characters /\ r.size \in Int
      BY DEF Some
    <3>3. At(i).size \in Int
      BY <3>1, <3>2
    <3> QED
      BY <3>1, <3>2, <3>3
  <2>3. \A r \in Some : [r EXCEPT !.cannotMatch = TRUE, !.disabled = TRUE] \in Some
    BY DEF Some
  <2> QED
    BY <1>1, <2>1, <2>2, <2>3
<1> HIDE DEF split, x, y
<1>4. /\ old \in Seq(Some) /\ Len(old) = m
      /\ old[k] = split /\ \A l \in 1 .. m : l # k => old[l] = markers[l]
  BY <1>1, <1>3, ExceptSeq
<1> HIDE DEF old
<1> DEFINE new == <<x, y>>
<1>5. new \in Seq(Some) /\ Len(new) = 2 /\ new[1] = x /\ new[2] = y
  BY <1>3
<1>6. /\ markers' \in Seq(Some) /\ Len(markers') = m + 2
      /\ \A l \in 1 .. m + 2 : markers'[l] = IF l =< m THEN old[l] ELSE new[l - m]
  <2>1. markers' = old \o new
    BY <1>2
  <2> HIDE DEF new
  <2>2. /\ old \o new \in Seq(Some) /\ Len(old \o new) = Len(old) + Len(new)
        /\ \A l \in 1 .. Len(old) + Len(new) :
             (old \o new)[l] = IF l <= Len(old) THEN old[l] ELSE new[l - Len(old)]
    <3>1. old \in Seq(Some) /\ new \in Seq(Some)
      BY <1>4, <1>5
    <3> QED
      BY <3>1, ConcatProperties, Zenon
  <2> QED
    BY <1>4, <1>5, <2>1, <2>2, Zenon
<1> HIDE DEF new
<1>7. /\ m + 1 \in 1 .. m + 2 /\ ~(m + 1 =< m) /\ (m + 1) - m = 1
      /\ m + 2 \in 1 .. m + 2 /\ ~(m + 2 =< m) /\ (m + 2) - m = 2
      /\ \A l \in 1 .. m : l \in 1 .. m + 2 /\ l =< m
  BY <1>1
<1>8. markers'[m + 1] = x /\ markers'[m + 2] = y /\ \A l \in 1 .. m : markers'[l] = old[l]
  BY <1>5, <1>6, <1>7
<1> QED
  BY <1>1, <1>4, <1>6, <1>8 DEF split, x, y

\* What is then at each position.
LEMMA SplitFacts ==
    ASSUME ListTypes, NEW i \in 1 .. Len(tgt), NEW size \in Int, Split(i, size)
    PROVE  /\ ListTypes' /\ Len(tgt') = Len(tgt) + 2
           /\ \A a \in (1 .. Len(tgt')) \ {i, i + 1, i + 2} :
                /\ Before(a, i) \in (1 .. Len(tgt)) \ {i}
                /\ tgt'[a] = tgt[Before(a, i)] /\ At(a)' = At(Before(a, i))
           /\ tgt'[i] = tgt[i]
           /\ At(i)' = [At(i) EXCEPT !.cannotMatch = TRUE, !.disabled = TRUE]
           /\ \E s \in Int :
                At(i + 1)' = Marker(At(i).openMarker, At(i).tokenCharacter, s)
           /\ At(i + 2)' = Marker(At(i).openMarker, At(i).tokenCharacter, size)
<1> DEFINE m == Len(markers)
<1>1. /\ m \in Nat /\ Len(tgt) = m /\ i \in 1 .. m
      /\ \A a \in 1 .. m : tgt[a] \in 1 .. m /\ markers[tgt[a]] \in Some
      /\ \A a, b \in 1 .. m : tgt[a] = tgt[b] => a = b
  BY DEF ListTypes
<1>2. /\ tgt' \in Seq(Nat) /\ Len(tgt') = m + 2
      /\ tgt'[i + 1] = m + 1 /\ tgt'[i + 2] = m + 2
      /\ \A a \in (1 .. m + 2) \ {i + 1, i + 2} :
           /\ Before(a, i) \in 1 .. m /\ tgt'[a] = tgt[Before(a, i)]
           /\ Before(a, i) = i => a = i
  BY <1>1, SplitList
<1>3. /\ markers' \in Seq(Some) /\ Len(markers') = m + 2
      /\ \A k \in 1 .. m : k # tgt[i] => markers'[k] = markers[k]
      /\ markers'[tgt[i]] = [markers[tgt[i]] EXCEPT !.cannotMatch = TRUE, !.disabled = TRUE]
      /\ markers'[m + 1] = Marker(At(i).openMarker, At(i).tokenCharacter, At(i).size - size)
      /\ markers'[m + 2] = Marker(At(i).openMarker, At(i).tokenCharacter, size)
  BY SplitMarkers
<1>4. Before(i, i) = i /\ i \in (1 .. m + 2) \ {i + 1, i + 2} /\ i + 1 \in 1 .. m + 2
      /\ i + 2 \in 1 .. m + 2 /\ i + 1 # i + 2
  BY <1>1 DEF Before
<1>5. \A a, b \in (1 .. m + 2) \ {i + 1, i + 2} : Before(a, i) = Before(b, i) => a = b
  BY <1>1 DEF Before
<1>6. \A a \in 1 .. m + 2 :
        \/ a = i + 1 /\ tgt'[a] = m + 1
        \/ a = i + 2 /\ tgt'[a] = m + 2
        \/ /\ a \in (1 .. m + 2) \ {i + 1, i + 2} /\ Before(a, i) \in 1 .. m
           /\ tgt'[a] = tgt[Before(a, i)] /\ tgt'[a] \in 1 .. m
  BY <1>1, <1>2
<1>7. \A a \in 1 .. m + 2 : tgt'[a] \in 1 .. m + 2
  BY <1>1, <1>6
<1>8. ASSUME NEW a \in 1 .. m + 2, NEW b \in 1 .. m + 2, tgt'[a] = tgt'[b]
      PROVE  a = b
  <2>1. m + 1 # m + 2 /\ \A k \in 1 .. m : k # m + 1 /\ k # m + 2
    BY <1>1
  <2>2. CASE a \in {i + 1, i + 2}
    BY <1>6, <1>8, <2>1, <2>2
  <2>3. CASE a \notin {i + 1, i + 2}
    <3>1. b \notin {i + 1, i + 2}
      BY <1>6, <1>8, <2>1, <2>3
    <3>2. tgt[Before(a, i)] = tgt[Before(b, i)] /\ Before(a, i) \in 1 .. m /\ Before(b, i) \in 1 .. m
      BY <1>6, <1>8, <2>3, <3>1
    <3>3. Before(a, i) = Before(b, i)
      BY <1>1, <3>2
    <3> QED
      BY <1>5, <2>3, <3>1, <3>3
  <2> QED
    BY <2>2, <2>3
<1>9. ListTypes'
  BY <1>2, <1>3, <1>7, <1>8 DEF ListTypes
<1>10. ASSUME NEW a \in (1 .. m + 2) \ {i, i + 1, i + 2}
       PROVE  /\ Before(a, i) \in (1 .. m) \ {i}
              /\ tgt'[a] = tgt[Before(a, i)] /\ At(a)' = At(Before(a, i))
  <2>1. Before(a, i) \in (1 .. m) \ {i} /\ tgt'[a] = tgt[Before(a, i)]
    BY <1>2
  <2>2. tgt[Before(a, i)] \in 1 .. m /\ tgt[Before(a, i)] # tgt[i]
    BY <1>1, <2>1
  <2> QED
    BY <1>3, <2>1, <2>2 DEF At
<1>11. tgt'[i] = tgt[i]
  BY <1>2, <1>4
<1>12. /\ At(i)' = [At(i) EXCEPT !.cannotMatch = TRUE, !.disabled = TRUE]
       /\ At(i + 1)' = Marker(At(i).openMarker, At(i).tokenCharacter, At(i).size - size)
       /\ At(i + 2)' = Marker(At(i).openMarker, At(i).tokenCharacter, size)
  BY <1>2, <1>3, <1>11 DEF At
<1>13. At(i).size - size \in Int
  BY <1>1 DEF At, Some
<1> QED
  BY <1>1, <1>2, <1>9, <1>10, <1>11, <1>12, <1>13

\* A split of an unmatched marker leaves the pairs as they are.
LEMMA SplitKeepsPairs ==
    ASSUME ListTypes, Paired, SplitApart, OneId, UNCHANGED id,
           NEW i \in 1 .. Len(tgt), NEW size \in Int, Split(i, size), At(i).match = 0
    PROVE  Paired' /\ SplitApart' /\ OneId'
<1>1. /\ Len(tgt) \in Nat /\ Len(tgt') = Len(tgt) + 2
      /\ \A a \in 1 .. Len(tgt) : At(a) \in Some /\ tgt[a] \in Nat \ {0}
  <2>1. Len(tgt') = Len(tgt) + 2
    BY SplitFacts
  <2> QED
    BY <2>1 DEF ListTypes, At
<1>2. \A a \in (1 .. Len(tgt')) \ {i, i + 1, i + 2} :
        /\ Before(a, i) \in (1 .. Len(tgt)) \ {i}
        /\ tgt'[a] = tgt[Before(a, i)] /\ At(a)' = At(Before(a, i))
  BY SplitFacts
<1>3. /\ At(i)'.match = 0 /\ At(i)'.cannotMatch
      /\ At(i + 1)'.match = 0 /\ ~At(i + 1)'.disabled /\ ~At(i + 1)'.cannotMatch
      /\ At(i + 2)'.match = 0 /\ ~At(i + 2)'.disabled /\ ~At(i + 2)'.cannotMatch
  <2>1. /\ At(i)' = [At(i) EXCEPT !.cannotMatch = TRUE, !.disabled = TRUE]
        /\ At(i) \in Some
    BY <1>1, SplitFacts
  <2>2. At(i)'.match = 0 /\ At(i)'.cannotMatch
    BY <2>1 DEF Some
  <2>3. PICK s \in Int : At(i + 1)' = Marker(At(i).openMarker, At(i).tokenCharacter, s)
    BY SplitFacts
  <2>4. At(i + 2)' = Marker(At(i).openMarker, At(i).tokenCharacter, size)
    BY SplitFacts
  <2> QED
    BY <2>2, <2>3, <2>4 DEF Marker
<1>4. \A a \in 1 .. Len(tgt') : At(a)'.match # 0 => a \notin {i, i + 1, i + 2}
  BY <1>3
<1>5. Paired'
  <2> SUFFICES ASSUME NEW a \in 1 .. Len(tgt'), At(a)'.match # 0
               PROVE  \E b \in 1 .. Len(tgt') : PairAt(a, b)'
    BY DEF Paired
  <2> DEFINE o == Before(a, i)
  <2>1. /\ a \notin {i, i + 1, i + 2} /\ o \in (1 .. Len(tgt)) \ {i}
        /\ tgt'[a] = tgt[o] /\ At(a)' = At(o)
    BY <1>2, <1>4
  <2>2. PICK p \in 1 .. Len(tgt) : PairAt(o, p)
    BY <2>1 DEF Paired
  <2>3. p # i
    BY <1>1, <2>1, <2>2 DEF PairAt
  <2> DEFINE b == IF p =< i THEN p ELSE p + 2
  <2>4. b \in (1 .. Len(tgt')) \ {i, i + 1, i + 2} /\ Before(b, i) = p
    BY <1>1, <2>3 DEF Before
  <2>5. tgt'[b] = tgt[p] /\ At(b)' = At(p)
    BY <1>2, <2>4
  <2>6. (a < b <=> o < p) /\ (b < a <=> p < o) /\ (a # b <=> o # p)
    BY <1>1, <2>1, <2>3 DEF Before
  <2> HIDE DEF b, o
  <2>7. PairAt(a, b)'
    BY <2>1, <2>2, <2>5, <2>6 DEF PairAt
  <2> QED
    BY <2>4, <2>7
<1>6. SplitApart'
  <2> SUFFICES ASSUME NEW a \in 1 .. Len(tgt'), At(a)'.disabled \/ At(a)'.cannotMatch
               PROVE  At(a)'.match = 0 /\ At(a)'.cannotMatch
    BY DEF SplitApart
  <2>1. CASE a \in {i, i + 1, i + 2}
    BY <1>3, <2>1
  <2>2. CASE a \notin {i, i + 1, i + 2}
    BY <1>2, <2>2 DEF SplitApart
  <2> QED
    BY <2>1, <2>2
<1>7. OneId'
  <2> SUFFICES ASSUME NEW a \in 1 .. Len(tgt'), NEW b \in 1 .. Len(tgt'),
                      At(a)'.match # 0, At(a)'.openMarker, At(b)'.match # 0, At(b)'.openMarker,
                      At(a)'.id = At(b)'.id
               PROVE  a = b
    BY DEF OneId
  <2>1. a \notin {i, i + 1, i + 2} /\ b \notin {i, i + 1, i + 2}
    BY <1>4
  <2>2. Before(a, i) = Before(b, i)
    BY <1>2, <2>1, SMTT(30) DEF OneId
  <2> QED
    BY <1>1, <2>1, <2>2 DEF Before
<1> QED
  BY <1>5, <1>6, <1>7

\* What matching or unmatching two markers does.
LEMMA TwoFacts ==
    ASSUME ListTypes, NEW a \in 1 .. Len(tgt), NEW b \in 1 .. Len(tgt), a # b,
           NEW x \in Nat, NEW y \in Nat, NEW e \in Int, UNCHANGED tgt,
           markers' = [markers EXCEPT ![tgt[a]].match = x, ![tgt[a]].id = e,
                                      ![tgt[b]].match = y, ![tgt[b]].id = e]
    PROVE  /\ ListTypes'
           /\ At(a)' = [At(a) EXCEPT !.match = x, !.id = e]
           /\ At(b)' = [At(b) EXCEPT !.match = y, !.id = e]
           /\ \A c \in (1 .. Len(tgt)) \ {a, b} : At(c)' = At(c)
<1> DEFINE k == tgt[a]
           l == tgt[b]
           mk == [markers[k] EXCEPT !.match = x, !.id = e]
           ml == [markers[l] EXCEPT !.match = y, !.id = e]
           one == [markers EXCEPT ![k] = mk]
           two == [one EXCEPT ![l] = ml]
<1>1. /\ markers \in Seq(Some) /\ k \in 1 .. Len(markers) /\ l \in 1 .. Len(markers) /\ k # l
      /\ markers[k] \in Some /\ markers[l] \in Some
      /\ \A c \in (1 .. Len(tgt)) \ {a, b} : tgt[c] \in (1 .. Len(markers)) \ {k, l}
  <2>1. \A c \in 1 .. Len(tgt) : tgt[c] \in 1 .. Len(markers)
    BY DEF ListTypes
  <2>2. markers \in Seq(Some) /\ \A c, d \in 1 .. Len(tgt) : tgt[c] = tgt[d] => c = d
    BY DEF ListTypes
  <2>3. \A j \in 1 .. Len(markers) : markers[j] \in Some
    BY <2>2
  <2> QED
    BY <2>1, <2>2, <2>3
<1>2. markers' = two
  BY <1>1
<1>3. mk \in Some /\ ml \in Some
  BY <1>1 DEF Some
<1> HIDE DEF mk, ml
<1>4. /\ one \in Seq(Some) /\ Len(one) = Len(markers) /\ one[k] = mk
      /\ \A j \in 1 .. Len(markers) : j # k => one[j] = markers[j]
  BY <1>1, <1>3, ExceptSeq
<1> HIDE DEF one
<1>5. /\ two \in Seq(Some) /\ Len(two) = Len(markers) /\ two[l] = ml
      /\ \A j \in 1 .. Len(markers) : j # l => two[j] = one[j]
  BY <1>1, <1>3, <1>4, ExceptSeq, SMTT(30)
<1> HIDE DEF two
<1>6. markers'[k] = mk /\ markers'[l] = ml
      /\ \A j \in (1 .. Len(markers)) \ {k, l} : markers'[j] = markers[j]
  BY <1>1, <1>2, <1>4, <1>5
<1>7. ListTypes'
  BY <1>2, <1>5 DEF ListTypes
<1>8. At(a)' = mk /\ At(b)' = ml /\ \A c \in (1 .. Len(tgt)) \ {a, b} : At(c)' = At(c)
  BY <1>1, <1>6 DEF At
<1> QED
  BY <1>7, <1>8 DEF mk, ml, At
-----------------------------------------------------------------------------
(***************************************************************************)
(* Popping.                                                                *)
(***************************************************************************)
\* What is popped is the last marker and all unmatched ones before it.
LEMMA PoppedFacts ==
    ASSUME NEW s \in Seq(Nat), s # << >>
    PROVE  /\ Popped(s) \in Seq(Nat) /\ Len(Popped(s)) \in 0 .. Len(s) - 1
           /\ \A n \in 1 .. Len(Popped(s)) : Popped(s)[n] = s[n]
           /\ Popped(s) # << >> => markers[Popped(s)[Len(Popped(s))]].match # 0
           /\ \A n \in 1 .. Len(s) - 1 : markers[s[n]].match # 0 => n =< Len(Popped(s))
<1> DEFINE left == {k \in 1 .. Len(s) - 1 : markers[s[k]].match # 0}
           T == left \cup {0}
           m == Max(T)
<1>1. Len(s) \in Nat \ {0}
  OBVIOUS
<1>2. T \in SUBSET Nat /\ T # {} /\ \A k \in T : k =< Len(s) - 1
  BY <1>1
<1>3. Len(s) - 1 \in Nat
  BY <1>1
<1> HIDE DEF T
<1>4. m \in T /\ \A k \in T : m >= k
  BY <1>2, <1>3, LargestNat
<1> HIDE DEF m
<1>5. Popped(s) = SubSeq(s, 1, m)
  BY DEF Popped, T, m
<1>6. m \in 0 .. Len(s) - 1 /\ (m # 0 => markers[s[m]].match # 0)
  BY <1>1, <1>4 DEF T
<1>7. /\ SubSeq(s, 1, m) \in Seq(Nat) /\ Len(SubSeq(s, 1, m)) = m
      /\ \A n \in 1 .. m : SubSeq(s, 1, m)[n] = s[n]
  BY <1>1, <1>6
<1>8. Popped(s) # << >> => m # 0
  BY <1>5, <1>6, <1>7
<1>9. \A n \in 1 .. Len(s) - 1 : markers[s[n]].match # 0 => n =< m
  BY <1>1, <1>4, <1>6 DEF T
<1>10. /\ Popped(s) \in Seq(Nat) /\ Len(Popped(s)) = m
       /\ \A n \in 1 .. m : Popped(s)[n] = s[n]
  BY <1>5, <1>7
<1>11. Popped(s) # << >> => markers[Popped(s)[m]].match # 0
  <2>1. m # 0 => m \in 1 .. m
    BY <1>6
  <2> QED
    BY <1>6, <1>8, <1>10, <2>1
<1> QED
  BY <1>6, <1>9, <1>10, <1>11
-----------------------------------------------------------------------------
(***************************************************************************)
(* Matched markers are always two, one behind the other.                   *)
(***************************************************************************)
LEMMA ListFacts ==
    ASSUME ListTypes
    PROVE  /\ Len(tgt) \in Nat /\ Len(markers) = Len(tgt)
           /\ \A a \in 1 .. Len(tgt) : At(a) \in Some /\ tgt[a] \in Nat \ {0}
           /\ \A a, b \in 1 .. Len(tgt) : tgt[a] = tgt[b] => a = b
BY DEF ListTypes, At

\* A marker's match is the only one it is matched with.
LEMMA PairOf ==
    ASSUME ListTypes, Paired, NEW a \in 1 .. Len(tgt), NEW b \in 1 .. Len(tgt),
           At(a).match = tgt[b]
    PROVE  PairAt(a, b)
<1>1. At(a).match # 0
  BY ListFacts
<1>2. PICK c \in 1 .. Len(tgt) : PairAt(a, c)
  BY <1>1 DEF Paired
<1>3. tgt[b] = tgt[c]
  BY <1>2 DEF PairAt
<1>4. b = c
  BY <1>3, ListFacts
<1> QED
  BY <1>2, <1>4

LEMMA PairInvInit == EmphasisInit => PairInv
<1> SUFFICES ASSUME EmphasisInit PROVE PairInv
  OBVIOUS
<1>1. PICK n \in Nat : text \in [1 .. n -> [open : BOOLEAN, c : Characters, size : Sizes]]
  BY BoundsAssumption DEF EmphasisInit, Texts, BoundedSeq, SeqOf
<1>2. \A k \in 1 .. n : Marker(text[k].open, text[k].c, text[k].size) \in Some
  BY <1>1 DEF Marker, Some, Sizes
<1>3. /\ markers = [k \in 1 .. n |-> Marker(text[k].open, text[k].c, text[k].size)]
      /\ tgt = [k \in 1 .. n |-> k]
  BY <1>1 DEF EmphasisInit
<1>4. markers \in Seq(Some) /\ Len(markers) = n /\ tgt \in Seq(Nat) /\ Len(tgt) = n
  <2>1. markers \in [1 .. n -> Some] /\ tgt \in [1 .. n -> Nat]
    BY <1>2, <1>3
  <2> QED
    BY <2>1
<1>5. ListTypes
  BY <1>3, <1>4 DEF ListTypes
<1>6. WalkTypes
  BY <1>4 DEF EmphasisInit, WalkTypes
<1>7. \A a \in 1 .. Len(tgt) : At(a).match = 0 /\ ~At(a).disabled /\ ~At(a).cannotMatch
  BY <1>3, <1>4 DEF At, Marker
<1> QED
  BY <1>5, <1>6, <1>7 DEF PairInv, Paired, SplitApart, OneId

\* Of the markers: what the steps that leave them alone keep.
LEMMA SameMarkers ==
    ASSUME PairInv, UNCHANGED <<markers, tgt, id>>
    PROVE  ListTypes' /\ Paired' /\ SplitApart' /\ OneId'
<1>1. \A a : At(a)' = At(a)
  BY DEF At
<1>2. \A a, b : PairAt(a, b)' <=> PairAt(a, b)
  BY <1>1 DEF PairAt
<1>3. ListTypes'
  BY DEF PairInv, ListTypes
<1>4. Paired'
  BY <1>1, <1>2 DEF PairInv, Paired
<1>5. SplitApart' /\ OneId'
  BY <1>1, SMTT(30) DEF PairInv, SplitApart, OneId
<1> QED
  BY <1>3, <1>4, <1>5

\* The marker at ii and the one it was matched with.
LEMMA UnmatchFacts ==
    ASSUME PairInv, Unmatch
    PROVE  \E a, b \in 1 .. Len(tgt) :
             /\ a = ii /\ PairAt(a, b)
             /\ ListTypes' /\ At(a)'.match = 0 /\ At(b)'.match = 0
             /\ ~At(a)'.disabled /\ ~At(a)'.cannotMatch /\ ~At(b)'.disabled /\ ~At(b)'.cannotMatch
             /\ At(a)'.openMarker = At(a).openMarker /\ At(b)'.openMarker = At(b).openMarker
             /\ At(a)' = [At(a) EXCEPT !.match = 0, !.id = -1]
             /\ At(b)' = [At(b) EXCEPT !.match = 0, !.id = -1]
             /\ \A c \in (1 .. Len(tgt)) \ {a, b} : At(c)' = At(c)
<1>0. ListTypes /\ WalkTypes /\ Paired /\ SplitApart /\ Len(tgt) \in Nat
  BY ListFacts DEF PairInv
<1>1. PICK a \in 1 .. Len(tgt) : a = ii
  BY <1>0 DEF Unmatch, Unmatching, WalkTypes
<1>2. At(a).match # 0
  BY <1>1 DEF Unmatch, MatchedClose
<1>3. PICK b \in 1 .. Len(tgt) : PairAt(a, b)
  BY <1>0, <1>2 DEF Paired
<1>4. a # b /\ At(a).match = tgt[b] /\ At(b).match # 0 /\ At(a) \in Some /\ At(b) \in Some
  BY <1>0, <1>3, ListFacts DEF PairAt
<1>5. UNCHANGED tgt /\ markers' = [markers EXCEPT ![tgt[a]].match = 0, ![tgt[a]].id = -1,
                                                  ![tgt[b]].match = 0, ![tgt[b]].id = -1]
  BY <1>1, <1>4 DEF Unmatch
<1>6. /\ ListTypes'
      /\ At(a)' = [At(a) EXCEPT !.match = 0, !.id = -1]
      /\ At(b)' = [At(b) EXCEPT !.match = 0, !.id = -1]
      /\ \A c \in (1 .. Len(tgt)) \ {a, b} : At(c)' = At(c)
  <2>1. 0 \in Nat /\ -1 \in Int
    OBVIOUS
  <2> QED
    BY <1>0, <1>4, <1>5, <2>1, TwoFacts, Zenon
<1>7. ~At(a).disabled /\ ~At(a).cannotMatch /\ ~At(b).disabled /\ ~At(b).cannotMatch
  BY <1>0, <1>2, <1>4 DEF SplitApart
<1>8. /\ At(a)'.match = 0 /\ At(b)'.match = 0
      /\ ~At(a)'.disabled /\ ~At(a)'.cannotMatch /\ ~At(b)'.disabled /\ ~At(b)'.cannotMatch
      /\ At(a)'.openMarker = At(a).openMarker /\ At(b)'.openMarker = At(b).openMarker
  BY <1>4, <1>6, <1>7 DEF Some
<1> QED
  BY <1>1, <1>3, <1>6, <1>8

LEMMA PairInvStep == PairInv /\ TopIsThere /\ [EmphasisNext]_emphasisVars => PairInv'
<1> SUFFICES ASSUME PairInv, TopIsThere, [EmphasisNext]_emphasisVars PROVE PairInv'
  OBVIOUS
<1>0. ListTypes /\ WalkTypes /\ Paired /\ SplitApart /\ OneId /\ Len(tgt) \in Nat
  BY ListFacts DEF PairInv
<1>1. CASE NextOpenMarker
  <2>1. WalkTypes'
    BY <1>0, <1>1 DEF NextOpenMarker, WalkTypes, At, IsUnmatchedOpenMarker
  <2> QED
    BY <1>1, <2>1, SameMarkers DEF NextOpenMarker, PairInv
<1>2. CASE NoCloseMarker
  <2>1. WalkTypes'
    BY <1>0, <1>2 DEF NoCloseMarker, WalkTypes
  <2> QED
    BY <1>2, <2>1, SameMarkers DEF NoCloseMarker, PairInv
<1>3. CASE PassOver
  <2>1. WalkTypes'
    BY <1>0, <1>3 DEF PassOver, Searching, WalkTypes, At, IsUnmatchedOpenMarker
  <2> QED
    BY <1>3, <2>1, SameMarkers DEF PassOver, PairInv
<1>4. CASE SplitClose
  <2>1. /\ phase = "search" /\ iii \in 1 .. Len(tgt) /\ Opener.size \in Int
        /\ Split(iii, Opener.size) /\ At(iii).match = 0 /\ ii \in 1 .. iii - 1
        /\ iii' = iii + 1 /\ UNCHANGED <<text, ii, id, openMatches, phase>>
    <3>1. ii \in 1 .. Len(tgt) /\ iii \in ii + 1 .. Len(tgt)
      BY <1>0, <1>4 DEF SplitClose, Searching, WalkTypes
    <3>2. At(ii).size \in Int
      BY <1>0, <3>1, ListFacts DEF Some
    <3> QED
      BY <1>0, <1>4, <3>1, <3>2 DEF SplitClose, Searching, IsUnmatchedCloseMarker, Closer, Opener
  <2>2. ListTypes' /\ Paired' /\ SplitApart' /\ OneId' /\ Len(tgt') = Len(tgt) + 2
    BY <1>0, <2>1, SplitFacts, SplitKeepsPairs
  <2>3. At(ii)' = At(ii)
    <3>1. PICK a \in 1 .. Len(tgt) : a = ii
      BY <1>0, <2>1
    <3>2. a \in (1 .. Len(tgt')) \ {iii, iii + 1, iii + 2} /\ Before(a, iii) = a
      BY <1>0, <2>1, <2>2, <3>1 DEF Before
    <3>3. At(a)' = At(Before(a, iii))
      BY <1>0, <2>1, <3>2, SplitFacts
    <3>4. At(a)' = At(a)
      BY <3>2, <3>3
    <3> QED
      BY <2>1, <3>1, <3>4 DEF At
  <2>4. WalkTypes'
    BY <1>0, <2>1, <2>2, <2>3 DEF WalkTypes, IsUnmatchedOpenMarker
  <2> QED
    BY <2>2, <2>4 DEF PairInv
<1>5. CASE SplitOpen
  <2>1. /\ phase = "search" /\ ii \in 1 .. Len(tgt) /\ Closer.size \in Int
        /\ Split(ii, Closer.size) /\ At(ii).match = 0
        /\ phase' = "match" /\ ii' = ii + 1 /\ UNCHANGED <<text, iii, id, openMatches>>
    <3>1. ii \in 1 .. Len(tgt) /\ iii \in 1 .. Len(tgt)
      BY <1>0, <1>5 DEF SplitOpen, Searching, WalkTypes
    <3>2. At(iii).size \in Int
      BY <1>0, <3>1, ListFacts DEF Some
    <3> QED
      BY <1>0, <1>5, <3>1, <3>2 DEF SplitOpen, Searching, WalkTypes, IsUnmatchedOpenMarker, Closer
  <2>2. ListTypes' /\ Paired' /\ SplitApart' /\ OneId' /\ Len(tgt') = Len(tgt) + 2
    BY <1>0, <2>1, SplitFacts, SplitKeepsPairs
  <2>3. WalkTypes'
    BY <1>0, <2>1, <2>2 DEF WalkTypes
  <2> QED
    BY <2>2, <2>3 DEF PairInv
<1>6. CASE Match
  <2>1. /\ ii \in 1 .. Len(tgt) /\ iii \in 1 .. Len(tgt) /\ ii < iii
        /\ phase = "search" /\ IsUnmatchedOpenMarker(At(ii)) /\ IsUnmatchedCloseMarker(At(iii))
        /\ At(iii).tokenCharacter = At(ii).tokenCharacter /\ At(iii).size = At(ii).size
        /\ ii' = ii + 1 /\ iii' = iii /\ phase' = "match" /\ id' = id + 1
        /\ UNCHANGED <<tgt, openMatches>>
    BY <1>0, <1>6 DEF Match, Searching, WalkTypes, Matches, Closer, Opener
  <2>2. PICK a \in 1 .. Len(tgt), b \in 1 .. Len(tgt) : a = ii /\ b = iii
    BY <2>1
  <2>3. markers' = [markers EXCEPT ![tgt[a]].match = tgt[b], ![tgt[a]].id = id,
                                   ![tgt[b]].match = tgt[a], ![tgt[b]].id = id]
    BY <1>6, <2>2 DEF Match
  <2>4. /\ id \in Nat /\ tgt[a] \in Nat \ {0} /\ tgt[b] \in Nat \ {0} /\ a < b
        /\ At(a) \in Some /\ At(b) \in Some
    BY <1>0, <2>1, <2>2, ListFacts DEF WalkTypes
  <2>5. /\ ListTypes'
        /\ At(a)' = [At(a) EXCEPT !.match = tgt[b], !.id = id]
        /\ At(b)' = [At(b) EXCEPT !.match = tgt[a], !.id = id]
        /\ \A c \in (1 .. Len(tgt)) \ {a, b} : At(c)' = At(c)
    <3>1. a # b /\ tgt[a] \in Nat /\ tgt[b] \in Nat /\ id \in Int /\ UNCHANGED tgt
      BY <2>1, <2>4
    <3> QED
      BY <1>0, <2>3, <3>1, TwoFacts, Zenon
  <2>6. /\ At(a).openMarker = TRUE /\ At(a).match = 0 /\ ~At(a).cannotMatch /\ ~At(a).disabled
        /\ At(b).openMarker = FALSE /\ At(b).match = 0 /\ ~At(b).cannotMatch /\ ~At(b).disabled
        /\ At(a).tokenCharacter = At(b).tokenCharacter /\ At(a).size = At(b).size
    BY <1>0, <2>1, <2>2, <2>4
       DEF IsUnmatchedOpenMarker, IsUnmatchedCloseMarker, SplitApart, Some
  <2>7. /\ At(a)'.match = tgt[b] /\ At(a)'.id = id /\ At(a)'.openMarker = TRUE
        /\ ~At(a)'.cannotMatch /\ ~At(a)'.disabled
        /\ At(a)'.tokenCharacter = At(a).tokenCharacter /\ At(a)'.size = At(a).size
    BY <2>4, <2>5, <2>6 DEF Some
  <2>8. /\ At(b)'.match = tgt[a] /\ At(b)'.id = id /\ At(b)'.openMarker = FALSE
        /\ ~At(b)'.cannotMatch /\ ~At(b)'.disabled
        /\ At(b)'.tokenCharacter = At(b).tokenCharacter /\ At(b)'.size = At(b).size
    BY <2>4, <2>5, <2>6 DEF Some
  <2>9. PairAt(a, b)' /\ PairAt(b, a)'
    <3>1. tgt' = tgt /\ id \in 0 .. id' - 1 /\ (a < b) = TRUE /\ (b < a) = FALSE /\ a # b
      BY <2>1, <2>4
    <3> QED
      BY <2>6, <2>7, <2>8, <3>1 DEF PairAt
  <2>10. ASSUME NEW c \in (1 .. Len(tgt)) \ {a, b}, At(c)'.match # 0
         PROVE  (\E d \in 1 .. Len(tgt) : PairAt(c, d)') /\ At(c)'.id \in 0 .. id - 1
    <3>1. At(c)' = At(c) /\ At(c).match # 0
      BY <2>5, <2>10
    <3>2. PICK d \in 1 .. Len(tgt) : PairAt(c, d)
      BY <1>0, <3>1 DEF Paired
    <3>3. d \notin {a, b}
      BY <1>0, <2>6, <3>2, ListFacts DEF PairAt
    <3>4. At(d)' = At(d)
      BY <2>5, <3>3
    <3>5. PairAt(c, d)'
      BY <2>1, <2>4, <3>1, <3>2, <3>4 DEF PairAt
    <3> QED
      BY <3>1, <3>2, <3>5 DEF PairAt
  <2>11. Paired'
    BY <2>1, <2>9, <2>10 DEF Paired
  <2>12. SplitApart'
    BY <1>0, <2>1, <2>5, <2>7, <2>8 DEF SplitApart
  <2>13. OneId'
    <3> SUFFICES ASSUME NEW c \in 1 .. Len(tgt), NEW d \in 1 .. Len(tgt),
                        At(c)'.match # 0, At(c)'.openMarker, At(d)'.match # 0, At(d)'.openMarker,
                        At(c)'.id = At(d)'.id
                 PROVE  c = d
      BY <2>1 DEF OneId
    <3>1. c # b /\ d # b
      BY <2>8
    <3>2. CASE c = a \/ d = a
      BY <2>4, <2>7, <2>10, <3>1, <3>2
    <3>3. CASE c # a /\ d # a
      BY <1>0, <2>5, <3>1, <3>3 DEF OneId
    <3> QED
      BY <3>2, <3>3
  <2>14. WalkTypes'
    BY <1>0, <2>1 DEF WalkTypes
  <2> QED
    BY <2>5, <2>11, <2>12, <2>13, <2>14 DEF PairInv
<1>7. CASE StartUnmatching \/ PushOpen \/ PopMatch \/ SkipUnmatched \/ Finish
  <2>1. UNCHANGED <<markers, tgt, id>>
    BY <1>7 DEF StartUnmatching, PushOpen, PopMatch, SkipUnmatched, Finish
  <2>2. /\ ii' \in 1 .. Len(tgt) + 1 /\ iii' = iii
        /\ phase' \in {"unmatch", "done"}
    BY <1>0, <1>7 DEF StartUnmatching, PushOpen, PopMatch, SkipUnmatched, Finish, Unmatching,
       WalkTypes
  <2>3. openMatches' \in Seq(Nat)
    <3>1. openMatches \in Seq(Nat)
      BY <1>0 DEF WalkTypes
    <3>2. CASE PushOpen
      <4>1. tgt[ii] \in Nat
        BY <1>0, <3>2, ListFacts DEF PushOpen, Unmatching, WalkTypes
      <4> QED
        BY <3>1, <3>2, <4>1 DEF PushOpen
    <3>3. CASE PopMatch
      <4>1. openMatches # << >>
        BY <3>3 DEF PopMatch, TopIsThere
      <4> QED
        BY <3>1, <3>3, <4>1, PoppedFacts DEF PopMatch
    <3> QED
      BY <1>7, <3>1, <3>2, <3>3 DEF StartUnmatching, SkipUnmatched, Finish
  <2>4. WalkTypes'
    BY <1>0, <2>1, <2>2, <2>3 DEF WalkTypes
  <2> QED
    BY <2>1, <2>4, SameMarkers DEF PairInv
<1>8. CASE Unmatch
  <2>1. PICK a \in 1 .. Len(tgt), b \in 1 .. Len(tgt) :
           /\ a = ii /\ PairAt(a, b)
           /\ ListTypes' /\ At(a)'.match = 0 /\ At(b)'.match = 0
           /\ ~At(a)'.disabled /\ ~At(a)'.cannotMatch /\ ~At(b)'.disabled /\ ~At(b)'.cannotMatch
           /\ At(a)'.openMarker = At(a).openMarker /\ At(b)'.openMarker = At(b).openMarker
           /\ \A c \in (1 .. Len(tgt)) \ {a, b} : At(c)' = At(c)
    BY <1>8, UnmatchFacts
  <2>2. UNCHANGED <<tgt, id, openMatches, iii, phase>> /\ ii' = ii + 1 /\ phase = "unmatch"
    BY <1>8 DEF Unmatch, Unmatching
  <2>3. Paired'
    <3> SUFFICES ASSUME NEW c \in 1 .. Len(tgt), At(c)'.match # 0
                 PROVE  \E d \in 1 .. Len(tgt) : PairAt(c, d)'
      BY <2>2 DEF Paired
    <3>1. c \notin {a, b} /\ At(c)' = At(c)
      BY <2>1
    <3>2. PICK d \in 1 .. Len(tgt) : PairAt(c, d)
      BY <1>0, <3>1 DEF Paired
    <3>3. d \notin {a, b}
      BY <1>0, <2>1, <3>1, <3>2, ListFacts DEF PairAt
    <3>4. At(d)' = At(d)
      BY <2>1, <3>3
    <3> QED
      BY <2>2, <3>1, <3>2, <3>4 DEF PairAt
  <2>4. SplitApart'
    BY <1>0, <2>1, <2>2 DEF SplitApart
  <2>5. OneId'
    BY <1>0, <2>1, <2>2 DEF OneId
  <2>6. WalkTypes'
    BY <1>0, <1>8, <2>2 DEF WalkTypes, Unmatch, Unmatching
  <2> QED
    BY <2>1, <2>3, <2>4, <2>5, <2>6 DEF PairInv
<1>9. CASE UNCHANGED emphasisVars
  <2>1. WalkTypes'
    BY <1>0, <1>9 DEF emphasisVars, WalkTypes, At, IsUnmatchedOpenMarker
  <2> QED
    BY <1>9, <2>1, SameMarkers DEF emphasisVars, PairInv
<1> QED
  BY <1>1, <1>2, <1>3, <1>4, <1>5, <1>6, <1>7, <1>8, <1>9 DEF EmphasisNext
-----------------------------------------------------------------------------
(***************************************************************************)
(* The second pass.  The open-markers on the stack stand one behind the    *)
(* other before ii, the last is matched, and with them are all whose       *)
(* close-marker is still to come.                                          *)
(***************************************************************************)
OnStack == \A n \in 1 .. Len(openMatches) :
    \E a \in 1 .. ii - 1 : tgt[a] = openMatches[n] /\ At(a).openMarker

Sorted == \A n, m \in 1 .. Len(openMatches) : \A a, b \in 1 .. Len(tgt) :
    n < m /\ tgt[a] = openMatches[n] /\ tgt[b] = openMatches[m] => a < b

TopMatched == openMatches # << >> => markers[openMatches[Len(openMatches)]].match # 0

Waiting == \A a \in 1 .. ii - 1, b \in ii .. Len(tgt) :
    At(a).match = tgt[b] => \E n \in 1 .. Len(openMatches) : openMatches[n] = tgt[a]

NoneCross == \A a, b, c, d \in 1 .. Len(tgt) :
    a < c /\ c < b /\ b < d /\ b < ii => ~(At(a).match = tgt[b] /\ At(c).match = tgt[d])

StackInv == phase \in {"unmatch", "done"} =>
                OnStack /\ Sorted /\ TopMatched /\ Waiting /\ NoneCross

\* The partner of the close-marker at ii, and how both stand to the stack.
LEMMA CloseFacts ==
    ASSUME PairInv, StackInv, Unmatching, MatchedClose(At(ii))
    PROVE  \E c \in 1 .. Len(tgt) :
             /\ PairAt(ii, c) /\ c < ii /\ At(c).openMarker
             /\ \E n \in 1 .. Len(openMatches) : openMatches[n] = tgt[c]
             /\ openMatches \in Seq(Nat) /\ Len(openMatches) \in Nat \ {0}
             /\ At(ii).id = markers[Last(openMatches)].id =>
                    openMatches[Len(openMatches)] = tgt[c]
<1>0. /\ ListTypes /\ WalkTypes /\ Paired /\ OneId /\ Len(tgt) \in Nat
      /\ OnStack /\ TopMatched /\ Waiting /\ openMatches \in Seq(Nat)
  BY ListFacts DEF PairInv, StackInv, Unmatching, WalkTypes
<1>1. PICK p \in 1 .. Len(tgt) : p = ii
  BY <1>0 DEF Unmatching, WalkTypes
<1>2. At(p).match # 0 /\ ~At(p).openMarker
  BY <1>1 DEF MatchedClose
<1>3. PICK c \in 1 .. Len(tgt) : PairAt(p, c)
  BY <1>0, <1>2 DEF Paired
<1>4. c < p /\ At(c).openMarker /\ At(c).match = tgt[p] /\ At(c).id = At(p).id
  BY <1>0, <1>2, <1>3 DEF PairAt
<1>5. PICK n \in 1 .. Len(openMatches) : openMatches[n] = tgt[c]
  <2>1. c \in 1 .. ii - 1 /\ p \in ii .. Len(tgt)
    BY <1>0, <1>1, <1>4
  <2> QED
    BY <1>0, <1>4, <2>1 DEF Waiting
<1>6. Len(openMatches) \in Nat \ {0}
  BY <1>0, <1>5
<1>7. ASSUME At(ii).id = markers[Last(openMatches)].id
      PROVE  openMatches[Len(openMatches)] = tgt[c]
  <2>1. PICK a \in 1 .. ii - 1 : tgt[a] = openMatches[Len(openMatches)] /\ At(a).openMarker
    <3>1. Len(openMatches) \in 1 .. Len(openMatches)
      BY <1>6
    <3> QED
      BY <1>0, <3>1 DEF OnStack
  <2>2. a \in 1 .. Len(tgt) /\ At(a).match # 0 /\ At(a).id = At(c).id
    <3>1. openMatches # << >>
      BY <1>6
    <3>2. a \in 1 .. Len(tgt)
      BY <1>0, <1>1
    <3> QED
      BY <1>0, <1>1, <1>4, <1>7, <2>1, <3>1, <3>2 DEF TopMatched, At, Last
  <2>3. At(c).match # 0
    BY <1>0, <1>4, ListFacts
  <2>4. a = c
    BY <1>0, <1>4, <2>1, <2>2, <2>3 DEF OneId
  <2> QED
    BY <2>1, <2>4
<1> QED
  BY <1>0, <1>1, <1>3, <1>4, <1>5, <1>6, <1>7

LEMMA TopAlways == PairInv /\ StackInv => TopIsThere
<1> SUFFICES ASSUME PairInv, StackInv, Unmatching, MatchedClose(At(ii))
             PROVE  \E k \in DOMAIN openMatches : openMatches[k] = At(ii).match
  BY DEF TopIsThere
<1>1. PICK c \in 1 .. Len(tgt) :
         /\ PairAt(ii, c) /\ openMatches \in Seq(Nat)
         /\ \E n \in 1 .. Len(openMatches) : openMatches[n] = tgt[c]
  BY CloseFacts
<1>2. At(ii).match = tgt[c] /\ DOMAIN openMatches = 1 .. Len(openMatches)
  BY <1>1 DEF PairAt
<1> QED
  BY <1>1, <1>2

\* Going past a marker that closes nothing.
LEMMA PastFacts ==
    ASSUME ListTypes, NoneCross, NEW p \in 1 .. Len(tgt), p = ii, ii' = p + 1,
           UNCHANGED <<markers, tgt>>,
           \A a \in 1 .. Len(tgt) : ~(a < p /\ At(a).match = tgt[p])
    PROVE  NoneCross'
<1>1. \A a \in 1 .. Len(tgt) : At(a)' = At(a)
  BY DEF At
<1> SUFFICES ASSUME NEW a \in 1 .. Len(tgt), NEW b \in 1 .. Len(tgt),
                    NEW c \in 1 .. Len(tgt), NEW d \in 1 .. Len(tgt),
                    a < c, c < b, b < d, b < p + 1, At(a).match = tgt[b], At(c).match = tgt[d]
             PROVE  FALSE
  BY <1>1 DEF NoneCross
<1>2. Len(tgt) \in Nat
  BY ListFacts
<1>3. b # p
  BY <1>2
<1>4. b < ii
  BY <1>2, <1>3
<1> QED
  BY <1>4 DEF NoneCross

LEMMA StackInvStep == PairInv /\ StackInv /\ [EmphasisNext]_emphasisVars => StackInv'
<1> SUFFICES ASSUME PairInv, StackInv, [EmphasisNext]_emphasisVars, phase' \in {"unmatch", "done"}
             PROVE  OnStack' /\ Sorted' /\ TopMatched' /\ Waiting' /\ NoneCross'
  BY DEF StackInv
<1>0. ListTypes /\ WalkTypes /\ Paired /\ OneId /\ Len(tgt) \in Nat /\ ii \in Nat \ {0}
  BY ListFacts DEF PairInv, WalkTypes
<1>1. CASE StartUnmatching
  <2>1. /\ ii' = 1 /\ openMatches' = << >> /\ tgt' = tgt
    BY <1>0, <1>1 DEF StartUnmatching, WalkTypes
  <2> QED
    BY <1>0, <2>1 DEF OnStack, Sorted, TopMatched, Waiting, NoneCross
<1>2. CASE NextOpenMarker \/ NoCloseMarker \/ PassOver \/ SplitClose \/ Match \/ SplitOpen
  BY <1>0, <1>2 DEF NextOpenMarker, NoCloseMarker, PassOver, SplitClose, Match, SplitOpen, WalkTypes,
     Searching
<1>3. CASE Finish \/ UNCHANGED emphasisVars
  <2>1. UNCHANGED <<markers, tgt, ii, openMatches>> /\ phase \in {"unmatch", "done"}
    BY <1>3 DEF Finish, emphasisVars
  <2>2. OnStack /\ Sorted /\ TopMatched /\ Waiting /\ NoneCross
    BY <2>1 DEF StackInv
  <2>3. OnStack' /\ Sorted' /\ TopMatched'
    BY <2>1, <2>2 DEF OnStack, Sorted, TopMatched, At
  <2> QED
    BY <2>1, <2>2, <2>3 DEF Waiting, NoneCross, At
<1>4. ASSUME Unmatching
      PROVE  /\ OnStack /\ Sorted /\ TopMatched /\ Waiting /\ NoneCross
             /\ ii \in 1 .. Len(tgt) /\ openMatches \in Seq(Nat) /\ Len(openMatches) \in Nat
             /\ \A a \in 1 .. Len(tgt) : tgt[a] \in Nat \ {0}
             /\ \A a, b \in 1 .. Len(tgt) : tgt[a] = tgt[b] => a = b
  BY <1>0, <1>4, ListFacts DEF StackInv, Unmatching, WalkTypes
<1>5. CASE PushOpen
  <2>0. PICK p \in 1 .. Len(tgt) : p = ii
    BY <1>4, <1>5 DEF PushOpen
  <2>1. /\ OnStack /\ Sorted /\ TopMatched /\ Waiting /\ NoneCross
        /\ openMatches \in Seq(Nat) /\ Len(openMatches) \in Nat /\ p \in Nat /\ tgt[p] \in Nat
        /\ \A a, b \in 1 .. Len(tgt) : tgt[a] = tgt[b] => a = b
    BY <1>4, <1>5, <2>0 DEF PushOpen
  <2>2. /\ At(p).openMarker /\ At(p).match # 0 /\ openMatches' = Append(openMatches, tgt[p])
        /\ UNCHANGED <<markers, tgt>> /\ ii' = p + 1
    BY <1>5, <2>0 DEF PushOpen
  <2> DEFINE L == Len(openMatches)
  <2>3. /\ Len(openMatches') = L + 1 /\ openMatches'[L + 1] = tgt[p]
        /\ \A n \in 1 .. L : openMatches'[n] = openMatches[n]
    BY <2>1, <2>2
  <2>4. OnStack'
    <3>0. ii' - 1 = p /\ \A a : At(a)' = At(a)
      BY <2>1, <2>2 DEF At
    <3> SUFFICES ASSUME NEW n \in 1 .. L + 1
                 PROVE  \E a \in 1 .. p : tgt[a] = openMatches'[n] /\ At(a).openMarker
      BY <2>2, <2>3, <3>0 DEF OnStack
    <3>1. CASE n = L + 1
      BY <2>1, <2>2, <2>3, <3>1
    <3>2. CASE n # L + 1
      <4>1. n \in 1 .. L
        BY <2>1, <3>2
      <4>2. PICK a \in 1 .. p - 1 : tgt[a] = openMatches[n] /\ At(a).openMarker
        BY <2>0, <2>1, <4>1 DEF OnStack
      <4> QED
        BY <2>1, <2>3, <4>1, <4>2
    <3> QED
      BY <3>1, <3>2
  <2>5. Sorted'
    <3> SUFFICES ASSUME NEW n \in 1 .. L + 1, NEW m \in 1 .. L + 1,
                        NEW a \in 1 .. Len(tgt), NEW b \in 1 .. Len(tgt),
                        n < m, tgt[a] = openMatches'[n], tgt[b] = openMatches'[m]
                 PROVE  a < b
      BY <2>2, <2>3 DEF Sorted
    <3>1. n \in 1 .. L
      BY <2>1
    <3>2. CASE m = L + 1
      <4>1. b = p
        BY <2>1, <2>3, <3>2
      <4>2. PICK c \in 1 .. p - 1 : tgt[c] = openMatches[n]
        BY <2>0, <2>1, <3>1 DEF OnStack
      <4>3. c \in 1 .. Len(tgt) /\ c < p
        BY <1>0, <2>1
      <4> QED
        BY <2>1, <2>3, <3>1, <4>1, <4>2, <4>3
    <3>3. CASE m # L + 1
      <4>0. L \in Nat
        BY <2>1
      <4>1. m \in 1 .. L
        BY <3>3, <4>0
      <4> QED
        BY <2>1, <2>3, <3>1, <4>1, SMTT(30) DEF Sorted
    <3> QED
      BY <3>2, <3>3
  <2>6. TopMatched'
    BY <2>2, <2>3 DEF TopMatched, At
  <2>7. Waiting'
    <3>0. ii' - 1 = p /\ \A a : At(a)' = At(a)
      BY <2>1, <2>2 DEF At
    <3> SUFFICES ASSUME NEW a \in 1 .. p, NEW b \in p + 1 .. Len(tgt), At(a).match = tgt[b]
                 PROVE  \E n \in 1 .. L + 1 : openMatches'[n] = tgt[a]
      BY <2>2, <2>3, <3>0 DEF Waiting
    <3>1. CASE a = p
      BY <2>1, <2>3, <3>1
    <3>2. CASE a # p
      <4>1. a \in 1 .. ii - 1 /\ b \in ii .. Len(tgt)
        BY <1>0, <2>0, <3>2
      <4>2. PICK n \in 1 .. L : openMatches[n] = tgt[a]
        BY <2>1, <4>1 DEF Waiting
      <4> QED
        BY <2>1, <2>3, <4>2
    <3> QED
      BY <3>1, <3>2
  <2>8. ASSUME NEW a \in 1 .. Len(tgt), a < p, At(a).match = tgt[p] PROVE FALSE
    <3>1. PairAt(a, p)
      BY <1>0, <2>8, PairOf
    <3> QED
      BY <1>0, <2>2, <2>8, <3>1 DEF PairAt
  <2>9. NoneCross'
    BY <1>0, <2>0, <2>1, <2>2, <2>8, PastFacts
  <2> QED
    BY <2>4, <2>5, <2>6, <2>7, <2>9
<1>6. CASE PopMatch
  <2>0. PICK p \in 1 .. Len(tgt) : p = ii
    BY <1>4, <1>6 DEF PopMatch
  <2>1. /\ OnStack /\ Sorted /\ Waiting /\ NoneCross /\ p \in Nat
        /\ \A a \in 1 .. Len(tgt) : tgt[a] \in Nat \ {0}
        /\ \A a, b \in 1 .. Len(tgt) : tgt[a] = tgt[b] => a = b
    BY <1>4, <1>6, <2>0 DEF PopMatch
  <2>2. /\ openMatches' = Popped(openMatches) /\ UNCHANGED <<markers, tgt>> /\ ii' = p + 1
        /\ ~At(p).openMarker
    BY <1>6, <2>0 DEF PopMatch, MatchedClose
  <2> DEFINE L == Len(openMatches)
             l == Len(openMatches')
  <2>3. PICK c \in 1 .. Len(tgt) : /\ PairAt(p, c) /\ c < p /\ openMatches \in Seq(Nat)
                                   /\ L \in Nat \ {0} /\ openMatches[L] = tgt[c]
    BY <1>6, <2>0, CloseFacts DEF PopMatch
  <2>4. /\ l \in 0 .. L - 1 /\ \A n \in 1 .. l : openMatches'[n] = openMatches[n]
        /\ openMatches' # << >> => markers[openMatches'[l]].match # 0
        /\ \A n \in 1 .. L - 1 : markers[openMatches[n]].match # 0 => n =< l
    <3>1. openMatches # << >>
      BY <2>3
    <3> QED
      BY <2>2, <2>3, <3>1, PoppedFacts
  <2>5. OnStack'
    <3> SUFFICES ASSUME NEW n \in 1 .. l
                 PROVE  \E a \in 1 .. p : tgt[a] = openMatches[n] /\ At(a).openMarker
      BY <2>1, <2>2, <2>4 DEF OnStack, At
    <3>1. n \in 1 .. L
      BY <2>3, <2>4
    <3>2. PICK a \in 1 .. p - 1 : tgt[a] = openMatches[n] /\ At(a).openMarker
      BY <2>0, <2>1, <3>1 DEF OnStack
    <3> QED
      BY <2>1, <3>2
  <2>6. Sorted'
    <3>1. \A n \in 1 .. l : n \in 1 .. L
      BY <2>3, <2>4
    <3> QED
      BY <2>1, <2>2, <2>4, <3>1 DEF Sorted
  <2>7. TopMatched'
    BY <2>2, <2>4 DEF TopMatched
  <2>8. Waiting'
    <3> SUFFICES ASSUME NEW a \in 1 .. p, NEW b \in p + 1 .. Len(tgt), At(a).match = tgt[b]
                 PROVE  \E n \in 1 .. l : openMatches'[n] = tgt[a]
      BY <2>1, <2>2, SMTT(30) DEF Waiting, At
    <3>1. b \in 1 .. Len(tgt) /\ b \in ii .. Len(tgt) /\ p < b /\ a \in 1 .. Len(tgt)
      BY <1>0, <2>0, <2>1
    <3>2. PairAt(a, b)
      BY <1>0, <3>1, PairOf
    <3>3. a # p
      BY <2>2, <3>1, <3>2 DEF PairAt
    <3>4. a \in 1 .. ii - 1
      BY <2>0, <2>1, <3>3
    <3>5. PICK n \in 1 .. L : openMatches[n] = tgt[a]
      BY <2>1, <3>1, <3>4 DEF Waiting
    <3>6. a # c
      <4>1. At(c).match = tgt[p]
        BY <2>3 DEF PairAt
      <4>2. tgt[b] # tgt[p]
        BY <2>1, <3>1
      <4> QED
        BY <4>1, <4>2
    <3>7. n \in 1 .. L - 1
      BY <2>1, <2>3, <3>1, <3>5, <3>6
    <3>8. markers[openMatches[n]].match # 0
      BY <2>1, <3>1, <3>5 DEF At
    <3>9. n \in 1 .. l
      BY <2>4, <3>7, <3>8
    <3> QED
      BY <2>4, <3>5, <3>9
  <2>9. ASSUME NEW a \in 1 .. Len(tgt), NEW e \in 1 .. Len(tgt), NEW d \in 1 .. Len(tgt),
               a < e, e < p, p < d, At(a).match = tgt[p], At(e).match = tgt[d]
        PROVE  FALSE
    <3>1. PairAt(a, p)
      BY <1>0, <2>9, PairOf
    <3>2. tgt[a] = tgt[c]
      BY <2>3, <3>1 DEF PairAt
    <3>3. a = c
      BY <2>1, <3>2
    <3>4. e \in 1 .. ii - 1 /\ d \in ii .. Len(tgt)
      BY <1>0, <2>0, <2>9
    <3>5. PICK n \in 1 .. L : openMatches[n] = tgt[e]
      BY <2>1, <2>9, <3>4 DEF Waiting
    <3>6. n # L
      BY <2>1, <2>3, <2>9, <3>3, <3>5
    <3>7. n < L /\ L \in 1 .. L
      BY <2>3, <3>6
    <3>8. e < a
      BY <2>1, <2>3, <3>3, <3>5, <3>7 DEF Sorted
    <3> QED
      BY <1>0, <2>9, <3>8
  <2>10. NoneCross'
    <3>1. \A a \in 1 .. Len(tgt) : At(a)' = At(a)
      BY <2>2 DEF At
    <3> SUFFICES ASSUME NEW a \in 1 .. Len(tgt), NEW b \in 1 .. Len(tgt),
                        NEW e \in 1 .. Len(tgt), NEW d \in 1 .. Len(tgt),
                        a < e, e < b, b < d, b < p + 1, At(a).match = tgt[b], At(e).match = tgt[d]
                 PROVE  FALSE
      BY <2>2, <3>1 DEF NoneCross
    <3>2. CASE b = p
      BY <2>9, <3>2
    <3>3. CASE b # p
      <4>1. b < ii
        BY <1>0, <2>0, <2>1, <3>3
      <4> QED
        BY <2>1, <4>1 DEF NoneCross
    <3> QED
      BY <3>2, <3>3
  <2> QED
    BY <2>5, <2>6, <2>7, <2>8, <2>10
<1>7. CASE SkipUnmatched
  <2>0. PICK p \in 1 .. Len(tgt) : p = ii
    BY <1>4, <1>7 DEF SkipUnmatched
  <2>1. /\ OnStack /\ Sorted /\ TopMatched /\ Waiting /\ NoneCross /\ p \in Nat
        /\ \A a \in 1 .. Len(tgt) : tgt[a] \in Nat \ {0}
    BY <1>4, <1>7, <2>0 DEF SkipUnmatched
  <2>2. At(p).match = 0 /\ UNCHANGED <<markers, tgt, openMatches>> /\ ii' = p + 1
    BY <1>7, <2>0 DEF SkipUnmatched
  <2>3. OnStack'
    <3>1. \A a \in 1 .. ii - 1 : a \in 1 .. ii' - 1
      BY <2>0, <2>1, <2>2
    <3> QED
      BY <2>1, <2>2, <3>1 DEF OnStack, At
  <2>4. Sorted' /\ TopMatched'
    BY <2>1, <2>2 DEF Sorted, TopMatched
  <2>5. Waiting'
    <3> SUFFICES ASSUME NEW a \in 1 .. p, NEW b \in p + 1 .. Len(tgt), At(a).match = tgt[b]
                 PROVE  \E n \in 1 .. Len(openMatches) : openMatches[n] = tgt[a]
      BY <2>1, <2>2 DEF Waiting, At
    <3>1. b \in 1 .. Len(tgt) /\ b \in ii .. Len(tgt)
      BY <1>0, <2>0, <2>1
    <3>2. a # p
      BY <2>1, <2>2, <3>1
    <3>3. a \in 1 .. ii - 1
      BY <2>0, <2>1, <3>2
    <3> QED
      BY <2>1, <3>1, <3>3 DEF Waiting
  <2>6. ASSUME NEW a \in 1 .. Len(tgt), a < p, At(a).match = tgt[p] PROVE FALSE
    <3>1. PairAt(a, p)
      BY <1>0, <2>6, PairOf
    <3> QED
      BY <2>1, <2>2, <3>1 DEF PairAt
  <2>7. NoneCross'
    BY <1>0, <2>0, <2>1, <2>2, <2>6, PastFacts, SMTT(30)
  <2> QED
    BY <2>3, <2>4, <2>5, <2>7
<1>8. CASE Unmatch
  <2>0. PICK p \in 1 .. Len(tgt), q \in 1 .. Len(tgt) :
           /\ p = ii /\ PairAt(p, q)
           /\ At(p)'.match = 0 /\ At(q)'.match = 0
           /\ At(p)'.openMarker = At(p).openMarker /\ At(q)'.openMarker = At(q).openMarker
           /\ \A a \in (1 .. Len(tgt)) \ {p, q} : At(a)' = At(a)
    BY <1>8, UnmatchFacts
  <2>1. /\ OnStack /\ Sorted /\ TopMatched /\ Waiting /\ NoneCross /\ p \in Nat
        /\ openMatches \in Seq(Nat) /\ Len(openMatches) \in Nat
        /\ \A a \in 1 .. Len(tgt) : tgt[a] \in Nat \ {0}
        /\ \A a, b \in 1 .. Len(tgt) : tgt[a] = tgt[b] => a = b
    BY <1>4, <1>8, <2>0 DEF Unmatch
  <2>2. /\ UNCHANGED <<tgt, openMatches>> /\ ii' = p + 1
        /\ At(p).id # markers[Last(openMatches)].id
    BY <1>8, <2>0 DEF Unmatch
  <2>3. \A a \in 1 .. Len(tgt) : At(a)'.openMarker = At(a).openMarker
    BY <2>0
  <2>4. OnStack'
    <3>1. \A a \in 1 .. ii - 1 : a \in 1 .. ii' - 1 /\ a \in 1 .. Len(tgt)
      BY <1>0, <2>0, <2>1, <2>2
    <3> QED
      BY <2>1, <2>2, <2>3, <3>1 DEF OnStack
  <2>5. Sorted'
    BY <2>1, <2>2 DEF Sorted
  <2>6. TopMatched'
    <3> SUFFICES ASSUME openMatches # << >>
                 PROVE  markers'[openMatches[Len(openMatches)]].match # 0
      BY <2>2 DEF TopMatched
    <3>1. Len(openMatches) \in 1 .. Len(openMatches)
      BY <2>1
    <3>2. PICK a \in 1 .. ii - 1 : tgt[a] = openMatches[Len(openMatches)]
      BY <2>1, <3>1 DEF OnStack
    <3>3. a \in 1 .. Len(tgt) /\ a # p
      BY <1>0, <2>0, <2>1
    <3>4. At(a).match # 0 /\ At(a).id # At(p).id
      BY <2>1, <2>2, <3>2 DEF TopMatched, At, Last
    <3>5. a # q
      BY <2>0, <3>4 DEF PairAt
    <3>6. At(a)' = At(a)
      BY <2>0, <3>3, <3>5
    <3> QED
      BY <2>2, <3>2, <3>4, <3>6 DEF At
  <2>7. \A a \in 1 .. Len(tgt) : At(a)'.match # 0 => a \notin {p, q} /\ At(a)' = At(a)
    BY <2>0
  <2>8. Waiting'
    <3> SUFFICES ASSUME NEW a \in 1 .. p, NEW b \in p + 1 .. Len(tgt), At(a)'.match = tgt[b]
                 PROVE  \E n \in 1 .. Len(openMatches) : openMatches[n] = tgt[a]
      BY <2>1, <2>2 DEF Waiting
    <3>1. b \in 1 .. Len(tgt) /\ b \in ii .. Len(tgt) /\ a \in 1 .. Len(tgt)
      BY <1>0, <2>0, <2>1
    <3>2. a # p /\ At(a)' = At(a)
      BY <2>1, <2>7, <3>1
    <3>3. a \in 1 .. ii - 1
      BY <2>0, <2>1, <3>2
    <3> QED
      BY <2>1, <3>1, <3>2, <3>3 DEF Waiting
  <2>9. NoneCross'
    <3> SUFFICES ASSUME NEW a \in 1 .. Len(tgt'), NEW b \in 1 .. Len(tgt'),
                        NEW c \in 1 .. Len(tgt'), NEW d \in 1 .. Len(tgt'),
                        a < c, c < b, b < d, b < ii', At(a)'.match = tgt'[b], At(c)'.match = tgt'[d]
                 PROVE  FALSE
      BY DEF NoneCross
    <3>0. /\ a \in 1 .. Len(tgt) /\ b \in 1 .. Len(tgt) /\ c \in 1 .. Len(tgt) /\ d \in 1 .. Len(tgt)
          /\ b < p + 1 /\ At(a)'.match = tgt[b] /\ At(c)'.match = tgt[d]
      BY <2>2
    <3>1. /\ a \notin {p, q} /\ At(a).match = tgt[b] /\ At(c).match = tgt[d]
      BY <2>1, <2>7, <3>0
    <3>2. b # p
      <4> SUFFICES ASSUME b = p PROVE FALSE
        OBVIOUS
      <4>1. PairAt(a, p)
        BY <1>0, <3>1, PairOf
      <4>2. tgt[a] = tgt[q]
        BY <2>0, <4>1 DEF PairAt
      <4> QED
        BY <2>1, <3>0, <3>1, <4>2
    <3>3. b < ii
      BY <1>0, <2>0, <2>1, <3>0, <3>2
    <3> QED
      BY <2>1, <3>0, <3>1, <3>3 DEF NoneCross
  <2> QED
    BY <2>4, <2>5, <2>6, <2>8, <2>9
<1> QED
  BY <1>1, <1>2, <1>3, <1>5, <1>6, <1>7, <1>8 DEF EmphasisNext
-----------------------------------------------------------------------------
(***************************************************************************)
(* AllMatched.  The search walks away from an open-marker only past close- *)
(* markers that do not fit it; none of them, nor it, is of three, so that  *)
(* no later split makes one that fits.                                     *)
(***************************************************************************)
Unfit(m, c) == /\ m.size # 3 /\ c.size # 3
               /\ ~(m.tokenCharacter = c.tokenCharacter /\ m.size = c.size)

\* The open-marker at a position and a close-marker behind it, both unmatched.
LeftOver(a, b) == IsUnmatchedOpenMarker(At(a)) /\ IsUnmatchedCloseMarker(At(b))

LeftBehind == \A a, b \in 1 .. Len(tgt) :
    a < ii /\ a < b /\ LeftOver(a, b) => Unfit(At(a), At(b))

PassedBy == \A b \in 1 .. Len(tgt) :
    ii < b /\ b < iii /\ IsUnmatchedCloseMarker(At(b)) => Unfit(At(ii), At(b))

LeftInv ==
    /\ phase \in {"match", "search"} => LeftBehind
    /\ phase = "search" => PassedBy
    /\ AllMatched

LEMMA LeftStep == PairInv /\ LeftInv /\ [EmphasisNext]_emphasisVars => LeftInv'
<1> SUFFICES ASSUME PairInv, LeftInv, [EmphasisNext]_emphasisVars PROVE LeftInv'
  OBVIOUS
<1>0. /\ ListTypes /\ WalkTypes /\ Len(tgt) \in Nat /\ ii \in Nat \ {0} /\ iii \in Nat
      /\ \A a \in 1 .. Len(tgt) : At(a) \in Some /\ tgt[a] \in 1 .. Len(markers)
      /\ \A a, b \in 1 .. Len(tgt) : tgt[a] = tgt[b] => a = b
  BY ListFacts DEF PairInv, WalkTypes, ListTypes
<1>1. CASE NextOpenMarker
  <2>1. /\ LeftBehind /\ phase = "match" /\ UNCHANGED <<markers, tgt>>
        /\ \/ ii' = ii /\ iii' = ii + 1 /\ phase' = "search"
           \/ ~IsUnmatchedOpenMarker(At(ii)) /\ ii' = ii + 1 /\ phase' = "match"
    BY <1>1 DEF NextOpenMarker, LeftInv
  <2>2. \A a : At(a)' = At(a)
    BY <2>1 DEF At
  <2>3. LeftBehind'
    BY <1>0, <2>1, <2>2 DEF LeftBehind, LeftOver
  <2>4. phase' = "search" => PassedBy'
    BY <1>0, <2>1 DEF PassedBy
  <2> QED
    BY <2>1, <2>3, <2>4 DEF LeftInv, AllMatched
<1>2. CASE NoCloseMarker \/ PassOver
  <2>1. /\ LeftBehind /\ PassedBy /\ UNCHANGED <<markers, tgt>>
        /\ phase' \in {"match", "search"}
    BY <1>2 DEF NoCloseMarker, PassOver, Searching, LeftInv
  <2>2. \A a : At(a)' = At(a)
    BY <2>1 DEF At
  <2>3. CASE NoCloseMarker
    <3>1. iii > Len(tgt) /\ ii' = ii + 1 /\ phase' = "match"
      BY <2>3 DEF NoCloseMarker
    <3>2. LeftBehind'
      <4> SUFFICES ASSUME NEW a \in 1 .. Len(tgt), NEW b \in 1 .. Len(tgt),
                          a < ii + 1, a < b, LeftOver(a, b)
                   PROVE  Unfit(At(a), At(b))
        BY <2>1, <2>2, <3>1 DEF LeftBehind, LeftOver
      <4>1. CASE a = ii
        BY <1>0, <2>1, <3>1, <4>1 DEF PassedBy, LeftOver
      <4>2. CASE a # ii
        BY <1>0, <2>1, <4>2 DEF LeftBehind
      <4> QED
        BY <4>1, <4>2
    <3> QED
      BY <3>1, <3>2 DEF LeftInv, AllMatched
  <2>4. CASE PassOver
    <3>1. /\ iii' = iii + 1 /\ ii' = ii /\ phase' = "search"
          /\ IsUnmatchedCloseMarker(At(iii)) => Unfit(At(ii), At(iii))
      BY <2>4 DEF PassOver, Searching, SplitsClose, Matches, Opener, Closer, Unfit
    <3>2. LeftBehind'
      BY <2>1, <2>2, <3>1 DEF LeftBehind, LeftOver
    <3>3. PassedBy'
      <4> SUFFICES ASSUME NEW b \in 1 .. Len(tgt), ii < b, b < iii + 1,
                          IsUnmatchedCloseMarker(At(b))
                   PROVE  Unfit(At(ii), At(b))
        BY <2>1, <2>2, <3>1 DEF PassedBy
      <4>1. CASE b = iii
        BY <3>1, <4>1
      <4>2. CASE b # iii
        BY <1>0, <2>1, <4>2 DEF PassedBy
      <4> QED
        BY <4>1, <4>2
    <3> QED
      BY <3>1, <3>2, <3>3 DEF LeftInv, AllMatched
  <2> QED
    BY <1>2, <2>3, <2>4
<1>3. CASE SplitClose
  <2>0. PICK p \in 1 .. Len(tgt), o \in 1 .. Len(tgt) : p = iii /\ o = ii
    BY <1>0, <1>3 DEF SplitClose, Searching, WalkTypes
  <2>1. /\ LeftBehind /\ PassedBy /\ o < p /\ IsUnmatchedCloseMarker(At(p)) /\ At(p).size = 3
        /\ Split(p, At(o).size) /\ At(o).size \in Int
        /\ iii' = p + 1 /\ ii' = o /\ phase' = "search"
    BY <1>0, <1>3, <2>0 DEF SplitClose, Searching, SplitsClose, Closer, Opener, LeftInv, WalkTypes, Some
  <2>2. \A a \in 1 .. Len(tgt) : a < o => ~IsUnmatchedOpenMarker(At(a))
    BY <1>0, <2>0, <2>1 DEF LeftBehind, LeftOver, Unfit
  <2>3. /\ Len(tgt') = Len(tgt) + 2
        /\ \A a \in 1 .. Len(tgt') : a < p => a \in 1 .. Len(tgt) /\ At(a)' = At(a)
        /\ At(p)'.cannotMatch
    <3> HIDE DEF ListTypes
    <3>1. /\ Len(tgt') = Len(tgt) + 2
          /\ \A a \in (1 .. Len(tgt')) \ {p, p + 1, p + 2} : At(a)' = At(Before(a, p))
          /\ At(p)' = [At(p) EXCEPT !.cannotMatch = TRUE, !.disabled = TRUE]
      BY <1>0, <2>1, SplitFacts
    <3>2. At(p) \in Some
      BY <1>0, <2>1
    <3>3. At(p)'.cannotMatch
      BY <3>1, <3>2 DEF Some
    <3>4. ASSUME NEW a \in 1 .. Len(tgt'), a < p
          PROVE  a \in 1 .. Len(tgt) /\ At(a)' = At(a)
      <4>1. a \in 1 .. Len(tgt) /\ a \in (1 .. Len(tgt')) \ {p, p + 1, p + 2}
        BY <1>0, <2>1, <3>4
      <4>2. Before(a, p) = a
        BY <3>4, <4>1 DEF Before
      <4> QED
        BY <3>1, <4>1, <4>2
    <3> QED
      BY <3>1, <3>3, <3>4
  <2>4. LeftBehind'
    <3> SUFFICES ASSUME NEW a \in 1 .. Len(tgt'), a < o, IsUnmatchedOpenMarker(At(a)') PROVE FALSE
      BY <2>1 DEF LeftBehind, LeftOver
    <3>1. a < p
      BY <1>0, <2>1, <2>3
    <3> QED
      BY <2>2, <2>3, <3>1
  <2>5. PassedBy'
    <3> SUFFICES ASSUME NEW b \in 1 .. Len(tgt'), o < b, b < p + 1,
                        IsUnmatchedCloseMarker(At(b)')
                 PROVE  Unfit(At(o)', At(b)')
      BY <2>1 DEF PassedBy
    <3>1. b # p
      BY <2>3 DEF IsUnmatchedCloseMarker
    <3>2. b < p /\ o \in 1 .. Len(tgt')
      BY <1>0, <2>1, <2>3, <3>1
    <3>3. At(b)' = At(b) /\ At(o)' = At(o) /\ b \in 1 .. Len(tgt)
      BY <2>1, <2>3, <3>2
    <3> QED
      BY <2>0, <2>1, <3>2, <3>3 DEF PassedBy
  <2> QED
    BY <2>1, <2>4, <2>5 DEF LeftInv, AllMatched
<1>4. CASE Match
  <2>0. PICK o \in 1 .. Len(tgt), p \in 1 .. Len(tgt) : p = iii /\ o = ii
    BY <1>0, <1>4 DEF Match, Searching, WalkTypes
  <2>1. /\ LeftBehind /\ o < p /\ ii' = o + 1 /\ phase' = "match" /\ tgt' = tgt
        /\ markers' = [markers EXCEPT ![tgt[o]].match = tgt[p], ![tgt[o]].id = id,
                                      ![tgt[p]].match = tgt[o], ![tgt[p]].id = id]
        /\ id \in Int
    BY <1>0, <1>4, <2>0 DEF Match, Searching, LeftInv, WalkTypes
  <2>2. /\ At(o)'.match # 0 /\ At(p)'.match # 0
        /\ \A a \in (1 .. Len(tgt)) \ {o, p} : At(a)' = At(a)
    <3>1. At(o) \in Some /\ At(p) \in Some /\ o # p
          /\ tgt[o] \in Nat \ {0} /\ tgt[p] \in Nat \ {0} /\ tgt[o] \in Nat /\ tgt[p] \in Nat
          /\ UNCHANGED tgt /\ ListTypes
      BY <1>0, <2>1, ListFacts
    <3>2. /\ ListTypes'
          /\ At(o)' = [At(o) EXCEPT !.match = tgt[p], !.id = id]
          /\ At(p)' = [At(p) EXCEPT !.match = tgt[o], !.id = id]
          /\ \A c \in (1 .. Len(tgt)) \ {o, p} : At(c)' = At(c)
      <4>1. markers' = [markers EXCEPT ![tgt[o]].match = tgt[p], ![tgt[o]].id = id,
                                       ![tgt[p]].match = tgt[o], ![tgt[p]].id = id]
        BY <2>1
      <4>2. id \in Int
        BY <2>1
      <4> QED
        BY <3>1, <4>1, <4>2, TwoFacts, Zenon
    <3> QED
      BY <3>1, <3>2 DEF Some
  <2>3. LeftBehind'
    <3> SUFFICES ASSUME NEW a \in 1 .. Len(tgt), NEW b \in 1 .. Len(tgt), a < o + 1, a < b,
                        IsUnmatchedOpenMarker(At(a)'), IsUnmatchedCloseMarker(At(b)')
                 PROVE  Unfit(At(a)', At(b)')
      BY <2>1 DEF LeftBehind, LeftOver
    <3>1. a \notin {o, p} /\ b \notin {o, p}
      BY <2>2 DEF IsUnmatchedOpenMarker, IsUnmatchedCloseMarker
    <3>2. At(a)' = At(a) /\ At(b)' = At(b) /\ a < o
      BY <1>0, <2>2, <3>1
    <3> QED
      BY <2>0, <2>1, <3>2 DEF LeftBehind, LeftOver
  <2> QED
    BY <2>1, <2>3 DEF LeftInv, AllMatched
<1>5. CASE SplitOpen
  <2>0. PICK o \in 1 .. Len(tgt), p \in 1 .. Len(tgt) : p = iii /\ o = ii
    BY <1>0, <1>5 DEF SplitOpen, Searching, WalkTypes
  <2>1. /\ LeftBehind /\ At(o).openMarker /\ Split(o, At(p).size) /\ At(p).size \in Int
        /\ ii' = o + 1 /\ phase' = "match"
    BY <1>0, <1>5, <2>0 DEF SplitOpen, Searching, Closer, Opener, LeftInv, WalkTypes, Some,
       IsUnmatchedOpenMarker
  <2>2. /\ Len(tgt') = Len(tgt) + 2
        /\ \A a \in (1 .. Len(tgt')) \ {o, o + 1, o + 2} :
             Before(a, o) \in (1 .. Len(tgt)) \ {o} /\ At(a)' = At(Before(a, o))
        /\ At(o)' = [At(o) EXCEPT !.cannotMatch = TRUE, !.disabled = TRUE]
        /\ \E s \in Int : At(o + 1)' = Marker(At(o).openMarker, At(o).tokenCharacter, s)
        /\ At(o + 2)' = Marker(At(o).openMarker, At(o).tokenCharacter, At(p).size)
    BY <1>0, <2>1, SplitFacts
  <2>3. At(o)'.cannotMatch /\ At(o)'.openMarker
    BY <1>0, <2>1, <2>2 DEF Some
  <2>4. At(o + 1)'.openMarker /\ At(o + 2)'.openMarker
    BY <2>1, <2>2 DEF Marker
  <2>5. LeftBehind'
    <3> SUFFICES ASSUME NEW a \in 1 .. Len(tgt'), NEW b \in 1 .. Len(tgt'), a < o + 1, a < b,
                        IsUnmatchedOpenMarker(At(a)'), IsUnmatchedCloseMarker(At(b)')
                 PROVE  Unfit(At(a)', At(b)')
      BY <2>1 DEF LeftBehind, LeftOver
    <3>1. a # o /\ b \notin {o, o + 1, o + 2}
      BY <2>3, <2>4 DEF IsUnmatchedOpenMarker, IsUnmatchedCloseMarker
    <3>2. a < o /\ a \in (1 .. Len(tgt')) \ {o, o + 1, o + 2}
      BY <1>0, <3>1
    <3>3. /\ At(a)' = At(Before(a, o)) /\ At(b)' = At(Before(b, o))
          /\ Before(a, o) \in 1 .. Len(tgt) /\ Before(b, o) \in 1 .. Len(tgt)
      BY <2>2, <3>1, <3>2
    <3>4. Before(a, o) < o /\ Before(a, o) < Before(b, o)
      BY <1>0, <2>2, <3>1, <3>2 DEF Before
    <3> QED
      BY <2>0, <2>1, <3>3, <3>4 DEF LeftBehind, LeftOver
  <2> QED
    BY <2>1, <2>5 DEF LeftInv, AllMatched
<1>6. CASE StartUnmatching
  <2>1. LeftBehind /\ ii > Len(tgt) /\ phase' = "unmatch" /\ UNCHANGED <<markers, tgt>>
    BY <1>6 DEF StartUnmatching, LeftInv
  <2>2. \A a : At(a)' = At(a)
    BY <2>1 DEF At
  <2>3. DOMAIN tgt = 1 .. Len(tgt)
    BY <1>0 DEF ListTypes
  <2>4. \A a, b \in 1 .. Len(tgt) : a < b /\ LeftOver(a, b) => Unfit(At(a), At(b))
    BY <1>0, <2>1 DEF LeftBehind
  <2>5. AllMatched'
    BY <2>1, <2>2, <2>3, <2>4 DEF AllMatched, LeftOver, Unfit
  <2> QED
    BY <2>1, <2>5 DEF LeftInv
<1>7. CASE PushOpen \/ PopMatch \/ Unmatch \/ SkipUnmatched
  <2>1. phase' = "unmatch" /\ ii' = ii + 1
    BY <1>7 DEF PushOpen, PopMatch, Unmatch, SkipUnmatched, Unmatching
  <2>2. ii' # 1
    BY <1>0, <2>1
  <2> QED
    BY <2>1, <2>2 DEF LeftInv, AllMatched
<1>8. CASE Finish
  BY <1>8 DEF Finish, LeftInv, AllMatched
<1>9. CASE UNCHANGED emphasisVars
  <2>1. UNCHANGED <<markers, tgt, ii, iii, phase>>
    BY <1>9 DEF emphasisVars
  <2>2. \A a : At(a)' = At(a)
    BY <2>1 DEF At
  <2>3. AllMatched'
    BY <2>1, <2>2 DEF AllMatched, LeftInv
  <2>4. LeftBehind => LeftBehind'
    BY <2>1, <2>2 DEF LeftBehind, LeftOver
  <2>5. PassedBy => PassedBy'
    BY <2>1, <2>2 DEF PassedBy
  <2> QED
    BY <2>1, <2>3, <2>4, <2>5 DEF LeftInv
<1> QED
  BY <1>1, <1>2, <1>3, <1>4, <1>5, <1>6, <1>7, <1>8, <1>9 DEF EmphasisNext
-----------------------------------------------------------------------------
DoneAtEnd == phase = "done" => ii > Len(tgt)

EmphasisInv == PairInv /\ StackInv /\ LeftInv /\ DoneAtEnd

LEMMA EmphasisInvariant == EmphasisSpec => []EmphasisInv
<1>1. EmphasisInit => EmphasisInv
  <2> SUFFICES ASSUME EmphasisInit PROVE EmphasisInv
    OBVIOUS
  <2>1. phase = "match" /\ ii = 1
    BY DEF EmphasisInit
  <2>2. PairInv
    BY PairInvInit
  <2>3. LeftInv
    BY <2>1 DEF LeftInv, LeftBehind, AllMatched
  <2> QED
    BY <2>1, <2>2, <2>3 DEF EmphasisInv, StackInv, DoneAtEnd
<1>2. EmphasisInv /\ [EmphasisNext]_emphasisVars => EmphasisInv'
  <2> SUFFICES ASSUME EmphasisInv, [EmphasisNext]_emphasisVars PROVE EmphasisInv'
    OBVIOUS
  <2>1. PairInv /\ StackInv /\ LeftInv /\ DoneAtEnd
    BY DEF EmphasisInv
  <2>2. PairInv'
    BY <2>1, TopAlways, PairInvStep
  <2>3. StackInv'
    BY <2>1, StackInvStep
  <2>4. LeftInv'
    BY <2>1, LeftStep
  <2>5. DoneAtEnd'
    BY <2>1 DEF DoneAtEnd, EmphasisNext, emphasisVars, NextOpenMarker, NoCloseMarker, PassOver,
       SplitClose, Match, SplitOpen, StartUnmatching, PushOpen, PopMatch, Unmatch, SkipUnmatched,
       Finish, Unmatching, Searching
  <2> QED
    BY <2>2, <2>3, <2>4, <2>5 DEF EmphasisInv
<1> QED
  BY <1>1, <1>2, PTL DEF EmphasisSpec

\* openMatches.top() (markdown-tokens.cpp) is never called on an empty stack, in
\* a text of any length.
THEOREM TopThere == EmphasisSpec => []TopIsThere
<1>1. EmphasisInv => TopIsThere
  BY TopAlways DEF EmphasisInv
<1> QED
  BY <1>1, EmphasisInvariant, PTL

\* Whatever its markers, what _processBoldAndItalicSpans leaves of a text is well
\* nested: each matched marker has a partner of its character and size, and
\* no two pairs cross.
THEOREM NestedTags == EmphasisSpec => []WritesNestedTags
<1>1. ASSUME EmphasisInv PROVE WritesNestedTags
  <2> SUFFICES ASSUME phase = "done" PROVE WritesNestedTags
    BY DEF WritesNestedTags
  <2>1. /\ ListTypes /\ Paired /\ Len(tgt) \in Nat /\ ii > Len(tgt) /\ ii \in Nat /\ NoneCross
        /\ DOMAIN tgt = 1 .. Len(tgt)
    BY <1>1 DEF EmphasisInv, PairInv, StackInv, DoneAtEnd, WalkTypes, ListTypes
  <2>2. \A a \in DOMAIN tgt : At(a).match # 0 =>
           \E p \in Pairs : a \in {p[1], p[2]} /\ ~At(a).disabled
    <3> SUFFICES ASSUME NEW a \in 1 .. Len(tgt), At(a).match # 0
                 PROVE  \E p \in Pairs : a \in {p[1], p[2]} /\ ~At(a).disabled
      BY <2>1
    <3>1. PICK b \in 1 .. Len(tgt) : PairAt(a, b)
      BY <2>1 DEF Paired
    <3>2. CASE a < b
      <4>1. <<a, b>> \in Pairs
        BY <2>1, <3>1, <3>2 DEF Pairs, PairAt
      <4> QED
        BY <3>1, <4>1 DEF PairAt
    <3>3. CASE b < a
      <4>1. <<b, a>> \in Pairs
        BY <2>1, <3>1, <3>3 DEF Pairs, PairAt
      <4> QED
        BY <3>1, <4>1 DEF PairAt
    <3>4. a < b \/ b < a
      BY <3>1 DEF PairAt
    <3> QED
      BY <3>2, <3>3, <3>4
  <2>3. \A p \in Pairs : /\ p[1] \in 1 .. Len(tgt) /\ p[2] \in 1 .. Len(tgt) /\ p[1] < p[2]
                         /\ At(p[1]).match = tgt[p[2]]
    BY <2>1 DEF Pairs
  <2>4. \A p \in Pairs : PairAt(p[1], p[2])
    BY <2>1, <2>3, PairOf
  <2>5. \A p \in Pairs : /\ At(p[1]).openMarker /\ ~At(p[2]).openMarker
                         /\ At(p[1]).tokenCharacter = At(p[2]).tokenCharacter
                         /\ At(p[1]).size = At(p[2]).size
    BY <2>3, <2>4 DEF PairAt
  <2>6. ASSUME NEW p \in Pairs, NEW q \in Pairs, p[1] < q[1], q[1] < p[2], p[2] < q[2]
        PROVE  FALSE
    BY <2>1, <2>3, <2>6 DEF NoneCross
  <2> QED
    BY <2>2, <2>5, <2>6 DEF WritesNestedTags
<1> QED
  BY <1>1, EmphasisInvariant, PTL

\* The first pass matches all that it can: no open-marker and close-marker that
\* fit each other are left, however many splits it takes.
THEOREM FirstPassMatches == EmphasisSpec => []AllMatched
<1>1. EmphasisInv => AllMatched
  BY DEF EmphasisInv, LeftInv
<1> QED
  BY <1>1, EmphasisInvariant, PTL
-----------------------------------------------------------------------------
(***************************************************************************)
(* KeepsTheText.  A split takes a marker of three out of the text and      *)
(* writes two in its place that are together three.  A marker that no      *)
(* split made is as the text had it, in the order of the text: so an       *)
(* open-marker of three meets a close-marker of three only if they clash.  *)
(***************************************************************************)
Copies(m) == [n \in 1 .. Written(m) |-> <<m.openMarker, m.tokenCharacter>>]
Shown == [a \in 1 .. Len(tgt) |-> Copies(At(a))]
FoundAll == [k \in 1 .. Len(text) |-> [n \in 1 .. text[k].size |-> <<text[k].open, text[k].c>>]]

Signs == BOOLEAN \X Characters

\* Of the text and its length.
TextTypes ==
    /\ text \in Texts /\ Len(text) \in Nat /\ Len(text) =< Len(markers)
    /\ \A k \in 1 .. Len(text) :
         text[k].open \in BOOLEAN /\ text[k].c \in Characters /\ text[k].size \in Sizes

Everywhere == \A k \in 1 .. Len(markers) : \E a \in 1 .. Len(tgt) : tgt[a] = k

\* What a marker is: as in the text, or made by a split.
AsFound == \A a \in 1 .. Len(tgt) :
    IF tgt[a] =< Len(text)
    THEN /\ At(a).openMarker = text[tgt[a]].open /\ At(a).tokenCharacter = text[tgt[a]].c
         /\ At(a).size = text[tgt[a]].size
    ELSE At(a).size \in IF Clash THEN 0 .. 3 ELSE 1 .. 2

InOrder == \A a, b \in 1 .. Len(tgt) :
    a < b /\ tgt[a] =< Len(text) /\ tgt[b] =< Len(text) => tgt[a] < tgt[b]

Counted ==
    /\ iii \in 1 .. Len(tgt) + 1
    /\ id =< Len(tgt) /\ (phase \in {"match", "search"} => id =< ii - 1)
    /\ \A a \in 1 .. Len(tgt) : At(a).id \in -1 .. id - 1

SameText == FlattenSeq(Shown) = FlattenSeq(FoundAll)

KeepInv == TextTypes /\ Everywhere /\ AsFound /\ InOrder /\ Counted /\ SameText

LEMMA SizeFacts ==
    ASSUME TextTypes, AsFound, NEW a \in 1 .. Len(tgt), ListTypes
    PROVE  /\ At(a).size \in 0 .. 3 /\ (~Clash => At(a).size \in 1 .. 3)
           /\ Written(At(a)) \in 0 .. 3
<1>1. tgt[a] \in 1 .. Len(markers) /\ tgt[a] \in Nat
  BY DEF ListTypes
<1>2. At(a).size \in 0 .. 3 /\ (~Clash => At(a).size \in 1 .. 3)
  <2>1. CASE tgt[a] =< Len(text)
    <3>1. tgt[a] \in 1 .. Len(text)
      BY <1>1, <2>1 DEF TextTypes
    <3>2. At(a).size \in 1 .. 3
      BY <2>1, <3>1 DEF TextTypes, AsFound, Sizes
    <3> QED
      BY <3>2
  <2>2. CASE ~(tgt[a] =< Len(text))
    BY <2>2 DEF AsFound
  <2> QED
    BY <2>1, <2>2
<1> QED
  BY <1>2 DEF Written

LEMMA CopiesType ==
    ASSUME NEW r \in Some, Written(r) \in Nat
    PROVE  Copies(r) \in Seq(Signs)
<1>1. r.openMarker \in BOOLEAN /\ r.tokenCharacter \in Characters
  BY DEF Some
<1>2. <<r.openMarker, r.tokenCharacter>> \in Signs
  BY <1>1 DEF Signs
<1>3. PICK k \in Nat : k = Written(r)
  OBVIOUS
<1>4. Copies(r) = [n \in 1 .. k |-> <<r.openMarker, r.tokenCharacter>>]
  BY <1>3 DEF Copies
<1>5. \A x \in Signs : [n \in 1 .. k |-> x] \in Seq(Signs)
  OBVIOUS
<1> QED
  BY <1>2, <1>4, <1>5, Zenon

\* So many copies, and so many more.
LEMMA CopiesSum ==
    ASSUME NEW v, NEW j \in Nat, NEW k \in Nat
    PROVE  [n \in 1 .. j + k |-> v] = [n \in 1 .. j |-> v] \o [n \in 1 .. k |-> v]
<1> DEFINE x == [n \in 1 .. j |-> v]
           y == [n \in 1 .. k |-> v]
           z == [n \in 1 .. j + k |-> v]
<1>1. /\ x \in Seq({v}) /\ Len(x) = j /\ \A n \in 1 .. j : x[n] = v
      /\ y \in Seq({v}) /\ Len(y) = k /\ \A n \in 1 .. k : y[n] = v
  OBVIOUS
<1>2. z \in Seq({v}) /\ Len(z) = j + k /\ \A n \in 1 .. j + k : z[n] = v
  <2>1. j + k \in Nat
    OBVIOUS
  <2> QED
    BY <2>1
<1> HIDE DEF x, y, z
<1>3. /\ x \o y \in Seq({v}) /\ Len(x \o y) = j + k
      /\ \A n \in 1 .. j + k : (x \o y)[n] = v
  BY <1>1, ConcatProperties
<1>4. z = x \o y
  BY <1>2, <1>3, SeqEqual
<1> QED
  BY <1>4 DEF x, y, z

\* A marker of three that is split, into two that there are.
LEMMA SplitKeeps ==
    ASSUME ListTypes, TextTypes, Everywhere, AsFound, InOrder, SameText, UNCHANGED text,
           NEW i \in 1 .. Len(tgt), NEW size \in IF Clash THEN 0 .. 3 ELSE 1 .. 2,
           Split(i, size), At(i).size = 3, ~At(i).disabled
    PROVE  TextTypes' /\ Everywhere' /\ AsFound' /\ InOrder' /\ SameText'
<1> DEFINE m == Len(markers)
           o == At(i).openMarker
           c == At(i).tokenCharacter
<1>1. /\ m \in Nat /\ Len(tgt) = m /\ i \in 1 .. m /\ i \in Nat /\ size \in 0 .. 3 /\ size \in Int
      /\ Len(text) \in Nat /\ Len(text) =< m /\ (Clash' <=> Clash)
      /\ \A a \in 1 .. m : tgt[a] \in 1 .. m /\ At(a) \in Some
      /\ At(i) \in Some
  BY ListFacts DEF ListTypes, TextTypes, Clash
<1>2. /\ ListTypes' /\ Len(tgt') = m + 2
      /\ \A a \in (1 .. m + 2) \ {i, i + 1, i + 2} :
           /\ Before(a, i) \in (1 .. m) \ {i}
           /\ tgt'[a] = tgt[Before(a, i)] /\ At(a)' = At(Before(a, i))
      /\ tgt'[i] = tgt[i]
      /\ At(i)' = [At(i) EXCEPT !.cannotMatch = TRUE, !.disabled = TRUE]
  BY <1>1, SplitFacts
<1>3. /\ tgt'[i + 1] = m + 1 /\ tgt'[i + 2] = m + 2 /\ Len(markers') = m + 2
      /\ At(i + 1)' = Marker(o, c, 3 - size) /\ At(i + 2)' = Marker(o, c, size)
  <2>1. tgt'[i + 1] = m + 1 /\ tgt'[i + 2] = m + 2
    BY <1>1, SplitList
  <2>2. /\ Len(markers') = m + 2 /\ markers'[m + 1] = Marker(o, c, At(i).size - size)
        /\ markers'[m + 2] = Marker(o, c, size)
    BY <1>1, SplitMarkers
  <2> QED
    BY <2>1, <2>2 DEF At
<1>4. /\ At(i)'.openMarker = o /\ At(i)'.tokenCharacter = c /\ At(i)'.size = 3 /\ At(i)'.disabled
      /\ At(i + 1)'.size = 3 - size /\ At(i + 1)'.openMarker = o
      /\ At(i + 1)'.tokenCharacter = c /\ ~At(i + 1)'.disabled
      /\ At(i + 2)'.size = size /\ At(i + 2)'.openMarker = o
      /\ At(i + 2)'.tokenCharacter = c /\ ~At(i + 2)'.disabled
  <2>1. /\ At(i)'.openMarker = o /\ At(i)'.tokenCharacter = c /\ At(i)'.size = 3
        /\ At(i)'.disabled
    BY <1>1, <1>2 DEF Some
  <2>2. \A x, y, n : /\ Marker(x, y, n).size = n /\ Marker(x, y, n).openMarker = x
                     /\ Marker(x, y, n).tokenCharacter = y /\ ~Marker(x, y, n).disabled
    BY DEF Marker
  <2> QED
    BY <1>3, <2>1, <2>2
<1> HIDE DEF o, c
<1>5. ASSUME NEW a \in 1 .. m + 2
      PROVE  a \in {i + 1, i + 2} \/ a = i \/ a \in (1 .. m + 2) \ {i, i + 1, i + 2}
  OBVIOUS
<1>6. ASSUME NEW a \in 1 .. m + 2, tgt'[a] =< Len(text)
      PROVE  a \notin {i + 1, i + 2}
  BY <1>1, <1>3, <1>6
<1>7. TextTypes'
  <2>1. Len(text) =< m + 2
    BY <1>1
  <2> QED
    BY <1>3, <2>1 DEF TextTypes
<1>8. Everywhere'
  <2> SUFFICES ASSUME NEW k \in 1 .. m + 2 PROVE \E a \in 1 .. m + 2 : tgt'[a] = k
    BY <1>2, <1>3 DEF Everywhere
  <2>1. CASE k > m
    <3>1. k = m + 1 \/ k = m + 2
      BY <1>1, <2>1
    <3>2. i + 1 \in 1 .. m + 2 /\ i + 2 \in 1 .. m + 2
      BY <1>1
    <3> QED
      BY <1>3, <3>1, <3>2
  <2>2. CASE ~(k > m)
    <3>0. k \in 1 .. m
      BY <1>1, <2>2
    <3>1. PICK a \in 1 .. m : tgt[a] = k
      BY <1>1, <3>0 DEF Everywhere
    <3>2. CASE a =< i
      <4>1. a \in 1 .. m + 2 /\ (a # i => a \in (1 .. m + 2) \ {i, i + 1, i + 2} /\ Before(a, i) = a)
        BY <1>1, <3>2 DEF Before
      <4> QED
        BY <1>2, <3>1, <4>1
    <3>3. CASE a > i
      <4>1. a + 2 \in (1 .. m + 2) \ {i, i + 1, i + 2} /\ Before(a + 2, i) = a
        BY <1>1, <3>3 DEF Before
      <4> QED
        BY <1>2, <3>1, <4>1
    <3> QED
      BY <1>1, <3>2, <3>3
  <2> QED
    BY <2>1, <2>2
<1>9. AsFound'
  <2> SUFFICES ASSUME NEW a \in 1 .. m + 2
               PROVE  IF tgt'[a] =< Len(text)
                      THEN /\ At(a)'.openMarker = text[tgt'[a]].open
                           /\ At(a)'.tokenCharacter = text[tgt'[a]].c
                           /\ At(a)'.size = text[tgt'[a]].size
                      ELSE At(a)'.size \in IF Clash THEN 0 .. 3 ELSE 1 .. 2
    BY <1>1, <1>2 DEF AsFound
  <2>1. CASE a \in {i + 1, i + 2}
    <3>1. /\ 3 - size \in IF Clash THEN 0 .. 3 ELSE 1 .. 2
          /\ size \in IF Clash THEN 0 .. 3 ELSE 1 .. 2
      OBVIOUS
    <3> QED
      BY <1>4, <1>6, <2>1, <3>1
  <2>2. CASE a = i
    BY <1>1, <1>2, <1>4, <2>2 DEF AsFound, o, c
  <2>3. CASE a \in (1 .. m + 2) \ {i, i + 1, i + 2}
    BY <1>1, <1>2, <2>3, SMTT(30) DEF AsFound
  <2> QED
    BY <1>5, <2>1, <2>2, <2>3
<1>10. InOrder'
  <2> SUFFICES ASSUME NEW a \in 1 .. m + 2, NEW b \in 1 .. m + 2,
                      a < b, tgt'[a] =< Len(text), tgt'[b] =< Len(text)
               PROVE  tgt'[a] < tgt'[b]
    BY <1>2 DEF InOrder
  <2>1. a \notin {i + 1, i + 2} /\ b \notin {i + 1, i + 2}
    BY <1>6
  <2>2. /\ Before(a, i) \in 1 .. m /\ tgt'[a] = tgt[Before(a, i)]
        /\ Before(b, i) \in 1 .. m /\ tgt'[b] = tgt[Before(b, i)]
    <3>1. Before(i, i) = i
      BY <1>1 DEF Before
    <3> QED
      BY <1>1, <1>2, <1>5, <2>1, <3>1
  <2>3. Before(a, i) < Before(b, i)
    BY <1>1, <2>1 DEF Before
  <2> QED
    BY <1>1, <2>2, <2>3 DEF InOrder
<1>11. SameText'
  <2> DEFINE s == Shown
             t == Shown'
  <2>1. /\ s \in Seq(Seq(Signs)) /\ Len(s) = m
        /\ t \in Seq(Seq(Signs)) /\ Len(t) = m + 2
    <3>1. \A a \in 1 .. m : Copies(At(a)) \in Seq(Signs)
      <4>1. \A a \in 1 .. m : Written(At(a)) \in Nat
        BY <1>1, SizeFacts
      <4> QED
        BY <1>1, <4>1, CopiesType
    <3>2. \A a \in 1 .. m + 2 : Copies(At(a)') \in Seq(Signs)
      <4>1. \A a \in 1 .. m + 2 : At(a)' \in Some
        <5>1. /\ \A a \in 1 .. m + 2 : tgt'[a] \in 1 .. Len(markers')
              /\ \A k \in 1 .. Len(markers') : markers'[k] \in Some
          <6>1. /\ markers' \in Seq(Some) /\ Len(tgt') = m + 2
                /\ \A a \in 1 .. Len(tgt') : tgt'[a] \in 1 .. Len(markers')
            BY <1>2 DEF ListTypes
          <6>2. \A f \in Seq(Some) : \A k \in 1 .. Len(f) : f[k] \in Some
            OBVIOUS
          <6> QED
            BY <6>1, <6>2
        <5> QED
          BY <5>1 DEF At
      <4>2. \A a \in 1 .. m + 2 : Written(At(a)') \in Nat
        <5>1. \A a \in 1 .. m : Written(At(a)) \in Nat
          BY <1>1, SizeFacts
        <5>2. Written(At(i)') \in Nat /\ Written(At(i + 1)') \in Nat /\ Written(At(i + 2)') \in Nat
          BY <1>1, <1>4 DEF Written
        <5> QED
          BY <1>2, <1>5, <5>1, <5>2
      <4> QED
        BY <4>1, <4>2, CopiesType
    <3>3. Shown \in [1 .. m -> Seq(Signs)] /\ Shown' \in [1 .. m + 2 -> Seq(Signs)]
      BY <1>1, <1>2, <3>1, <3>2 DEF Shown, Copies
    <3>4. m + 2 \in Nat /\ m \in Nat
      BY <1>1
    <3> DEFINE Q == Seq(Signs)
    <3>5. \A n \in Nat : \A f \in [1 .. n -> Q] : f \in Seq(Q) /\ Len(f) = n
      <4> HIDE DEF Q
      <4> QED
        OBVIOUS
    <3> QED
      BY <3>3, <3>4, <3>5, Zenon
  <2>2. /\ \A a \in 1 .. m : s[a] = Copies(At(a))
        /\ \A a \in 1 .. m + 2 : t[a] = Copies(At(a)')
    BY <1>1, <1>2 DEF Shown, Copies
  <2> HIDE DEF s, t
  <2>3. ASSUME NEW a \in 1 .. m + 2, a < i PROVE t[a] = s[a]
    <3>1. a \in (1 .. m + 2) \ {i, i + 1, i + 2} /\ Before(a, i) = a /\ a \in 1 .. m
      BY <1>1, <2>3 DEF Before
    <3> QED
      BY <1>2, <2>2, <3>1
  <2>4. ASSUME NEW a \in 1 .. m + 2, a > i + 2 PROVE t[a] = s[a - 2]
    <3>1. a \in (1 .. m + 2) \ {i, i + 1, i + 2} /\ Before(a, i) = a - 2 /\ a - 2 \in 1 .. m
      BY <1>1, <2>4 DEF Before
    <3> QED
      BY <1>2, <2>2, <3>1
  <2>5. t[i] = << >>
    <3>1. t[i] = Copies(At(i)')
      BY <1>1, <2>2
    <3> QED
      BY <1>4, <3>1 DEF Copies, Written
  <2>6. s[i] = t[i + 1] \o t[i + 2]
    <3>1. /\ s[i] = Copies(At(i)) /\ t[i + 1] = Copies(At(i + 1)') /\ t[i + 2] = Copies(At(i + 2)')
      <4>1. i + 1 \in 1 .. m + 2 /\ i + 2 \in 1 .. m + 2
        BY <1>1
      <4> QED
        BY <1>1, <2>2, <4>1
    <3>2. /\ Copies(At(i)) = [n \in 1 .. 3 |-> <<o, c>>]
          /\ Copies(At(i + 1)') = [n \in 1 .. 3 - size |-> <<o, c>>]
          /\ Copies(At(i + 2)') = [n \in 1 .. size |-> <<o, c>>]
      BY <1>4 DEF Copies, Written, o, c
    <3>3. 3 - size \in Nat /\ size \in Nat /\ (3 - size) + size = 3
      BY <1>1
    <3>4. [n \in 1 .. (3 - size) + size |-> <<o, c>>] =
              [n \in 1 .. 3 - size |-> <<o, c>>] \o [n \in 1 .. size |-> <<o, c>>]
      BY <3>3, CopiesSum
    <3> QED
      BY <3>1, <3>2, <3>3, <3>4
  <2>7. FlattenSeq(t) = FlattenSeq(s)
    <3>1. i \in 1 .. Len(s) /\ Len(t) = Len(s) + 2
      BY <1>1, <2>1
    <3> QED
      BY <2>1, <2>3, <2>4, <2>5, <2>6, <3>1, FlattenSplit, Zenon
  <2>8. FoundAll' = FoundAll
    BY DEF FoundAll
  <2> QED
    BY <2>7, <2>8 DEF SameText, s, t
<1> QED
  BY <1>7, <1>8, <1>9, <1>10, <1>11
\* The steps that leave the shape of the markers alone.
LEMMA SameShape ==
    ASSUME ListTypes, TextTypes, Everywhere, AsFound, InOrder, SameText,
           UNCHANGED <<text, tgt>>, Len(markers') = Len(markers),
           \A a \in 1 .. Len(tgt) : /\ At(a)'.openMarker = At(a).openMarker
                                    /\ At(a)'.tokenCharacter = At(a).tokenCharacter
                                    /\ At(a)'.size = At(a).size
                                    /\ At(a)'.disabled = At(a).disabled
    PROVE  TextTypes' /\ Everywhere' /\ AsFound' /\ InOrder' /\ SameText'
<1>1. Clash' <=> Clash
  BY DEF Clash
<1>2. TextTypes' /\ Everywhere' /\ InOrder'
  BY DEF TextTypes, Everywhere, InOrder
<1>3. AsFound'
  BY <1>1 DEF AsFound
<1>4. \A a \in 1 .. Len(tgt) : Copies(At(a))' = Copies(At(a))
  BY DEF Copies, Written
<1>5. Shown' = Shown /\ FoundAll' = FoundAll
  BY <1>4 DEF Shown, FoundAll
<1> QED
  BY <1>2, <1>3, <1>5 DEF SameText

LEMMA KeepInit == EmphasisInit => KeepInv
<1> SUFFICES ASSUME EmphasisInit PROVE KeepInv
  OBVIOUS
<1>1. PICK n \in Nat : text \in [1 .. n -> [open : BOOLEAN, c : Characters, size : Sizes]]
  BY BoundsAssumption DEF EmphasisInit, Texts, BoundedSeq, SeqOf
<1>2. /\ markers = [k \in 1 .. n |-> Marker(text[k].open, text[k].c, text[k].size)]
      /\ tgt = [k \in 1 .. n |-> k] /\ text \in Texts
  BY <1>1 DEF EmphasisInit
<1>3. /\ Len(markers) = n /\ Len(tgt) = n /\ Len(text) = n
      /\ \A k \in 1 .. n : tgt[k] = k
      /\ \A k \in 1 .. n : text[k].open \in BOOLEAN /\ text[k].c \in Characters /\ text[k].size \in Sizes
  BY <1>1, <1>2
<1>4. \A k \in 1 .. n : At(k) = Marker(text[k].open, text[k].c, text[k].size)
  BY <1>2, <1>3 DEF At
<1>5. \A k \in 1 .. n : /\ At(k).openMarker = text[k].open /\ At(k).tokenCharacter = text[k].c
                        /\ At(k).size = text[k].size /\ ~At(k).disabled /\ At(k).id = -1
  BY <1>4 DEF Marker
<1>6. TextTypes /\ Everywhere /\ AsFound /\ InOrder
  BY <1>2, <1>3, <1>5 DEF TextTypes, Everywhere, AsFound, InOrder
<1>7. Counted
  BY <1>3, <1>5 DEF Counted, EmphasisInit
<1>8. \A k \in 1 .. n : Copies(At(k)) = [j \in 1 .. text[k].size |-> <<text[k].open, text[k].c>>]
  BY <1>5 DEF Copies, Written
<1>9. Shown = FoundAll
  BY <1>3, <1>8 DEF Shown, FoundAll
<1> QED
  BY <1>6, <1>7, <1>9 DEF KeepInv, SameText
LEMMA KeepStep == PairInv /\ KeepInv /\ [EmphasisNext]_emphasisVars => KeepInv'
<1> SUFFICES ASSUME PairInv, KeepInv, [EmphasisNext]_emphasisVars PROVE KeepInv'
  OBVIOUS
<1>0. /\ ListTypes /\ WalkTypes /\ SplitApart
      /\ Len(tgt) \in Nat /\ ii \in 1 .. Len(tgt) + 1 /\ id \in Nat
      /\ \A a \in 1 .. Len(tgt) : At(a) \in Some /\ tgt[a] \in Nat \ {0}
      /\ TextTypes /\ Everywhere /\ AsFound /\ InOrder /\ Counted /\ SameText
  BY ListFacts DEF PairInv, WalkTypes, KeepInv
<1>1. ASSUME UNCHANGED <<text, markers, tgt>>
      PROVE  /\ TextTypes' /\ Everywhere' /\ AsFound' /\ InOrder' /\ SameText'
             /\ \A a : At(a)' = At(a)
  <2>1. \A a : At(a)' = At(a)
    BY <1>1 DEF At
  <2> QED
    BY <1>0, <1>1, <2>1, SameShape
<1>2. CASE NextOpenMarker \/ NoCloseMarker \/ PassOver
  <2>1. UNCHANGED <<text, markers, tgt, id>>
    BY <1>2 DEF NextOpenMarker, NoCloseMarker, PassOver
  <2>2. /\ iii' \in 1 .. Len(tgt) + 1 /\ id =< ii' - 1
    BY <1>0, <1>2 DEF NextOpenMarker, NoCloseMarker, PassOver, Searching, Counted
  <2>3. Counted'
    BY <1>0, <1>1, <2>1, <2>2 DEF Counted
  <2> QED
    BY <1>1, <2>1, <2>3 DEF KeepInv
<1>3. CASE StartUnmatching \/ PushOpen \/ PopMatch \/ SkipUnmatched \/ Finish \/ UNCHANGED emphasisVars
  <2>1. UNCHANGED <<text, markers, tgt, id, iii>>
    BY <1>3 DEF StartUnmatching, PushOpen, PopMatch, SkipUnmatched, Finish, emphasisVars
  <2>2. phase' \notin {"match", "search"} \/ UNCHANGED <<phase, ii>>
    BY <1>3 DEF StartUnmatching, PushOpen, PopMatch, SkipUnmatched, Finish, emphasisVars, Unmatching
  <2>3. Counted'
    BY <1>0, <1>1, <2>1, <2>2 DEF Counted
  <2> QED
    BY <1>1, <2>1, <2>3 DEF KeepInv
<1>4. CASE Match
  <2>0. PICK o \in 1 .. Len(tgt), p \in 1 .. Len(tgt) : p = iii /\ o = ii
    BY <1>0, <1>4 DEF Match, Searching, WalkTypes
  <2>1. /\ o # p /\ ii' = o + 1 /\ iii' = iii /\ phase = "search" /\ UNCHANGED <<tgt, text>>
        /\ id' = id + 1
        /\ markers' = [markers EXCEPT ![tgt[o]].match = tgt[p], ![tgt[o]].id = id,
                                      ![tgt[p]].match = tgt[o], ![tgt[p]].id = id]
    BY <1>0, <1>4, <2>0 DEF Match, Searching, WalkTypes
  <2>2. /\ ListTypes'
        /\ At(o)' = [At(o) EXCEPT !.match = tgt[p], !.id = id]
        /\ At(p)' = [At(p) EXCEPT !.match = tgt[o], !.id = id]
        /\ \A c \in (1 .. Len(tgt)) \ {o, p} : At(c)' = At(c)
    <3>1. tgt[o] \in Nat /\ tgt[p] \in Nat /\ id \in Int /\ ListTypes /\ UNCHANGED tgt
      BY <1>0, <2>1
    <3>2. o # p /\ markers' = [markers EXCEPT ![tgt[o]].match = tgt[p], ![tgt[o]].id = id,
                                              ![tgt[p]].match = tgt[o], ![tgt[p]].id = id]
      BY <2>1
    <3> QED
      BY <3>1, <3>2, TwoFacts, Zenon
  <2>3. \A a \in 1 .. Len(tgt) :
          /\ At(a)'.openMarker = At(a).openMarker /\ At(a)'.tokenCharacter = At(a).tokenCharacter
          /\ At(a)'.size = At(a).size /\ At(a)'.disabled = At(a).disabled
          /\ At(a)'.id \in {At(a).id, id}
    <3> SUFFICES ASSUME NEW a \in 1 .. Len(tgt)
                 PROVE  /\ At(a)'.openMarker = At(a).openMarker
                        /\ At(a)'.tokenCharacter = At(a).tokenCharacter
                        /\ At(a)'.size = At(a).size /\ At(a)'.disabled = At(a).disabled
                        /\ At(a)'.id \in {At(a).id, id}
      OBVIOUS
    <3>1. At(a) \in Some
      BY <1>0
    <3>2. CASE a = o
      BY <2>2, <3>1, <3>2 DEF Some
    <3>3. CASE a = p
      BY <2>2, <3>1, <3>3 DEF Some
    <3>4. CASE a \notin {o, p}
      BY <2>2, <3>4, Zenon
    <3> QED
      BY <3>2, <3>3, <3>4, Zenon
  <2>4. Len(markers') = Len(markers)
    <3>1. Len(tgt) = Len(markers)
      BY <1>0 DEF ListTypes
    <3>2. Len(tgt') = Len(markers')
      BY <2>2 DEF ListTypes
    <3>3. tgt' = tgt
      BY <2>1
    <3> QED
      BY <3>1, <3>2, <3>3, Zenon
  <2>5. TextTypes' /\ Everywhere' /\ AsFound' /\ InOrder' /\ SameText'
    BY <1>0, <2>1, <2>3, <2>4, SameShape
  <2>6. id =< ii - 1 /\ \A a \in 1 .. Len(tgt) : At(a).id \in -1 .. id - 1
    BY <1>0, <2>1 DEF Counted
  <2>7. Counted'
    <3>1. \A a \in 1 .. Len(tgt) : At(a)'.id \in -1 .. id' - 1
      <4>1. id \in -1 .. id' - 1 /\ \A x \in -1 .. id - 1 : x \in -1 .. id' - 1
        BY <1>0, <2>1, SMTT(30)
      <4> QED
        BY <2>3, <2>6, <4>1, Zenon
    <3>2. id' =< Len(tgt) /\ id' =< ii' - 1
      BY <1>0, <2>0, <2>1, <2>6
    <3> QED
      BY <1>0, <2>1, <3>1, <3>2 DEF Counted
  <2> QED
    BY <2>5, <2>7 DEF KeepInv
<1>5. CASE Unmatch
  <2>1. PICK a \in 1 .. Len(tgt), b \in 1 .. Len(tgt) :
           /\ ListTypes'
           /\ At(a)' = [At(a) EXCEPT !.match = 0, !.id = -1]
           /\ At(b)' = [At(b) EXCEPT !.match = 0, !.id = -1]
           /\ \A c \in (1 .. Len(tgt)) \ {a, b} : At(c)' = At(c)
    BY <1>5, UnmatchFacts
  <2>2. UNCHANGED <<text, tgt, id, iii, phase>> /\ phase = "unmatch"
    BY <1>5 DEF Unmatch, Unmatching
  <2>3. \A c \in 1 .. Len(tgt) :
          /\ At(c)'.openMarker = At(c).openMarker /\ At(c)'.tokenCharacter = At(c).tokenCharacter
          /\ At(c)'.size = At(c).size /\ At(c)'.disabled = At(c).disabled
          /\ At(c)'.id \in {At(c).id, -1}
    <3> SUFFICES ASSUME NEW c \in 1 .. Len(tgt)
                 PROVE  /\ At(c)'.openMarker = At(c).openMarker
                        /\ At(c)'.tokenCharacter = At(c).tokenCharacter
                        /\ At(c)'.size = At(c).size /\ At(c)'.disabled = At(c).disabled
                        /\ At(c)'.id \in {At(c).id, -1}
      OBVIOUS
    <3>1. At(c) \in Some
      BY <1>0
    <3>2. CASE c = a
      BY <2>1, <3>1, <3>2 DEF Some
    <3>3. CASE c = b
      BY <2>1, <3>1, <3>3 DEF Some
    <3>4. CASE c \notin {a, b}
      BY <2>1, <3>4, Zenon
    <3> QED
      BY <3>2, <3>3, <3>4, Zenon
  <2>4. Len(markers') = Len(markers)
    BY <1>0, <2>1, <2>2 DEF ListTypes
  <2>5. TextTypes' /\ Everywhere' /\ AsFound' /\ InOrder' /\ SameText'
    BY <1>0, <2>2, <2>3, <2>4, SameShape
  <2>6. \A c \in 1 .. Len(tgt) : At(c)'.id \in -1 .. id - 1
    <3>1. -1 \in -1 .. id - 1 /\ \A c \in 1 .. Len(tgt) : At(c).id \in -1 .. id - 1
      BY <1>0 DEF Counted
    <3> QED
      BY <2>3, <3>1, Zenon
  <2>7. Counted'
    BY <1>0, <2>2, <2>6 DEF Counted
  <2> QED
    BY <2>5, <2>7 DEF KeepInv
<1>6. CASE SplitClose \/ SplitOpen
  <2>0. PICK o \in 1 .. Len(tgt), p \in 1 .. Len(tgt) :
           p = iii /\ o = ii /\ o < p /\ IsUnmatchedOpenMarker(At(o)) /\ IsUnmatchedCloseMarker(At(p))
    BY <1>0, <1>6 DEF SplitClose, SplitOpen, Searching, WalkTypes, Closer
  <2>1. ~At(o).disabled /\ ~At(p).disabled
    BY <1>0, <2>0 DEF SplitApart, IsUnmatchedOpenMarker, IsUnmatchedCloseMarker
  <2>2. /\ At(o).size \in 0 .. 3 /\ At(p).size \in 0 .. 3
        /\ ~Clash => At(o).size \in 1 .. 3 /\ At(p).size \in 1 .. 3
    BY <1>0, SizeFacts
  <2>3. UNCHANGED text /\ phase = "search" /\ id' = id
    BY <1>6 DEF SplitClose, SplitOpen, Searching
  <2>4. \E i \in {o, p} : \E size \in IF Clash THEN 0 .. 3 ELSE 1 .. 2 :
           /\ Split(i, size) /\ At(i).size = 3 /\ ~At(i).disabled
           /\ ii' \in {o, o + 1} /\ iii' \in {p, p + 1}
    <3>1. CASE SplitClose
      <4>1. Split(p, At(o).size) /\ At(p).size = 3 /\ At(o).size # 3 /\ ii' = o /\ iii' = p + 1
        BY <2>0, <3>1 DEF SplitClose, SplitsClose, Opener, Closer
      <4>2. At(o).size \in IF Clash THEN 0 .. 3 ELSE 1 .. 2
        BY <2>2, <4>1
      <4> QED
        BY <2>1, <4>1, <4>2
    <3>2. CASE SplitOpen
      <4>1. /\ Split(o, At(p).size) /\ At(o).size = 3 /\ ii' = o + 1 /\ iii' = p
            /\ ~(At(p).tokenCharacter = At(o).tokenCharacter /\ At(p).size = At(o).size)
        BY <2>0, <3>2 DEF SplitOpen, Matches, Opener, Closer
      <4>2. At(p).size \in IF Clash THEN 0 .. 3 ELSE 1 .. 2
        <5> SUFFICES ASSUME ~Clash, At(p).size = 3 PROVE FALSE
          BY <2>2
        <5>1. tgt[o] =< Len(text) /\ tgt[p] =< Len(text)
          BY <1>0, <4>1 DEF AsFound
        <5>2. /\ tgt[o] \in 1 .. Len(text) /\ tgt[p] \in 1 .. Len(text) /\ tgt[o] < tgt[p]
          BY <1>0, <2>0, <5>1 DEF InOrder, TextTypes
        <5>3. /\ text[tgt[o]].open /\ ~text[tgt[p]].open
              /\ text[tgt[o]].size = 3 /\ text[tgt[p]].size = 3 /\ text[tgt[o]].c # text[tgt[p]].c
          BY <1>0, <2>0, <4>1, <5>1
             DEF AsFound, IsUnmatchedOpenMarker, IsUnmatchedCloseMarker
        <5>4. DOMAIN text = 1 .. Len(text)
          BY <1>0 DEF TextTypes, Texts, BoundedSeq, SeqOf
        <5> QED
          BY <5>2, <5>3, <5>4 DEF Clash
      <4> QED
        BY <2>1, <4>1, <4>2
    <3> QED
      BY <1>6, <3>1, <3>2
  <2>5. PICK i \in 1 .. Len(tgt) : \E size \in IF Clash THEN 0 .. 3 ELSE 1 .. 2 :
           /\ Split(i, size) /\ At(i).size = 3 /\ ~At(i).disabled
           /\ ii' \in {o, o + 1} /\ iii' \in {p, p + 1}
    BY <2>4
  <2>6. PICK size \in IF Clash THEN 0 .. 3 ELSE 1 .. 2 :
           /\ Split(i, size) /\ At(i).size = 3 /\ ~At(i).disabled
           /\ ii' \in {o, o + 1} /\ iii' \in {p, p + 1}
    BY <2>5
  <2>7. TextTypes' /\ Everywhere' /\ AsFound' /\ InOrder' /\ SameText'
    BY <1>0, <2>3, <2>6, SplitKeeps
  <2>8. size \in Int
    OBVIOUS
  <2>9. /\ Len(tgt') = Len(tgt) + 2
        /\ \A a \in (1 .. Len(tgt')) \ {i, i + 1, i + 2} :
             /\ Before(a, i) \in (1 .. Len(tgt)) \ {i}
             /\ tgt'[a] = tgt[Before(a, i)] /\ At(a)' = At(Before(a, i))
        /\ At(i)' = [At(i) EXCEPT !.cannotMatch = TRUE, !.disabled = TRUE]
        /\ \E s \in Int : At(i + 1)' = Marker(At(i).openMarker, At(i).tokenCharacter, s)
        /\ At(i + 2)' = Marker(At(i).openMarker, At(i).tokenCharacter, size)
    BY <1>0, <2>6, <2>8, SplitFacts
  <2>10. At(i)'.id = At(i).id /\ At(i + 1)'.id = -1 /\ At(i + 2)'.id = -1
    <3>1. At(i) \in Some
      BY <1>0
    <3>2. \A r \in Some : [r EXCEPT !.cannotMatch = TRUE, !.disabled = TRUE].id = r.id
      BY DEF Some
    <3>3. \A x, y, n : Marker(x, y, n).id = -1
      BY DEF Marker
    <3>4. At(i)'.id = At(i).id
      BY <2>9, <3>1, <3>2, Zenon
    <3>5. At(i + 1)'.id = -1
      <4>1. PICK s : At(i + 1)' = Marker(At(i).openMarker, At(i).tokenCharacter, s)
        BY <2>9, Zenon
      <4> QED
        BY <3>3, <4>1, Zenon
    <3>6. At(i + 2)'.id = -1
      <4>1. At(i + 2)' = Marker(At(i).openMarker, At(i).tokenCharacter, size)
        BY <2>9, Zenon
      <4> QED
        BY <3>3, <4>1
    <3> QED
      BY <3>4, <3>5, <3>6
  <2>11. ASSUME NEW a \in 1 .. Len(tgt') PROVE At(a)'.id \in -1 .. id - 1
    <3>1. CASE a \in {i, i + 1, i + 2}
      <4>1. At(i).id \in -1 .. id - 1 /\ -1 \in -1 .. id - 1
        BY <1>0 DEF Counted
      <4> QED
        BY <2>10, <3>1, <4>1
    <3>2. CASE a \notin {i, i + 1, i + 2}
      BY <1>0, <2>9, <3>2 DEF Counted
    <3> QED
      BY <3>1, <3>2
  <2>12. Counted'
    <3>1. iii' \in 1 .. Len(tgt') + 1 /\ id =< Len(tgt') /\ id =< ii' - 1
      <4>1. Len(tgt') = Len(tgt) + 2 /\ ii' \in {o, o + 1} /\ iii' \in {p, p + 1}
        BY <2>6, <2>9
      <4>2. o = ii /\ p \in 1 .. Len(tgt) /\ id =< Len(tgt) /\ id =< ii - 1
        BY <1>0, <2>0, <2>3 DEF Counted
      <4>3. Len(tgt) \in Nat /\ id \in Nat /\ ii \in Nat
        BY <1>0
      <4>4. id =< Len(tgt')
        BY <4>1, <4>2, <4>3
      <4>5. ii' \in Nat /\ ii =< ii'
        BY <4>1, <4>2, <4>3
      <4>6. id =< ii' - 1
        <5>1. \A x, y, z \in Nat : x =< y - 1 /\ y =< z => x =< z - 1
          OBVIOUS
        <5> QED
          BY <4>2, <4>3, <4>5, <5>1, Zenon
      <4>7. iii' \in 1 .. Len(tgt') + 1
        BY <4>1, <4>2, <4>3
      <4> QED
        BY <4>4, <4>6, <4>7
    <3> QED
      BY <2>3, <2>11, <3>1 DEF Counted
  <2> QED
    BY <2>7, <2>12 DEF KeepInv
<1> QED
  BY <1>2, <1>3, <1>4, <1>5, <1>6 DEF EmphasisNext

LEMMA Keeps == EmphasisSpec => [](EmphasisInv /\ KeepInv)
<1>1. EmphasisInit => KeepInv
  BY KeepInit
<1>2. EmphasisInv /\ KeepInv /\ [EmphasisNext]_emphasisVars => KeepInv'
  BY KeepStep DEF EmphasisInv
<1> QED
  BY <1>1, <1>2, EmphasisInvariant, PTL DEF EmphasisSpec

\* _processBoldAndItalicSpans (markdown-tokens.cpp) neither loses nor adds an
\* asterisk or underscore of a text of any length, however many splits it
\* takes, and where no two triples clash it makes no marker of a size but 1, 2
\* and 3.
THEOREM TextKept == EmphasisSpec => []KeepsTheText
<1>1. ASSUME EmphasisInv, KeepInv PROVE KeepsTheText
  <2>1. /\ ListTypes /\ WalkTypes /\ Paired /\ Len(tgt) \in Nat /\ Len(markers) = Len(tgt)
        /\ TextTypes /\ Everywhere /\ AsFound /\ Counted /\ SameText
        /\ DOMAIN tgt = 1 .. Len(tgt) /\ DOMAIN markers = 1 .. Len(markers)
        /\ \A a \in 1 .. Len(tgt) : At(a) \in Some /\ tgt[a] \in 1 .. Len(markers)
    BY <1>1, ListFacts DEF EmphasisInv, PairInv, KeepInv, ListTypes
  <2>2. ASSUME NEW k \in DOMAIN markers
        PROVE  /\ markers[k].size \in IF Clash THEN 0 .. 3 ELSE Sizes
               /\ markers[k].tokenCharacter \in Characters
               /\ markers[k].match \in 0 .. Len(markers)
               /\ markers[k].id \in -1 .. Len(markers)
    <3>1. PICK a \in 1 .. Len(tgt) : tgt[a] = k
      BY <2>1 DEF Everywhere
    <3>2. markers[k] = At(a)
      BY <3>1 DEF At
    <3>3. At(a).size \in IF Clash THEN 0 .. 3 ELSE Sizes
      BY <2>1, SizeFacts DEF Sizes
    <3>4. At(a).tokenCharacter \in Characters /\ At(a).id \in -1 .. id - 1 /\ id =< Len(tgt)
      BY <2>1 DEF Some, Counted
    <3>5. At(a).match \in 0 .. Len(markers)
      <4>1. CASE At(a).match = 0
        BY <2>1, <4>1
      <4>2. CASE At(a).match # 0
        <5>1. PICK b \in 1 .. Len(tgt) : PairAt(a, b)
          BY <2>1, <4>2 DEF Paired
        <5> QED
          BY <2>1, <5>1 DEF PairAt
      <4> QED
        BY <4>1, <4>2
    <3>6. id \in Nat
      BY <2>1 DEF WalkTypes
    <3> QED
      BY <2>1, <3>2, <3>3, <3>4, <3>5, <3>6
  <2>3. ToSet(tgt) = DOMAIN markers
    BY <2>1 DEF ToSet, Everywhere
  <2>4. EmphasisTypeOK
    BY <2>1, <2>2, <2>3 DEF EmphasisTypeOK, TextTypes, WalkTypes, Counted
  <2>5. DOMAIN text = 1 .. Len(text)
    BY <2>1 DEF TextTypes, Texts, BoundedSeq, SeqOf
  <2> QED
    BY <2>1, <2>4, <2>5 DEF KeepsTheText, SameText, Shown, FoundAll, Copies
<1> QED
  BY <1>1, Keeps, PTL
-----------------------------------------------------------------------------

(***************************************************************************)
(* The blocks of MarkdownBlocks, for documents of any length.  A text that *)
(* a token has is cut from a line, and spaces are only taken from it: what *)
(* stands in it stands in a line.  What a token has no text for is a list, *)
(* an item or HTML, so there is a line for that, too.                      *)
(***************************************************************************)
\* The provers do not know that a string is in STRING.
Words == STRING \cup {"x", "<p>"}
Piece == [sp : Nat, m : Words]

Bulleted(u) == \E k \in DOMAIN u : u[k].m \in Bullets \cup {"1."}
Quoted(u) == \E k \in DOMAIN u : u[k].m = ">"
Deep(u) == \E k \in DOMAIN u : u[k].sp >= 8

TextOK(u, doc) ==
    /\ u \in Seq(Piece)
    /\ Bulleted(u) => \E n \in DOMAIN doc : Bulleted(doc[n])
    /\ Quoted(u) => \E n \in DOMAIN doc : Quoted(doc[n])
    /\ Deep(u) => \E n \in DOMAIN doc : Deep(doc[n])
    /\ NoItem(u) => \E n \in DOMAIN doc : NoItem(doc[n])

\* A text of only spaces is in a quote or an item.
Hollow(doc) == \E n \in DOMAIN doc : Quoted(doc[n]) \/ NoItem(doc[n])

\* A token, what is in it apart.
TokenOK(t, doc) ==
    /\ t.kind \in {"raw", "blank", "html", "list", "item", "code", "header", "hr"}
    /\ TextOK(t.text, doc)
    /\ HasText(t) /\ ~IsBlankLine(t) /\ IsBlankText(t.text) => Hollow(doc)
    /\ t.kind \in {"list", "item"} => \E n \in DOMAIN doc : Bulleted(doc[n])
    /\ t.kind = "html" => \E n \in DOMAIN doc : IsHtml(doc[n])

\* Tokens that have such tokens in them, to any depth.
Closed(T, doc) == \A t \in T : TokenOK(t, doc) /\ t.sub \in Seq(T)
TokensOK(s, doc) == \E T : Closed(T, doc) /\ s \in Seq(T)

IsItemsFrame(f) ==
    f = [fn |-> "items", of |-> f.of, tgt |-> f.tgt, i |-> f.i, processed |-> f.processed]
IsListFrame(f) ==
    f = [fn |-> "list", tgt |-> f.tgt, i |-> f.i, indent |-> f.indent, mark |-> f.mark,
         subTokens |-> f.subTokens, subItemTokens |-> f.subItemTokens, itemCount |-> f.itemCount]

\* In the list, or at its end.
Within(j, toks) == j \in 1 .. Len(toks) + 1

FrameOK(f, doc) ==
    /\ TokensOK(f.tgt, doc) /\ Within(f.i, f.tgt)
    /\ \/ IsItemsFrame(f)
       \/ /\ IsListFrame(f)
          /\ TokensOK(f.subTokens, doc) /\ TokensOK(f.subItemTokens, doc) /\ f.indent \in Nat
          /\ \E n \in DOMAIN doc : Bulleted(doc[n])

\* A list walks the tokens of the frame that it was called from, which is not
\* at its end unless it is a list too; items are called from items.
Over(f, g) ==
    IF g.fn = "list" THEN f.tgt = g.tgt /\ (f.fn = "items" => f.i =< Len(f.tgt))
                     ELSE f.fn = "items"

StackOK(st, doc) ==
    /\ \E S : st \in Seq(S)
    /\ Len(st) > 0 /\ st[1].fn = "items"
    /\ \A k \in 1 .. Len(st) : FrameOK(st[k], doc)
    /\ \A k, l \in 1 .. Len(st) : l = k + 1 => Over(st[k], st[l])

\* The tokens before the blocks are made: their lines are known.
Early(s, doc) ==
    /\ TokensOK(s, doc)
    /\ \A k \in 1 .. Len(s) : /\ s[k].ns \in Seq(DOMAIN doc)
                              /\ IsHtml(s[k].text) => \E n \in DOMAIN doc : IsHtml(doc[n])

BlocksInv ==
    /\ document \in Documents
    /\ pass \in {"merge", "html", "blocks"}
    /\ outcome \in {"running", "done", "assert", "undefined"}
    /\ references \subseteq DOMAIN document
    /\ StackOK(stack, document)
    /\ pass # "blocks" => /\ Len(stack) = 1
                          /\ Early(stack[1].tgt, document) /\ Early(stack[1].processed, document)
    /\ RendersOrdinary
-----------------------------------------------------------------------------
\* What is in a part of a text is in the text.
LEMMA PartOK ==
    ASSUME NEW doc, NEW u, TextOK(u, doc), NEW n \in Nat, NEW v \in Seq(Piece),
           Len(v) + n = Len(u),
           \A k \in 1 .. Len(v), l \in 1 .. Len(u) : l = k + n =>
              v[k].m = u[l].m /\ v[k].sp =< u[l].sp /\ (k > 1 => v[k].sp = u[l].sp)
    PROVE  TextOK(v, doc)
<1>1. u \in Seq(Piece)
  BY DEF TextOK
<1>2. \A k \in DOMAIN v : \E l \in DOMAIN u :
         /\ l = k + n /\ l \in Nat /\ k \in Nat
         /\ v[k].m = u[l].m /\ v[k].sp =< u[l].sp /\ v[k].sp \in Nat /\ u[l].sp \in Nat
         /\ k > 1 => v[k].sp = u[l].sp
  <2> TAKE k \in DOMAIN v
  <2>1. k \in 1 .. Len(v) /\ k + n \in 1 .. Len(u) /\ k + n \in DOMAIN u
    BY <1>1
  <2>2. v[k] \in Piece /\ u[k + n] \in Piece
    BY <1>1, <2>1
  <2> WITNESS k + n \in DOMAIN u
  <2> QED
    BY <2>1, <2>2 DEF Piece
<1>3. Bulleted(v) => Bulleted(u)
  BY <1>2 DEF Bulleted
<1>4. Quoted(v) => Quoted(u)
  BY <1>2 DEF Quoted
<1>5. Deep(v) => Deep(u)
  <2>0. SUFFICES ASSUME Deep(v) PROVE Deep(u)
    OBVIOUS
  <2>1. PICK k \in DOMAIN v : v[k].sp >= 8
    BY <2>0 DEF Deep
  <2>2. PICK l \in DOMAIN u : v[k].sp =< u[l].sp /\ v[k].sp \in Nat /\ u[l].sp \in Nat
    BY <1>2
  <2>3. u[l].sp >= 8
    BY <2>1, <2>2
  <2> QED
    BY <2>3 DEF Deep
<1>6. NoItem(v) => NoItem(u)
  <2>0. SUFFICES ASSUME NoItem(v) PROVE NoItem(u)
    OBVIOUS
  <2>1. PICK k \in 1 .. Len(v) - 1 :
           /\ v[k].m \in Bullets \cup {"1."}
           /\ v[k + 1].m = "" \/ (v[k + 1].m \in Starred /\ v[k + 1].sp = 1)
    BY <2>0 DEF NoItem
  <2>2. k \in DOMAIN v /\ k + 1 \in DOMAIN v /\ k \in Nat /\ k + 1 > 1
    OBVIOUS
  <2>3. PICK a \in DOMAIN u : a = k + n /\ v[k].m = u[a].m
    BY <1>2, <2>2
  <2>4. PICK b \in DOMAIN u : b = k + 1 + n /\ v[k + 1].m = u[b].m /\ v[k + 1].sp = u[b].sp
    BY <1>2, <2>2
  <2>5. a \in 1 .. Len(u) - 1 /\ b = a + 1
    BY <1>1, <2>2, <2>3, <2>4
  <2> QED
    BY <2>1, <2>3, <2>4, <2>5 DEF NoItem
<1> QED
  BY <1>3, <1>4, <1>5, <1>6 DEF TextOK

LEMMA StripOK ==
    ASSUME NEW doc, NEW u, TextOK(u, doc), NEW sp \in Nat, u # << >> => sp =< u[1].sp
    PROVE  TextOK(Strip(u, sp), doc)
<1>1. u \in Seq(Piece)
  BY DEF TextOK
<1>2. CASE u = << >>
  BY <1>2 DEF Strip
<1>3. CASE u # << >>
  <2> DEFINE v == [u EXCEPT ![1].sp = sp]
  <2>1. /\ v \in Seq(Piece) /\ Len(v) = Len(u) /\ Len(u) \in Nat
        /\ \A k \in 1 .. Len(u) : u[k] \in Piece /\ (k > 1 => v[k] = u[k])
        /\ v[1].m = u[1].m /\ v[1].sp = sp
    <3>1. \A p \in Piece : LET e == [p EXCEPT !.sp = sp] IN e \in Piece /\ e.m = p.m /\ e.sp = sp
      BY DEF Piece
    <3>2. 1 \in 1 .. Len(u) /\ u[1] \in Piece /\ Len(u) \in Nat /\ DOMAIN u = 1 .. Len(u)
      BY <1>1, <1>3
    <3> DEFINE e == [u[1] EXCEPT !.sp = sp]
    <3>3. e \in Piece /\ e.m = u[1].m /\ e.sp = sp
      BY <3>1, <3>2
    <3>4. v = [u EXCEPT ![1] = e]
      OBVIOUS
    <3> HIDE DEF e, v
    <3>5. \A k \in 1 .. Len(u) : u[k] \in Piece
      BY <1>1
    <3> QED
      BY <1>1, <3>2, <3>3, <3>4, <3>5
  <2> HIDE DEF v
  <2>2. \A k \in 1 .. Len(v), l \in 1 .. Len(u) : l = k + 0 =>
           v[k].m = u[l].m /\ v[k].sp =< u[l].sp /\ (k > 1 => v[k].sp = u[l].sp)
    <3> TAKE k \in 1 .. Len(v), l \in 1 .. Len(u)
    <3>1. u[l].sp \in Nat
      BY <2>1 DEF Piece
    <3>2. CASE k = 1
      BY <1>3, <2>1, <3>2
    <3>3. CASE k > 1
      BY <2>1, <3>1, <3>3
    <3> QED
      BY <2>1, <3>2, <3>3
  <2>3. Len(v) + 0 = Len(u) /\ 0 \in Nat
    BY <2>1
  <2>4. TextOK(v, doc)
    BY <2>1, <2>2, <2>3, PartOK
  <2> QED
    BY <1>3, <2>4 DEF Strip, v
<1> QED
  BY <1>2, <1>3

LEMMA SuffixOK ==
    ASSUME NEW doc, NEW u, TextOK(u, doc), NEW n \in 0 .. Len(u)
    PROVE  /\ TextOK(SubSeq(u, n + 1, Len(u)), doc)
           /\ Len(SubSeq(u, n + 1, Len(u))) = Len(u) - n
           /\ \A k \in 1 .. Len(u) - n : SubSeq(u, n + 1, Len(u))[k] = u[k + n]
<1>1. u \in Seq(Piece)
  BY DEF TextOK
<1> DEFINE v == SubSeq(u, n + 1, Len(u))
<1>2. /\ v \in Seq(Piece) /\ Len(v) = Len(u) - n /\ Len(u) \in Nat /\ n \in Nat
      /\ \A k \in 1 .. Len(u) - n : v[k] = u[k + n]
      /\ \A k \in 1 .. Len(u) : u[k].sp \in Nat
  <2>1. Len(u) \in Nat /\ n \in Nat /\ v \in Seq(Piece) /\ Len(v) = Len(u) - n
    BY <1>1
  <2>2. \A k \in 1 .. Len(u) - n : v[k] = u[k + n]
    BY <1>1
  <2>3. \A k \in 1 .. Len(u) : u[k].sp \in Nat
    <3>1. \A k \in 1 .. Len(u) : u[k] \in Piece
      BY <1>1
    <3>2. \A p \in Piece : p.sp \in Nat
      BY DEF Piece
    <3> QED
      BY <3>1, <3>2
  <2> QED
    BY <2>1, <2>2, <2>3
<1> HIDE DEF v
<1>3. TextOK(v, doc)
  <2>1. \A k \in 1 .. Len(v), l \in 1 .. Len(u) : l = k + n =>
           v[k].m = u[l].m /\ v[k].sp =< u[l].sp /\ (k > 1 => v[k].sp = u[l].sp)
    BY <1>2
  <2>2. Len(v) + n = Len(u)
    BY <1>2
  <2> QED
    BY <1>2, <2>1, <2>2, PartOK
<1> QED
  BY <1>2, <1>3 DEF v

\* What follows the bullet of an item.
LEMMA ContentOK ==
    ASSUME NEW doc, NEW u, TextOK(u, doc), IsItem(u)
    PROVE  TextOK(Content(u), doc) /\ (IsBlankText(Content(u)) => Hollow(doc))
<1>1. u \in Seq(Piece) /\ Len(u) \in Nat /\ Len(u) > 1
  BY DEF TextOK, IsItem, IsUnordered, IsOrdered
<1>2. PICK n \in 0 .. Len(u) : n = 1
  BY <1>1
<1> DEFINE v == SubSeq(u, n + 1, Len(u))
           sp == IF IsUnordered(u) /\ u[2].m \in Starred THEN 1 ELSE 0
<1>3. TextOK(v, doc) /\ Len(v) = Len(u) - n /\ \A k \in 1 .. Len(u) - n : v[k] = u[k + n]
  BY SuffixOK
<1>4. Content(u) = Strip(v, sp)
  <2>1. Tail(u) = v
    BY <1>1, <1>2
  <2> QED
    BY <2>1 DEF Content
<1> HIDE DEF v
<1>5. v[1] = u[2] /\ u[2] \in Piece
  BY <1>1, <1>2, <1>3
<1>6. v[1].sp \in Nat
  BY <1>5 DEF Piece
<1>7. sp \in Nat /\ sp =< v[1].sp
  <2>1. CASE IsUnordered(u) /\ u[2].m \in Starred
    <3>1. sp = 1
      BY <2>1
    <3>2. u[2].sp > 1
      BY <2>1 DEF IsUnordered
    <3> HIDE DEF sp
    <3> QED
      BY <1>5, <1>6, <3>1, <3>2
  <2>2. CASE ~(IsUnordered(u) /\ u[2].m \in Starred)
    <3>1. sp = 0
      BY <2>2
    <3> HIDE DEF sp
    <3> QED
      BY <1>6, <3>1
  <2> QED
    BY <2>1, <2>2
<1> HIDE DEF sp
<1>8. TextOK(Content(u), doc)
  BY <1>3, <1>4, <1>7, StripOK
<1>9. ASSUME IsBlankText(Content(u)) PROVE Hollow(doc)
  <2>1. v \in Seq(Piece) /\ Len(v) \in Nat /\ v # << >> /\ 1 \in DOMAIN v
    BY <1>1, <1>2, <1>3 DEF TextOK
  <2>2. Content(u) = [v EXCEPT ![1].sp = sp]
    BY <1>4, <2>1 DEF Strip
  <2>3. Content(u)[1].m = v[1].m /\ 1 \in DOMAIN Content(u)
    <3>1. \A p \in Piece : [p EXCEPT !.sp = sp].m = p.m
      BY DEF Piece
    <3> DEFINE e == [v[1] EXCEPT !.sp = sp]
    <3>2. e.m = v[1].m
      BY <1>5, <3>1
    <3>3. Content(u) = [v EXCEPT ![1] = e]
      BY <2>2
    <3> HIDE DEF e
    <3> QED
      BY <2>1, <3>2, <3>3
  <2>4. u[2].m = ""
    BY <1>5, <1>9, <2>3 DEF IsBlankText
  <2>5. u[1].m \in Bullets \cup {"1."}
    BY DEF IsItem, IsUnordered, IsOrdered
  <2>6. NoItem(u)
    <3>1. PICK k \in 1 .. Len(u) - 1 : k = 1 /\ k + 1 = 2
      <4>1. \E k \in 1 .. Len(u) - 1 : k = 1
        BY <1>1
      <4> QED
        BY <4>1
    <3> QED
      BY <2>4, <2>5, <3>1 DEF NoItem
  <2> QED
    BY <2>6 DEF TextOK, Hollow
<1> QED
  BY <1>8, <1>9

\* What follows the prefix of a quote.
LEMMA UnquotedOK ==
    ASSUME NEW doc, NEW u, TextOK(u, doc), NEW level \in 0 .. Len(u)
    PROVE  TextOK(Unquoted(u, level), doc)
<1> DEFINE v == SubSeq(u, level + 1, Len(u))
<1>1. TextOK(v, doc) /\ v \in Seq(Piece)
  BY SuffixOK DEF TextOK
<1>2. Unquoted(u, level) = IF v = << >> THEN v ELSE Strip(v, Max({0, v[1].sp - 1}))
  BY DEF Unquoted
<1> HIDE DEF v
<1>3. CASE v = << >>
  BY <1>1, <1>2, <1>3
<1>4. CASE v # << >>
  <2>1. v[1] \in Piece
    BY <1>1, <1>4
  <2>2. v[1].sp \in Nat
    BY <2>1 DEF Piece
  <2> DEFINE T == {0, v[1].sp - 1}
  <2>3. Max(T) \in Nat /\ Max(T) =< v[1].sp
    <3>1. CASE v[1].sp = 0
      <4>1. \A x \in T : x =< 0 /\ (x >= 0 => x = 0)
        BY <2>2, <3>1
      <4>2. Max(T) \in T /\ \A y \in T : Max(T) >= y
        <5>1. 0 \in T /\ \A y \in T : 0 >= y
          BY <2>2, <3>1
        <5> QED
          BY <5>1 DEF Max
      <4>3. 0 \in T
        OBVIOUS
      <4> QED
        BY <3>1, <4>1, <4>2, <4>3
    <3>2. CASE v[1].sp # 0
      <4>1. v[1].sp - 1 \in Nat /\ T \in SUBSET Nat /\ T # {} /\ \A k \in T : k =< v[1].sp
        BY <2>2, <3>2
      <4>2. Max(T) \in T
        BY <2>2, <4>1, LargestNat
      <4> QED
        BY <4>1, <4>2
    <3> QED
      BY <3>1, <3>2
  <2> QED
    BY <1>1, <1>2, <1>4, <2>3, StripOK
<1> QED
  BY <1>3, <1>4

LEMMA OwnTexts ==
    ASSUME NEW doc, NEW t \in {"x", "<p>"}
    PROVE  /\ TextOK(<<[sp |-> 0, m |-> t]>>, doc)
           /\ ~IsBlankText(<<[sp |-> 0, m |-> t]>>)
<1> DEFINE e == [sp |-> 0, m |-> t]
           u == <<e>>
<1>1. e \in Piece /\ e.sp = 0 /\ e.m = t
  <2>1. t \in Words
    BY DEF Words
  <2>2. \A r \in Words : [sp |-> 0, m |-> r] \in Piece
    BY DEF Piece
  <2> QED
    BY <2>1, <2>2
<1>2. u \in Seq(Piece) /\ Len(u) = 1 /\ DOMAIN u = {1} /\ u[1] = e
  <2> HIDE DEF e
  <2> QED
    BY <1>1
<1>3. t # "" /\ t # "*" /\ t # "+" /\ t # "-" /\ t # "1." /\ t # ">"
  OBVIOUS
<1> HIDE DEF e, u
<1>4. ~IsBlankText(u) /\ ~Bulleted(u) /\ ~Quoted(u) /\ ~Deep(u)
  <2>1. 1 \in DOMAIN u /\ \A k \in DOMAIN u : u[k] = e
    BY <1>2
  <2>2. e.sp = 0 /\ e.m # "" /\ e.m # "1." /\ e.m # ">" /\ e.m \notin Bullets
    BY <1>1, <1>3 DEF Bullets
  <2>3. ~IsBlankText(u)
    BY <2>1, <2>2 DEF IsBlankText
  <2>4. ~Bulleted(u)
    BY <2>1, <2>2 DEF Bulleted
  <2>5. ~Quoted(u)
    BY <2>1, <2>2 DEF Quoted
  <2>6. ~Deep(u)
    <3>1. ~(0 >= 8)
      OBVIOUS
    <3>2. \A k \in DOMAIN u : u[k].sp = 0
      BY <2>1, <2>2, Zenon
    <3>3. \A k \in DOMAIN u : ~(u[k].sp >= 8)
      BY <3>1, <3>2, Zenon
    <3> QED
      BY <3>3, Zenon DEF Deep
  <2> QED
    BY <2>3, <2>4, <2>5, <2>6
<1>5. ~NoItem(u)
  <2>1. \A k \in 1 .. Len(u) - 1 : FALSE
    BY <1>2
  <2> QED
    BY <2>1 DEF NoItem
<1>6. TextOK(u, doc)
  BY <1>2, <1>4, <1>5 DEF TextOK
<1> QED
  BY <1>4, <1>6 DEF u, e

LEMMA NoText == ASSUME NEW doc PROVE TextOK(<< >>, doc)
BY DEF TextOK, Bulleted, Quoted, Deep, NoItem

LEMMA LineOK ==
    ASSUME NEW doc \in Seq(Seq(Piece)), NEW n \in DOMAIN doc
    PROVE  TextOK(doc[n], doc)
BY DEF TextOK
-----------------------------------------------------------------------------
LEMMA TokensType ==
    ASSUME NEW doc, NEW s, TokensOK(s, doc)
    PROVE  \E S : s \in Seq(S) /\ Len(s) \in Nat /\ DOMAIN s = 1 .. Len(s)
BY DEF TokensOK

LEMMA TokenAt ==
    ASSUME NEW doc, NEW s, TokensOK(s, doc), NEW k \in 1 .. Len(s)
    PROVE  TokenOK(s[k], doc) /\ TokensOK(s[k].sub, doc) /\ TokensOK(<<s[k]>>, doc)
<1>1. PICK T : Closed(T, doc) /\ s \in Seq(T)
  BY DEF TokensOK
<1>2. s[k] \in T
  BY <1>1
<1>3. TokenOK(s[k], doc) /\ s[k].sub \in Seq(T) /\ <<s[k]>> \in Seq(T)
  BY <1>1, <1>2 DEF Closed
<1> QED
  BY <1>1, <1>3 DEF TokensOK

LEMMA NoTokens == ASSUME NEW doc PROVE TokensOK(<< >>, doc)
<1>1. Closed({}, doc) /\ << >> \in Seq({})
  BY DEF Closed
<1> QED
  BY <1>1 DEF TokensOK

LEMMA TokensConcat ==
    ASSUME NEW doc, NEW s, NEW u, TokensOK(s, doc), TokensOK(u, doc)
    PROVE  TokensOK(s \o u, doc)
<1>1. PICK T : Closed(T, doc) /\ s \in Seq(T)
  BY DEF TokensOK
<1>2. PICK U : Closed(U, doc) /\ u \in Seq(U)
  BY DEF TokensOK
<1> DEFINE V == T \cup U
<1>3. Seq(T) \subseteq Seq(V) /\ Seq(U) \subseteq Seq(V)
  OBVIOUS
<1>4. Closed(V, doc)
  BY <1>1, <1>2, <1>3 DEF Closed
<1>5. s \o u \in Seq(V)
  BY <1>1, <1>2, <1>3
<1> QED
  BY <1>4, <1>5 DEF TokensOK

LEMMA TokensPart ==
    ASSUME NEW doc, NEW s, TokensOK(s, doc), NEW m \in 1 .. Len(s) + 1, NEW n \in 0 .. Len(s)
    PROVE  TokensOK(SubSeq(s, m, n), doc)
<1>1. PICK T : Closed(T, doc) /\ s \in Seq(T)
  BY DEF TokensOK
<1>2. SubSeq(s, m, n) \in Seq(T)
  BY <1>1
<1> QED
  BY <1>1, <1>2 DEF TokensOK

LEMMA TokensTwo ==
    ASSUME NEW doc, NEW a, NEW b, TokensOK(<<a>>, doc), TokensOK(<<b>>, doc)
    PROVE  TokensOK(<<a, b>>, doc)
<1>1. PICK T : Closed(T, doc) /\ <<a>> \in Seq(T)
  BY DEF TokensOK
<1>2. PICK U : Closed(U, doc) /\ <<b>> \in Seq(U)
  BY DEF TokensOK
<1> DEFINE V == T \cup U
<1>3. Seq(T) \subseteq Seq(V) /\ Seq(U) \subseteq Seq(V)
  OBVIOUS
<1>4. Closed(V, doc)
  BY <1>1, <1>2, <1>3 DEF Closed
<1>5. a \in V /\ b \in V
  BY <1>1, <1>2
<1>6. <<a, b>> \in Seq(V)
  BY <1>5
<1> QED
  BY <1>4, <1>6 DEF TokensOK

\* A token made of tokens.
LEMMA TokensMade ==
    ASSUME NEW doc, NEW t, TokenOK(t, doc), TokensOK(t.sub, doc)
    PROVE  TokensOK(<<t>>, doc)
<1>1. PICK T : Closed(T, doc) /\ t.sub \in Seq(T)
  BY DEF TokensOK
<1> DEFINE V == T \cup {t}
<1>2. Seq(T) \subseteq Seq(V)
  OBVIOUS
<1>3. Closed(V, doc)
  BY <1>1, <1>2 DEF Closed
<1>4. <<t>> \in Seq(V)
  OBVIOUS
<1> QED
  BY <1>3, <1>4 DEF TokensOK

LEMMA RawOK ==
    ASSUME NEW doc, NEW u, TextOK(u, doc), IsBlankText(u) => Hollow(doc), NEW ns
    PROVE  TokensOK(<<Raw(u, ns)>>, doc)
<1>1. TokenOK(Raw(u, ns), doc) /\ Raw(u, ns).sub = << >>
  BY DEF TokenOK, Raw
<1> QED
  BY <1>1, NoTokens, TokensMade

LEMMA BlankOK ==
    ASSUME NEW doc, NEW u, TextOK(u, doc), NEW ns
    PROVE  TokensOK(<<Blank(u, ns)>>, doc)
<1>1. TokenOK(Blank(u, ns), doc) /\ Blank(u, ns).sub = << >>
  BY DEF TokenOK, Blank, IsBlankLine
<1> QED
  BY <1>1, NoTokens, TokensMade

LEMMA BlankLineOK == ASSUME NEW doc PROVE TokensOK(<<BlankLine>>, doc)
BY NoText, BlankOK DEF BlankLine

LEMMA LeafOK ==
    ASSUME NEW doc, NEW kind \in {"html", "code", "header", "hr"}, NEW ns,
           kind = "html" => \E n \in DOMAIN doc : IsHtml(doc[n])
    PROVE  TokensOK(<<Leaf(kind, ns)>>, doc)
<1>1. TokenOK(Leaf(kind, ns), doc) /\ Leaf(kind, ns).sub = << >>
  BY OwnTexts DEF TokenOK, Leaf
<1> QED
  BY <1>1, NoTokens, TokensMade

LEMMA ContainerOK ==
    ASSUME NEW doc, NEW kind \in {"list", "item"}, NEW s, TokensOK(s, doc),
           \E n \in DOMAIN doc : Bulleted(doc[n])
    PROVE  TokensOK(<<Container(kind, s)>>, doc)
<1>1. TokenOK(Container(kind, s), doc) /\ Container(kind, s).sub = s
  BY NoText DEF TokenOK, Container, HasText
<1> QED
  BY <1>1, TokensMade
-----------------------------------------------------------------------------
(***************************************************************************)
(* Frames and stacks of them.                                              *)
(***************************************************************************)
LEMMA ItemsOK ==
    ASSUME NEW doc, NEW of, NEW s, TokensOK(s, doc)
    PROVE  FrameOK(Items(of, s), doc) /\ Items(of, s).fn = "items"
<1> DEFINE f == Items(of, s)
<1>1. f.fn = "items" /\ f.of = of /\ f.tgt = s /\ f.i = 1 /\ f.processed = << >> /\ IsItemsFrame(f)
  BY DEF Items, IsItemsFrame
<1>2. Len(s) \in Nat
  BY TokensType
<1> HIDE DEF f
<1>3. Within(f.i, f.tgt)
  BY <1>1, <1>2 DEF Within
<1>4. FrameOK(f, doc)
  BY <1>1, <1>3 DEF FrameOK
<1> QED
  BY <1>1, <1>4 DEF f

\* A walk over items that goes on.
Pushed(f, p, j) == [f EXCEPT !.processed = p, !.i = j]
Moved(f, j) == [f EXCEPT !.i = j]
Processed(f, p) == [f EXCEPT !.processed = p]
StaysOn(g, f, j) == g.fn = f.fn /\ g.tgt = f.tgt /\ g.i = j
HasProcessed(g, p) == g.processed = p

LEMMA ItemsGoOn ==
    ASSUME NEW doc, NEW f, FrameOK(f, doc), f.fn = "items",
           NEW j, Within(j, f.tgt), NEW p
    PROVE  /\ FrameOK(Pushed(f, p, j), doc) /\ StaysOn(Pushed(f, p, j), f, j)
           /\ HasProcessed(Pushed(f, p, j), p)
           /\ FrameOK(Moved(f, j), doc) /\ StaysOn(Moved(f, j), f, j)
           /\ FrameOK(Processed(f, p), doc) /\ StaysOn(Processed(f, p), f, f.i)
<1> DEFINE l == [f EXCEPT !.processed = p]
           h == [f EXCEPT !.i = j]
           g == [l EXCEPT !.i = j]
<1>0. [f EXCEPT !.processed = p, !.i = j] = g
  BY SMT
<1>a. g = Pushed(f, p, j) /\ h = Moved(f, j) /\ l = Processed(f, p)
  BY <1>0 DEF Pushed, Moved, Processed
<1>1. IsItemsFrame(f) /\ TokensOK(f.tgt, doc) /\ Within(f.i, f.tgt)
  <2>1. IsListFrame(f) => f.fn = "list"
    BY DEF IsListFrame
  <2> QED
    BY <2>1 DEF FrameOK
<1>2. h.fn = "items" /\ h.tgt = f.tgt /\ h.i = j /\ IsItemsFrame(h)
  BY <1>1 DEF IsItemsFrame
<1>3. l.fn = "items" /\ l.tgt = f.tgt /\ l.i = f.i /\ l.processed = p /\ IsItemsFrame(l)
  BY <1>1 DEF IsItemsFrame
<1> HIDE DEF l, h
<1>4. g.fn = "items" /\ g.tgt = l.tgt /\ g.i = j /\ g.processed = l.processed /\ IsItemsFrame(g)
  BY <1>3 DEF IsItemsFrame
<1> HIDE DEF g
<1>5. FrameOK(g, doc) /\ FrameOK(h, doc) /\ FrameOK(l, doc)
  BY <1>1, <1>2, <1>3, <1>4 DEF FrameOK
<1>6. f.fn = "items"
  OBVIOUS
<1>7. StaysOn(g, f, j) /\ HasProcessed(g, p) /\ StaysOn(h, f, j) /\ StaysOn(l, f, f.i)
  BY <1>2, <1>3, <1>4, <1>6 DEF StaysOn, HasProcessed
<1> QED
  BY <1>a, <1>5, <1>7

ListOver(g, toks, doc) == FrameOK(g, doc) /\ g.fn = "list" /\ g.tgt = toks

LEMMA ListChanges ==
    ASSUME NEW doc, NEW toks, NEW f, ListOver(f, toks, doc),
           NEW j, Within(j, toks), NEW s, TokensOK(s, doc), NEW c
    PROVE  /\ ListOver([f EXCEPT !.i = j], toks, doc)
           /\ ListOver([f EXCEPT !.subItemTokens = s], toks, doc)
           /\ ListOver([f EXCEPT !.subTokens = s], toks, doc)
           /\ ListOver([f EXCEPT !.itemCount = c], toks, doc)
<1>1. /\ IsListFrame(f) /\ TokensOK(f.tgt, doc) /\ TokensOK(f.subTokens, doc)
      /\ TokensOK(f.subItemTokens, doc) /\ f.indent \in Nat /\ Within(f.i, f.tgt)
      /\ f.tgt = toks /\ \E n \in DOMAIN doc : Bulleted(doc[n])
  <2>1. IsItemsFrame(f) => f.fn = "items"
    BY DEF IsItemsFrame
  <2> QED
    BY <2>1 DEF FrameOK, ListOver
<1> DEFINE Same(g) == /\ IsListFrame(g) /\ g.fn = "list" /\ g.tgt = f.tgt
                      /\ g.i \in {f.i, j} /\ g.indent = f.indent
                      /\ g.subTokens \in {f.subTokens, s}
                      /\ g.subItemTokens \in {f.subItemTokens, s}
<1>2. Same([f EXCEPT !.i = j])
  BY <1>1 DEF IsListFrame
<1>3. Same([f EXCEPT !.subItemTokens = s])
  BY <1>1 DEF IsListFrame
<1>4. Same([f EXCEPT !.subTokens = s])
  BY <1>1 DEF IsListFrame
<1>5. Same([f EXCEPT !.itemCount = c])
  BY <1>1 DEF IsListFrame
<1>6. ASSUME NEW g, Same(g) PROVE ListOver(g, toks, doc)
  <2>1. TokensOK(g.subTokens, doc) /\ TokensOK(g.subItemTokens, doc)
    BY <1>1, <1>6
  <2> QED
    BY <1>1, <1>6, <2>1 DEF FrameOK, ListOver
<1> HIDE DEF Same
<1> QED
  BY <1>2, <1>3, <1>4, <1>5, <1>6

\* parseListBlock goes on.
Grown(f, s, j) == [f EXCEPT !.subItemTokens = s, !.i = j]
Recounted(f, c, j) == [f EXCEPT !.itemCount = c, !.i = j]
Coded(f, c, j, s) == [f EXCEPT !.itemCount = c, !.i = j, !.subItemTokens = s]
NextStarted(f, u, c, j, s) ==
    [f EXCEPT !.subTokens = u, !.itemCount = c, !.i = j, !.subItemTokens = s]

LEMMA ListGoesOn ==
    ASSUME NEW doc, NEW toks, NEW f, ListOver(f, toks, doc),
           NEW j, Within(j, toks), NEW s, TokensOK(s, doc), NEW u, TokensOK(u, doc), NEW c
    PROVE  /\ ListOver(Grown(f, s, j), toks, doc)
           /\ ListOver(Recounted(f, c, j), toks, doc)
           /\ ListOver(Coded(f, c, j, s), toks, doc)
           /\ ListOver(NextStarted(f, u, c, j, s), toks, doc)
<1> DEFINE Good(g) == ListOver(g, toks, doc)
<1>1. ASSUME NEW g, Good(g)
      PROVE  /\ Good([g EXCEPT !.i = j]) /\ Good([g EXCEPT !.subItemTokens = s])
             /\ Good([g EXCEPT !.subTokens = u]) /\ Good([g EXCEPT !.itemCount = c])
  BY <1>1, ListChanges
<1> DEFINE a == [f EXCEPT !.subItemTokens = s]
           b == [f EXCEPT !.itemCount = c]
           d == [b EXCEPT !.i = j]
           e == [f EXCEPT !.subTokens = u]
           h == [e EXCEPT !.itemCount = c]
           k == [h EXCEPT !.i = j]
<1>2. /\ [f EXCEPT !.subItemTokens = s, !.i = j] = [a EXCEPT !.i = j]
      /\ [f EXCEPT !.itemCount = c, !.i = j] = d
      /\ [f EXCEPT !.itemCount = c, !.i = j, !.subItemTokens = s] = [d EXCEPT !.subItemTokens = s]
      /\ [f EXCEPT !.subTokens = u, !.itemCount = c, !.i = j, !.subItemTokens = s]
             = [k EXCEPT !.subItemTokens = s]
  BY SMT
<1>3. Good(f)
  OBVIOUS
<1> HIDE DEF Good
<1>4. Good(a) /\ Good(b) /\ Good(e)
  BY <1>1, <1>3
<1> HIDE DEF a, b, e
<1>5. Good(d) /\ Good(h) /\ Good([a EXCEPT !.i = j])
  BY <1>1, <1>4
<1> HIDE DEF d, h
<1>6. Good(k) /\ Good([d EXCEPT !.subItemTokens = s])
  BY <1>1, <1>5
<1> HIDE DEF k
<1>7. Good([k EXCEPT !.subItemTokens = s])
  BY <1>1, <1>6
<1>8. /\ Good(Grown(f, s, j)) /\ Good(Recounted(f, c, j))
      /\ Good(Coded(f, c, j, s)) /\ Good(NextStarted(f, u, c, j, s))
  BY <1>2, <1>5, <1>6, <1>7 DEF a, b, d, e, h, k, Grown, Recounted, Coded, NextStarted
<1> QED
  BY <1>8 DEF Good

LEMMA StackFacts ==
    ASSUME NEW doc, NEW st, StackOK(st, doc)
    PROVE  /\ Len(st) \in Nat \ {0} /\ st[1].fn = "items"
           /\ FrameOK(st[Len(st)], doc)
           /\ Len(st) > 1 => /\ Len(st) - 1 \in 1 .. Len(st)
                             /\ FrameOK(st[Len(st) - 1], doc)
                             /\ Over(st[Len(st) - 1], st[Len(st)])
<1>1. PICK S : st \in Seq(S)
  BY DEF StackOK
<1>2. Len(st) \in Nat /\ Len(st) > 0
  BY <1>1 DEF StackOK
<1> QED
  BY <1>2 DEF StackOK

\* One frame more.
LEMMA StackPush ==
    ASSUME NEW doc, NEW st, StackOK(st, doc), NEW g, FrameOK(g, doc), Over(st[Len(st)], g)
    PROVE  StackOK(Append(st, g), doc)
<1>1. PICK S : st \in Seq(S)
  BY DEF StackOK
<1> DEFINE n == Len(st)
           new == Append(st, g)
<1>2. /\ n \in Nat /\ n > 0 /\ new \in Seq(S \cup {g}) /\ Len(new) = n + 1
      /\ new[n + 1] = g /\ \A k \in 1 .. n : new[k] = st[k]
  BY <1>1 DEF StackOK
<1>3. st[1].fn = "items" /\ (\A k \in 1 .. n : FrameOK(st[k], doc))
      /\ (\A k, l \in 1 .. n : l = k + 1 => Over(st[k], st[l])) /\ Over(st[n], g)
  BY DEF StackOK
<1> HIDE DEF n, new
<1>4. \A k \in 1 .. n + 1 : FrameOK(new[k], doc)
  <2> TAKE k \in 1 .. n + 1
  <2>1. CASE k = n + 1
    BY <1>2, <2>1
  <2>2. CASE k # n + 1
    BY <1>2, <1>3, <2>2
  <2> QED
    BY <2>1, <2>2
<1>5. \A k, l \in 1 .. n + 1 : l = k + 1 => Over(new[k], new[l])
  <2>0. SUFFICES ASSUME NEW k \in 1 .. n + 1, NEW l \in 1 .. n + 1, l = k + 1
                 PROVE  Over(new[k], new[l])
    OBVIOUS
  <2>1. CASE l = n + 1
    <3>1. k = n /\ new[k] = st[n] /\ new[l] = g
      BY <1>2, <2>0, <2>1
    <3> QED
      BY <1>3, <3>1
  <2>2. CASE l # n + 1
    <3>1. k \in 1 .. n /\ l \in 1 .. n /\ new[k] = st[k] /\ new[l] = st[l]
      BY <1>2, <2>0, <2>2
    <3> QED
      BY <1>3, <2>0, <3>1
  <2> QED
    BY <2>1, <2>2
<1>6. new[1].fn = "items" /\ Len(new) > 0
  <2>1. 1 \in 1 .. n
    BY <1>2
  <2> QED
    BY <1>2, <1>3, <2>1
<1>7. StackOK(new, doc)
  BY <1>2, <1>4, <1>5, <1>6 DEF StackOK
<1> QED
  BY <1>7 DEF new

LEMMA StackCut ==
    ASSUME NEW doc, NEW st, StackOK(st, doc), NEW m \in 1 .. Len(st)
    PROVE  LET new == SubSeq(st, 1, m) IN StackOK(new, doc) /\ Len(new) = m /\ new[m] = st[m]
<1>1. PICK S : st \in Seq(S)
  BY DEF StackOK
<1> DEFINE new == SubSeq(st, 1, m)
<1>2. /\ m \in Nat /\ m > 0 /\ new \in Seq(S) /\ Len(new) = m /\ Len(st) \in Nat
      /\ \A k \in 1 .. m : new[k] = st[k] /\ k \in 1 .. Len(st)
  BY <1>1
<1>3. st[1].fn = "items" /\ (\A k \in 1 .. Len(st) : FrameOK(st[k], doc))
      /\ (\A k, l \in 1 .. Len(st) : l = k + 1 => Over(st[k], st[l]))
  BY DEF StackOK
<1> HIDE DEF new
<1>4. \A k \in 1 .. m : FrameOK(new[k], doc)
  BY <1>2, <1>3
<1>5. \A k, l \in 1 .. m : l = k + 1 => Over(new[k], new[l])
  BY <1>2, <1>3
<1>6. new[1].fn = "items" /\ Len(new) > 0
  <2>1. 1 \in 1 .. m
    BY <1>2
  <2> QED
    BY <1>2, <1>3, <2>1
<1>7. StackOK(new, doc) /\ Len(new) = m /\ new[m] = st[m]
  <2>1. m \in 1 .. m
    BY <1>2
  <2> QED
    BY <1>2, <1>4, <1>5, <1>6, <2>1 DEF StackOK
<1> QED
  BY <1>7 DEF new

LEMMA OneFrame ==
    ASSUME NEW doc, NEW f, FrameOK(f, doc), f.fn = "items"
    PROVE  StackOK(<<f>>, doc) /\ Len(<<f>>) = 1 /\ <<f>>[1] = f
<1> DEFINE st == <<f>>
<1>1. st \in Seq({f}) /\ Len(st) = 1 /\ st[1] = f
  OBVIOUS
<1> HIDE DEF st
<1>2. \A k \in 1 .. Len(st) : k = 1 /\ k # k + 1
  BY <1>1
<1>3. Len(st) > 0 /\ st[1].fn = "items" /\ \A k \in 1 .. Len(st) : FrameOK(st[k], doc)
  BY <1>1, <1>2
<1>4. \A k, l \in 1 .. Len(st) : l = k + 1 => Over(st[k], st[l])
  BY <1>2
<1>5. StackOK(st, doc)
  BY <1>1, <1>3, <1>4 DEF StackOK
<1> QED
  BY <1>1, <1>5 DEF st

\* A frame takes the place of all from m on, by itself or with one on it.
TopIs(st, m, f) == Len(st) = m /\ st[m] = f
Replaced(st, m, f) == Append(SubSeq(st, 1, m - 1), f)
Called(st, m, f, g) == SubSeq(st, 1, m - 1) \o <<f, g>>

LEMMA StackChange ==
    ASSUME NEW doc, NEW st, StackOK(st, doc), NEW m \in 1 .. Len(st),
           NEW f, FrameOK(f, doc), f.fn = st[m].fn, f.tgt = st[m].tgt
    PROVE  StackOK(Replaced(st, m, f), doc) /\ TopIs(Replaced(st, m, f), m, f)
<1>1. PICK S : st \in Seq(S)
  BY DEF StackOK
<1> DEFINE rest == SubSeq(st, 1, m - 1)
<1>2. CASE m = 1
  <2>1. rest = << >> /\ Append(<< >>, f) = <<f>>
    BY <1>1, <1>2
  <2> HIDE DEF rest
  <2>2. f.fn = "items"
    BY <1>2 DEF StackOK
  <2>3. StackOK(<<f>>, doc) /\ Len(<<f>>) = 1 /\ <<f>>[1] = f
    BY <2>2, OneFrame
  <2> QED
    BY <1>2, <2>1, <2>3 DEF Replaced, rest, TopIs
<1>3. CASE m # 1
  <2>1. m - 1 \in 1 .. Len(st) /\ m \in 1 .. Len(st) /\ m = (m - 1) + 1
    BY <1>1, <1>3
  <2>2. StackOK(rest, doc) /\ Len(rest) = m - 1 /\ rest[m - 1] = st[m - 1]
    BY <2>1, StackCut
  <2>3. Over(st[m - 1], st[m])
    BY <2>1 DEF StackOK
  <2>4. Over(st[m - 1], f)
    BY <2>3 DEF Over
  <2> HIDE DEF rest
  <2>5. StackOK(Append(rest, f), doc)
    BY <2>2, <2>4, StackPush
  <2>6. PICK R : rest \in Seq(R)
    BY <2>2 DEF StackOK
  <2>7. Len(Append(rest, f)) = m /\ Append(rest, f)[m] = f
    BY <2>1, <2>2, <2>6
  <2> QED
    BY <2>5, <2>7 DEF Replaced, rest, TopIs
<1> QED
  BY <1>2, <1>3

LEMMA StackCall ==
    ASSUME NEW doc, NEW st, StackOK(st, doc), NEW m \in 1 .. Len(st),
           NEW f, FrameOK(f, doc), f.fn = st[m].fn, f.tgt = st[m].tgt,
           NEW g, FrameOK(g, doc), Over(f, g)
    PROVE  StackOK(Called(st, m, f, g), doc)
<1> DEFINE new == Replaced(st, m, f)
<1>1. StackOK(new, doc) /\ Len(new) = m /\ new[m] = f
  BY StackChange DEF TopIs
<1>2. Called(st, m, f, g) = Append(new, g)
  <2>1. PICK S : st \in Seq(S)
    BY DEF StackOK
  <2> DEFINE R == S \cup {f, g}
             rest == SubSeq(st, 1, m - 1)
  <2>2. rest \in Seq(R) /\ f \in R /\ g \in R
    BY <2>1
  <2> HIDE DEF rest, R
  <2>3. \A a \in Seq(R) : \A x, y \in R : a \o <<x, y>> = Append(Append(a, x), y)
    <3> TAKE a \in Seq(R)
    <3> TAKE x, y \in R
    <3> DEFINE p == a \o <<x, y>>
               q == Append(Append(a, x), y)
    <3>1. p \in Seq(R) /\ q \in Seq(R) /\ Len(p) = Len(a) + 2 /\ Len(q) = Len(a) + 2 /\ Len(a) \in Nat
      OBVIOUS
    <3>2. \A k \in 1 .. Len(a) + 2 : p[k] = q[k]
      <4> TAKE k \in 1 .. Len(a) + 2
      <4>1. k \in 1 .. Len(a) \/ k = Len(a) + 1 \/ k = Len(a) + 2
        OBVIOUS
      <4> QED
        BY <4>1
    <3> HIDE DEF p, q
    <3>3. p = q
      BY <3>1, <3>2, SeqEqual
    <3> QED
      BY <3>3 DEF p, q
  <2> QED
    BY <2>2, <2>3 DEF rest, Called, Replaced
<1> HIDE DEF new
<1>3. Over(new[Len(new)], g)
  BY <1>1
<1>4. StackOK(Append(new, g), doc)
  BY <1>1, <1>3, StackPush
<1> QED
  BY <1>2, <1>4

\* The frame on top, its list walked on to j.
LEMMA StackPushed ==
    ASSUME NEW doc, NEW st, StackOK(st, doc), NEW f, f = st[Len(st)], f.fn = "items",
           NEW j, Within(j, f.tgt), NEW p
    PROVE  /\ StackOK(Replaced(st, Len(st), Pushed(f, p, j)), doc)
           /\ TopIs(Replaced(st, Len(st), Pushed(f, p, j)), Len(st), Pushed(f, p, j))
<1> DEFINE g == Pushed(f, p, j)
           new == Replaced(st, Len(st), g)
<1>1. Len(st) \in 1 .. Len(st) /\ FrameOK(f, doc)
  BY StackFacts
<1>2. FrameOK(g, doc) /\ StaysOn(g, f, j)
  BY <1>1, ItemsGoOn
<1> HIDE DEF g
<1>3. g.fn = st[Len(st)].fn /\ g.tgt = st[Len(st)].tgt
  BY <1>2 DEF StaysOn
<1>4. StackOK(new, doc) /\ TopIs(new, Len(st), g)
  BY <1>1, <1>2, <1>3, StackChange
<1> QED
  BY <1>4 DEF g, new

LEMMA DocumentFacts == ASSUME BlocksInv PROVE document \in Seq(Seq(Piece))
<1>1. [sp : Nat, m : STRING] \subseteq Piece
  BY DEF Piece, Words
<1>2. Seq([sp : Nat, m : STRING]) \subseteq Seq(Piece)
  BY <1>1, SeqMonotonic
<1>3. Seq(Seq([sp : Nat, m : STRING])) \subseteq Seq(Seq(Piece))
  BY <1>2, SeqMonotonic
<1> QED
  BY <1>3, DocumentsAssumption DEF BlocksInv

LEMMA TopFacts ==
    ASSUME BlocksInv
    PROVE  /\ StackOK(stack, document) /\ Len(stack) \in Nat \ {0}
           /\ FrameOK(Top, document) /\ TokensOK(Top.tgt, document)
           /\ Len(Top.tgt) \in Nat /\ Within(Top.i, Top.tgt) /\ Top.i \in Nat \ {0}
<1>1. StackOK(stack, document)
  BY DEF BlocksInv
<1>2. Len(stack) \in Nat \ {0} /\ FrameOK(Top, document)
  BY <1>1, StackFacts DEF Top
<1>3. TokensOK(Top.tgt, document) /\ Within(Top.i, Top.tgt)
  BY <1>2 DEF FrameOK
<1>4. Len(Top.tgt) \in Nat
  BY <1>3, TokensType
<1>5. Top.i \in Nat \ {0}
  BY <1>3, <1>4 DEF Within
<1> QED
  BY <1>1, <1>2, <1>3, <1>4, <1>5

LEMMA TokenFacts ==
    ASSUME BlocksInv, NEW k \in Nat \ {0}, There(k)
    PROVE  /\ TokenOK(Token(k), document) /\ TextOK(Token(k).text, document)
           /\ TokensOK(Token(k).sub, document) /\ TokensOK(<<Token(k)>>, document)
<1>1. k \in 1 .. Len(Top.tgt)
  BY TopFacts DEF There
<1>2. TokenOK(Top.tgt[k], document) /\ TokensOK(Top.tgt[k].sub, document) /\ TokensOK(<<Top.tgt[k]>>, document)
  BY <1>1, TopFacts, TokenAt
<1> QED
  BY <1>2 DEF Token, TokenOK

\* A step of the third pass.
LEMMA BlocksStep ==
    ASSUME BlocksInv, pass = "blocks", outcome = "running",
           UNCHANGED <<document, pass, references, outcome>>, StackOK(stack', document)
    PROVE  BlocksInv'
<1>1. RendersOrdinary'
  BY DEF RendersOrdinary, Ordinary
<1> QED
  BY <1>1 DEF BlocksInv

LEMMA BlocksPush ==
    ASSUME BlocksInv, AtItem, \E toks, j : Within(j, Top.tgt) /\ Push(toks, j),
           UNCHANGED <<document, pass, references, outcome>>
    PROVE  BlocksInv'
<1>2. PICK toks, j : Within(j, Top.tgt) /\ Push(toks, j)
  OBVIOUS
<1>3. StackOK(stack, document)
  BY TopFacts
<1>4. Top = stack[Len(stack)] /\ Top.fn = "items" /\ pass = "blocks" /\ outcome = "running"
  BY DEF AtItem, Running, Top
<1>5. StackOK(Replaced(stack, Len(stack), Pushed(Top, Top.processed \o toks, j)), document)
  BY <1>2, <1>3, <1>4, StackPushed
<1>6. StackOK(stack', document)
  BY <1>2, <1>5 DEF Push, Change, Pushed, Replaced, Front
<1> QED
  BY <1>4, <1>6, BlocksStep
-----------------------------------------------------------------------------
(***************************************************************************)
(* The first two passes, and the beginning.                                *)
(***************************************************************************)
LEMMA EarlyConcat ==
    ASSUME NEW doc, NEW s, NEW u, Early(s, doc), Early(u, doc)
    PROVE  Early(s \o u, doc)
<1>1. TokensOK(s \o u, doc)
  BY TokensConcat DEF Early
<1>2. PICK S : s \in Seq(S)
  BY TokensType DEF Early
<1>3. PICK U : u \in Seq(U)
  BY TokensType DEF Early
<1> DEFINE V == S \cup U
           v == s \o u
<1>4. s \in Seq(V) /\ u \in Seq(V)
  BY <1>2, <1>3
<1> HIDE DEF V
<1>5. /\ Len(v) = Len(s) + Len(u) /\ Len(s) \in Nat /\ Len(u) \in Nat
      /\ \A k \in 1 .. Len(s) + Len(u) : v[k] = IF k =< Len(s) THEN s[k] ELSE u[k - Len(s)]
  BY <1>4
<1> HIDE DEF v
<1>6. ASSUME NEW k \in 1 .. Len(v)
      PROVE  /\ v[k].ns \in Seq(DOMAIN doc)
             /\ IsHtml(v[k].text) => \E n \in DOMAIN doc : IsHtml(doc[n])
  <2>1. CASE k =< Len(s)
    <3>1. k \in 1 .. Len(s) /\ v[k] = s[k]
      BY <1>5, <2>1
    <3> QED
      BY <3>1 DEF Early
  <2>2. CASE ~(k =< Len(s))
    <3>1. PICK l \in 1 .. Len(u) : v[k] = u[l]
      BY <1>5, <2>2
    <3> QED
      BY <3>1 DEF Early
  <2> QED
    BY <2>1, <2>2
<1>7. Early(v, doc)
  BY <1>1, <1>6 DEF Early, v
<1> QED
  BY <1>7 DEF v

LEMMA EarlyAt ==
    ASSUME NEW doc, NEW s, Early(s, doc), NEW k \in 1 .. Len(s)
    PROVE  /\ Early(<<s[k]>>, doc) /\ s[k].ns \in Seq(DOMAIN doc)
           /\ IsHtml(s[k].text) => \E n \in DOMAIN doc : IsHtml(doc[n])
<1>1. TokensOK(<<s[k]>>, doc)
  BY TokenAt DEF Early
<1> DEFINE e == s[k]
<1>2. e.ns \in Seq(DOMAIN doc) /\ (IsHtml(e.text) => \E n \in DOMAIN doc : IsHtml(doc[n]))
  BY DEF Early
<1> HIDE DEF e
<1>3. Len(<<e>>) = 1 /\ <<e>>[1] = e /\ \A l \in 1 .. 1 : l = 1
  OBVIOUS
<1>4. TokensOK(<<e>>, doc)
  BY <1>1 DEF e
<1>5. Early(<<e>>, doc)
  BY <1>2, <1>3, <1>4 DEF Early
<1> QED
  BY <1>2, <1>5 DEF e

\* The lines of some tokens.
LEMMA EarlyLines ==
    ASSUME NEW doc, NEW s, Early(s, doc), NEW m \in 1 .. Len(s), NEW n \in 1 .. Len(s)
    PROVE  Lined(SubSeq(s, m, n)) \in Seq(DOMAIN doc)
<1> DEFINE v == SubSeq(s, m, n)
           ns == [k \in DOMAIN v |-> v[k].ns]
<1>1. PICK S : s \in Seq(S)
  BY TokensType DEF Early
<1>2. v \in Seq(S) /\ \A k \in 1 .. Len(v) : \E l \in 1 .. Len(s) : v[k] = s[l]
  <2>1. v \in Seq(S) /\ Len(v) = IF m =< n THEN n - m + 1 ELSE 0
    BY <1>1
  <2>2. ASSUME NEW k \in 1 .. Len(v) PROVE \E l \in 1 .. Len(s) : v[k] = s[l]
    <3>1. m =< n /\ m + k - 1 \in 1 .. Len(s) /\ v[k] = s[m + k - 1]
      BY <1>1, <2>1
    <3> QED
      BY <3>1
  <2> QED
    BY <2>1, <2>2
<1> HIDE DEF v
<1>3. DOMAIN v = 1 .. Len(v) /\ Len(v) \in Nat
  BY <1>2
<1>4. \A k \in 1 .. Len(v) : v[k].ns \in Seq(DOMAIN doc)
  BY <1>2 DEF Early
<1>5. ns \in [1 .. Len(v) -> Seq(DOMAIN doc)]
  BY <1>3, <1>4
<1>6. ns \in Seq(Seq(DOMAIN doc))
  BY <1>3, <1>5
<1> HIDE DEF ns
<1>7. FlattenSeq(ns) \in Seq(DOMAIN doc)
  BY <1>6, FlattenType
<1> QED
  BY <1>7 DEF Lined, ns, v

LEMMA EarlyPush ==
    ASSUME BlocksInv, pass # "blocks", outcome = "running", There(Top.i),
           \E toks, j : Early(toks, document) /\ Within(j, Top.tgt) /\ Push(toks, j),
           references' \subseteq DOMAIN document,
           UNCHANGED <<document, pass, outcome>>
    PROVE  BlocksInv'
<1>1. PICK toks, j : Early(toks, document) /\ Within(j, Top.tgt) /\ Push(toks, j)
  OBVIOUS
<1>2. Within(j, Top.tgt) /\ Push(toks, j)
  BY <1>1
<1>a. Len(stack) = 1
  BY DEF BlocksInv
<1>3. StackOK(stack, document) /\ Top = stack[Len(stack)] /\ Top.fn = "items"
  BY <1>a, TopFacts, StackFacts DEF BlocksInv, Top
<1> DEFINE p == Top.processed \o toks
           new == Replaced(stack, Len(stack), Pushed(Top, p, j))
<1>4. StackOK(new, document) /\ TopIs(new, Len(stack), Pushed(Top, p, j))
  <2> HIDE DEF p
  <2> QED
    BY <1>2, <1>3, StackPushed
<1>b. Pushed(Top, p, j).tgt = Top.tgt /\ Pushed(Top, p, j).processed = p
  <2> HIDE DEF p
  <2>1. FrameOK(Top, document) /\ Top.fn = "items"
    BY <1>3, TopFacts
  <2> QED
    BY <1>2, <2>1, ItemsGoOn DEF StaysOn, HasProcessed
<1>5. stack' = new
  BY <1>2 DEF Push, Change, Pushed, Replaced, Front
<1> HIDE DEF new
<1>6. Early(Top.tgt, document) /\ Early(Top.processed, document)
  BY <1>a, <1>3 DEF BlocksInv
<1>7. Early(Top.processed \o toks, document)
  BY <1>1, <1>6, EarlyConcat
<1>8. RendersOrdinary'
  BY DEF RendersOrdinary, Ordinary
<1>9. /\ StackOK(stack', document) /\ Len(stack') = 1
      /\ Early(stack'[1].tgt, document) /\ Early(stack'[1].processed, document)
  BY <1>a, <1>b, <1>4, <1>5, <1>6, <1>7 DEF TopIs
<1> QED
  BY <1>8, <1>9 DEF BlocksInv

\* What the first two passes look at.
LEMMA EarlyFacts ==
    ASSUME BlocksInv, pass # "blocks"
    PROVE  Early(Top.tgt, document) /\ Early(Top.processed, document)
<1>1. Len(stack) = 1 /\ Early(stack[1].tgt, document) /\ Early(stack[1].processed, document)
  BY DEF BlocksInv
<1> QED
  BY <1>1 DEF Top

LEMMA EarlyTop ==
    ASSUME BlocksInv, pass # "blocks", There(Top.i)
    PROVE  /\ Top.i \in 1 .. Len(Top.tgt) /\ Early(<<Token(Top.i)>>, document)
           /\ Token(Top.i).ns \in Seq(DOMAIN document)
           /\ IsHtml(Token(Top.i).text) => \E n \in DOMAIN document : IsHtml(document[n])
           /\ Within(Top.i + 1, Top.tgt)
<1>1. Top.i \in 1 .. Len(Top.tgt) /\ Within(Top.i + 1, Top.tgt)
  BY TopFacts DEF There, Within
<1> QED
  BY <1>1, EarlyFacts, EarlyAt DEF Token

LEMMA MergeTagStep == BlocksInv /\ MergeTag => BlocksInv'
<1>0. SUFFICES ASSUME BlocksInv, MergeTag PROVE BlocksInv'
  OBVIOUS
<1> DEFINE i == Top.i
           made == Raw(<<[sp |-> 0, m |-> "<p>"]>>, Token(i).ns \o Token(i + 1).ns)
           first == Token(i).text
           starts == Token(i).kind = "raw" /\ AloneOrSpaced(first, "<p") /\ first[1].sp = 0
           both == starts /\ There(i + 1) /\ Alone(Token(i + 1).text, "p>")
<1>1. /\ pass # "blocks" /\ outcome = "running" /\ There(Top.i)
      /\ UNCHANGED <<document, pass, references, outcome>>
      /\ IF both THEN Push(<<made>>, i + 2) ELSE Push(<<Token(i)>>, i + 1)
  BY <1>0 DEF MergeTag, Running
<1>2. references' \subseteq DOMAIN document
  BY <1>0, <1>1 DEF BlocksInv
<1>3. CASE both
  <2>1. i + 1 \in 1 .. Len(Top.tgt) /\ Within(i + 2, Top.tgt)
    BY <1>0, <1>3, TopFacts DEF There, Within
  <2>2. Token(i).ns \in Seq(DOMAIN document) /\ Token(i + 1).ns \in Seq(DOMAIN document)
    BY <1>0, <1>1, <2>1, EarlyTop, EarlyFacts, EarlyAt DEF Token
  <2>3. \E n \in DOMAIN document : IsHtml(document[n])
    <3>1. first # << >> /\ first[1].sp = 0 /\ first[1].m = "<p"
      BY <1>3 DEF AloneOrSpaced
    <3>3. IsHtml(Token(i).text)
      BY <3>1 DEF IsHtml, StartsWith
    <3> QED
      BY <1>0, <1>1, <3>3, EarlyTop
  <2>4. TokensOK(<<made>>, document)
    BY OwnTexts, RawOK
  <2>5. made.ns \in Seq(DOMAIN document)
    BY <2>2 DEF Raw
  <2> HIDE DEF made
  <2>6. Len(<<made>>) = 1 /\ <<made>>[1] = made /\ \A l \in 1 .. 1 : l = 1
    OBVIOUS
  <2>7. Early(<<made>>, document)
    BY <2>3, <2>4, <2>5, <2>6 DEF Early
  <2>8. Push(<<made>>, i + 2)
    BY <1>1, <1>3
  <2> QED
    BY <1>0, <1>1, <1>2, <2>1, <2>7, <2>8, EarlyPush
<1>4. CASE ~both
  <2>1. Push(<<Token(i)>>, i + 1)
    BY <1>1, <1>4
  <2>2. Early(<<Token(i)>>, document) /\ Within(i + 1, Top.tgt)
    BY <1>0, <1>1, EarlyTop
  <2> QED
    BY <1>0, <1>1, <1>2, <2>1, <2>2, EarlyPush
<1> QED
  BY <1>3, <1>4

\* The last line of the HTML is in the list.
LEMMA HtmlEnds ==
    ASSUME BlocksInv, There(Top.i)
    PROVE  HtmlEnd(Top.i, AloneTag) \in Top.i .. Len(Top.tgt)
           /\ HtmlEnd(Top.i, EndsComment) \in Top.i .. Len(Top.tgt)
<1>1. /\ Top.i \in Nat \ {0} /\ Len(Top.tgt) \in Nat /\ Top.i =< Len(Top.tgt)
  BY TopFacts DEF There
<1>2. ASSUME NEW T \in SUBSET (Top.i .. Len(Top.tgt) - 1)
      PROVE  (IF T = {} THEN Len(Top.tgt) ELSE Min(T)) \in Top.i .. Len(Top.tgt)
  <2>1. CASE T = {}
    BY <1>1, <2>1
  <2>2. CASE T # {}
    <3>1. T \in SUBSET Nat
      BY <1>1
    <3>2. PICK m \in T : \A k \in T : m =< k
      BY <2>2, <3>1, LeastNat
    <3>3. Min(T) \in T
      BY <3>2 DEF Min
    <3>4. \A k \in T : k \in Top.i .. Len(Top.tgt)
      BY <1>1
    <3>5. Min(T) \in Top.i .. Len(Top.tgt)
      BY <3>3, <3>4
    <3> QED
      BY <2>2, <3>5
  <2> QED
    BY <2>1, <2>2
<1> DEFINE T(Ends(_)) == {j \in Top.i .. Len(Top.tgt) - 1 :
                            IsBlankLine(Token(j + 1)) /\ (j = Top.i \/ Ends(Token(j).text))}
<1>3. HtmlEnd(Top.i, AloneTag) = IF T(AloneTag) = {} THEN Len(Top.tgt) ELSE Min(T(AloneTag))
  BY DEF HtmlEnd
<1>4. HtmlEnd(Top.i, EndsComment)
        = IF T(EndsComment) = {} THEN Len(Top.tgt) ELSE Min(T(EndsComment))
  BY DEF HtmlEnd
<1>5. T(AloneTag) \in SUBSET (Top.i .. Len(Top.tgt) - 1)
      /\ T(EndsComment) \in SUBSET (Top.i .. Len(Top.tgt) - 1)
  OBVIOUS
<1> HIDE DEF T
<1> QED
  BY <1>2, <1>3, <1>4, <1>5

LEMMA InlineHtmlFacts ==
    ASSUME BlocksInv, There(Top.i), InlineHtml(Top.i) # 0
    PROVE  InlineHtml(Top.i) \in Top.i .. Len(Top.tgt) /\ IsHtml(Token(Top.i).text)
<1>1. InlineHtml(Top.i) \in {HtmlEnd(Top.i, AloneTag), HtmlEnd(Top.i, EndsComment)}
  BY DEF InlineHtml
<1>2. StartsWith(Token(Top.i).text, BlockTags) \/ StartsWith(Token(Top.i).text, {"<!--"})
  BY DEF InlineHtml
<1>3. IsHtml(Token(Top.i).text)
  BY <1>2 DEF IsHtml, StartsWith
<1> QED
  BY <1>1, <1>3, HtmlEnds

LEMMA HtmlBlockStep == BlocksInv /\ HtmlBlock => BlocksInv'
<1>0. SUFFICES ASSUME BlocksInv, HtmlBlock PROVE BlocksInv'
  OBVIOUS
<1> DEFINE i == Top.i
           e == InlineHtml(i)
           lines == Lined(SubSeq(Top.tgt, i, e))
           made == Leaf("html", lines)
<1>1. /\ pass # "blocks" /\ outcome = "running" /\ There(i) /\ e # 0
      /\ UNCHANGED <<document, pass, references, outcome>> /\ Push(<<made>>, e + 1)
  BY <1>0 DEF HtmlBlock, Running
<1>2. references' \subseteq DOMAIN document
  BY <1>0, <1>1 DEF BlocksInv
<1>3. e \in i .. Len(Top.tgt) /\ IsHtml(Token(i).text)
  BY <1>0, <1>1, InlineHtmlFacts
<1>4. \E n \in DOMAIN document : IsHtml(document[n])
  BY <1>0, <1>1, <1>3, EarlyTop
<1>5. i \in 1 .. Len(Top.tgt) /\ e \in 1 .. Len(Top.tgt) /\ Within(e + 1, Top.tgt)
  BY <1>0, <1>1, <1>3, TopFacts DEF There, Within
<1>6. lines \in Seq(DOMAIN document)
  <2> HIDE DEF e
  <2> QED
    BY <1>0, <1>1, <1>5, EarlyFacts, EarlyLines
<1>7. TokensOK(<<made>>, document)
  BY <1>4, LeafOK
<1>8. made.ns \in Seq(DOMAIN document)
  BY <1>6 DEF Leaf
<1> HIDE DEF made, e
<1>9. Len(<<made>>) = 1 /\ <<made>>[1] = made /\ \A l \in 1 .. 1 : l = 1
  OBVIOUS
<1>10. Early(<<made>>, document)
  BY <1>4, <1>7, <1>8, <1>9 DEF Early
<1> QED
  BY <1>0, <1>1, <1>2, <1>5, <1>10, EarlyPush

LEMMA ReferenceStep == BlocksInv /\ Reference => BlocksInv'
<1>0. SUFFICES ASSUME BlocksInv, Reference PROVE BlocksInv'
  OBVIOUS
<1> DEFINE i == Top.i
           e == IF There(i + 1) /\ AloneOrSpaced(Token(i + 1).text, "(t)") THEN i + 1 ELSE i
           lines == Lined(SubSeq(Top.tgt, i, e))
<1>1. /\ pass # "blocks" /\ outcome = "running" /\ There(i)
      /\ references' = references \cup ToSet(lines)
      /\ UNCHANGED <<document, pass, outcome>> /\ Push(<< >>, e + 1)
  BY <1>0 DEF Reference, Running
<1>2. i \in 1 .. Len(Top.tgt) /\ e \in 1 .. Len(Top.tgt) /\ Within(e + 1, Top.tgt)
  BY <1>0, <1>1, TopFacts DEF There, Within
<1> HIDE DEF e
<1>3. lines \in Seq(DOMAIN document)
  BY <1>0, <1>1, <1>2, EarlyFacts, EarlyLines
<1> HIDE DEF lines
<1>4. references' \subseteq DOMAIN document
  <2>1. ToSet(lines) \subseteq DOMAIN document
    BY <1>3 DEF ToSet
  <2> QED
    BY <1>0, <1>1, <2>1 DEF BlocksInv
<1>5. Early(<< >>, document)
  BY NoTokens DEF Early
<1> QED
  BY <1>0, <1>1, <1>2, <1>4, <1>5, EarlyPush

LEMMA KeepRawStep == BlocksInv /\ KeepRaw => BlocksInv'
<1>0. SUFFICES ASSUME BlocksInv, KeepRaw PROVE BlocksInv'
  OBVIOUS
<1>1. /\ pass # "blocks" /\ outcome = "running" /\ There(Top.i)
      /\ UNCHANGED <<document, pass, references, outcome>> /\ Push(<<Token(Top.i)>>, Top.i + 1)
  BY <1>0 DEF KeepRaw, Running
<1>2. references' \subseteq DOMAIN document
  BY <1>0, <1>1 DEF BlocksInv
<1>3. Early(<<Token(Top.i)>>, document) /\ Within(Top.i + 1, Top.tgt)
  BY <1>0, <1>1, EarlyTop
<1> QED
  BY <1>0, <1>1, <1>2, <1>3, EarlyPush

LEMMA EndOfPassStep ==
    BlocksInv /\ (EndOfPass("merge", "html") \/ EndOfPass("html", "blocks")) => BlocksInv'
<1>0. SUFFICES ASSUME BlocksInv, EndOfPass("merge", "html") \/ EndOfPass("html", "blocks")
               PROVE  BlocksInv'
  OBVIOUS
<1> DEFINE f == Items(BlankLine, Top.processed)
<1>1. /\ pass # "blocks" /\ outcome = "running" /\ pass' \in {"html", "blocks"}
      /\ stack' = <<f>> /\ UNCHANGED <<document, references, outcome>>
  BY <1>0 DEF EndOfPass, Running
<1>2. Early(Top.processed, document)
  BY <1>0, <1>1, EarlyFacts
<1>3. FrameOK(f, document) /\ f.fn = "items"
  BY <1>2, ItemsOK DEF Early
<1>4. f.tgt = Top.processed /\ f.processed = << >>
  BY DEF Items
<1> HIDE DEF f
<1>5. StackOK(<<f>>, document) /\ Len(<<f>>) = 1 /\ <<f>>[1] = f
  BY <1>3, OneFrame
<1>6. Early(<< >>, document)
  BY NoTokens DEF Early
<1>7. RendersOrdinary'
  BY <1>1 DEF RendersOrdinary, Ordinary
<1>8. /\ StackOK(stack', document) /\ Len(stack') = 1
      /\ Early(stack'[1].tgt, document) /\ Early(stack'[1].processed, document)
  BY <1>1, <1>2, <1>4, <1>5, <1>6
<1> QED
  BY <1>0, <1>1, <1>7, <1>8 DEF BlocksInv

LEMMA BlocksInitially == BlocksInit => BlocksInv
<1>0. SUFFICES ASSUME BlocksInit PROVE BlocksInv
  OBVIOUS
<1> DEFINE s == [n \in DOMAIN document |->
                   IF IsBlankText(document[n]) THEN Blank(document[n], << >>)
                   ELSE Raw(document[n], <<n>>)]
           B == {n \in DOMAIN document : IsBlankText(document[n])}
           T == {Blank(document[n], << >>) : n \in B}
                  \cup {Raw(document[n], <<n>>) : n \in DOMAIN document \ B}
           f == Items(BlankLine, s)
<1>1. document \in Documents /\ document \in Seq(Seq(Piece))
  <2>1. [sp : Nat, m : STRING] \subseteq Piece
    BY DEF Piece, Words
  <2>2. Seq([sp : Nat, m : STRING]) \subseteq Seq(Piece)
    BY <2>1, SeqMonotonic
  <2>3. Seq(Seq([sp : Nat, m : STRING])) \subseteq Seq(Seq(Piece))
    BY <2>2, SeqMonotonic
  <2> QED
    BY <1>0, <2>3, DocumentsAssumption DEF BlocksInit
<1>2. DOMAIN document = 1 .. Len(document) /\ Len(document) \in Nat
  BY <1>1
<1>3. s \in Seq(T) /\ Len(s) = Len(document) /\ DOMAIN s = DOMAIN document
  <2>1. \A n \in 1 .. Len(document) : s[n] \in T
    BY <1>2
  <2>2. s \in [1 .. Len(document) -> T]
    BY <1>2, <2>1
  <2> HIDE DEF s, T
  <2> QED
    BY <1>2, <2>2
<1>4. ASSUME NEW t \in T
      PROVE  /\ TokenOK(t, document) /\ t.sub = << >>
             /\ t.ns \in Seq(DOMAIN document)
             /\ IsHtml(t.text) => \E n \in DOMAIN document : IsHtml(document[n])
  <2>1. CASE \E n \in B : t = Blank(document[n], << >>)
    <3>1. PICK n \in DOMAIN document : IsBlankText(document[n]) /\ t = Blank(document[n], << >>)
      BY <2>1
    <3>2. t.kind = "blank" /\ t.text = document[n] /\ t.sub = << >> /\ t.ns = << >>
      BY <3>1 DEF Blank
    <3> QED
      BY <1>1, <3>2, LineOK DEF TokenOK, IsBlankLine
  <2>2. CASE \E n \in DOMAIN document \ B : t = Raw(document[n], <<n>>)
    <3>1. PICK n \in DOMAIN document : ~IsBlankText(document[n]) /\ t = Raw(document[n], <<n>>)
      BY <2>2
    <3>2. t.kind = "raw" /\ t.text = document[n] /\ t.sub = << >> /\ t.ns = <<n>>
      BY <3>1 DEF Raw
    <3>3. TextOK(t.text, document) /\ <<n>> \in Seq(DOMAIN document)
      BY <1>1, <3>2, LineOK
    <3> QED
      BY <3>1, <3>2, <3>3 DEF TokenOK
  <2> QED
    BY <2>1, <2>2
<1> HIDE DEF s, T
<1>5. Closed(T, document)
  <2>1. << >> \in Seq(T)
    OBVIOUS
  <2> QED
    BY <1>4, <2>1 DEF Closed
<1>6. TokensOK(s, document)
  BY <1>3, <1>5 DEF TokensOK
<1>7. Early(s, document) /\ Early(<< >>, document)
  <2>1. \A k \in 1 .. Len(s) : s[k] \in T
    BY <1>3
  <2> QED
    BY <1>4, <1>6, <2>1, NoTokens DEF Early
<1>8. f.tgt = s /\ f.processed = << >> /\ stack = <<f>>
  BY <1>0 DEF Items, BlocksInit, s
<1>9. FrameOK(f, document) /\ f.fn = "items"
  BY <1>6, ItemsOK
<1> HIDE DEF f
<1>10. StackOK(<<f>>, document) /\ Len(<<f>>) = 1 /\ <<f>>[1] = f
  BY <1>9, OneFrame
<1>11. /\ StackOK(stack, document) /\ Len(stack) = 1
       /\ Early(stack[1].tgt, document) /\ Early(stack[1].processed, document)
  BY <1>7, <1>8, <1>10
<1> QED
  BY <1>0, <1>1, <1>11 DEF BlocksInv, BlocksInit, RendersOrdinary, Ordinary
-----------------------------------------------------------------------------
(***************************************************************************)
(* The third pass.                                                         *)
(***************************************************************************)
LEMMA AtItemFacts ==
    ASSUME BlocksInv, AtItem
    PROVE  /\ pass = "blocks" /\ outcome = "running" /\ There(Top.i) /\ Top.fn = "items"
           /\ Top.i \in Nat \ {0} /\ Top.i \in 1 .. Len(Top.tgt)
           /\ Within(Top.i + 1, Top.tgt)
<1>1. pass = "blocks" /\ outcome = "running" /\ There(Top.i) /\ Top.fn = "items"
  BY DEF AtItem, Running
<1> QED
  BY <1>1, TopFacts DEF There, Within

\* Where the caller goes on behind a block that ends at i.
LEMMA AfterWithin ==
    ASSUME BlocksInv, NEW i, Within(i, Top.tgt)
    PROVE  Within(After(i), Top.tgt)
<1>1. i \in 1 .. Len(Top.tgt) + 1 /\ Len(Top.tgt) \in Nat
  BY TopFacts DEF Within
<1>2. CASE There(i)
  BY <1>1, <1>2 DEF After, Within, There
<1>3. CASE ~There(i)
  BY <1>1, <1>3 DEF After, Within, There
<1> QED
  BY <1>2, <1>3

LEMMA HeaderStep == BlocksInv /\ Header => BlocksInv'
<1>0. SUFFICES ASSUME BlocksInv, Header PROVE BlocksInv'
  OBVIOUS
<1> DEFINE e == IF IsHashHeader(Text) THEN Top.i ELSE Top.i + 1
<1>1. /\ AtItem /\ IsHeader(Top.i)
      /\ Push(<<Leaf("header", Lined(SubSeq(Top.tgt, Top.i, e)))>>, e + 1)
      /\ UNCHANGED <<document, pass, references, outcome>>
  BY <1>0 DEF Header
<1>2. Within(e + 1, Top.tgt)
  <2>1. CASE IsHashHeader(Text)
    <3>1. e = Top.i
      BY <2>1
    <3> QED
      BY <1>0, <1>1, <3>1, AtItemFacts
  <2>2. CASE ~IsHashHeader(Text)
    <3>1. There(Top.i + 1)
      BY <1>1, <2>2 DEF IsHeader, Markup, Text
    <3>2. e = Top.i + 1
      BY <2>2
    <3> HIDE DEF e
    <3> QED
      BY <1>0, <3>1, <3>2, TopFacts DEF There, Within
  <2> QED
    BY <2>1, <2>2
<1> HIDE DEF e
<1> QED
  BY <1>0, <1>1, <1>2, BlocksPush

LEMMA HorizontalRuleStep == BlocksInv /\ HorizontalRule => BlocksInv'
<1>0. SUFFICES ASSUME BlocksInv, HorizontalRule PROVE BlocksInv'
  OBVIOUS
<1>1. /\ AtItem /\ Push(<<Leaf("hr", Token(Top.i).ns)>>, Top.i + 1)
      /\ UNCHANGED <<document, pass, references, outcome>>
  BY <1>0 DEF HorizontalRule
<1>2. Within(Top.i + 1, Top.tgt)
  BY <1>0, <1>1, AtItemFacts
<1> QED
  BY <1>0, <1>1, <1>2, BlocksPush

LEMMA CodeStep == BlocksInv /\ Code => BlocksInv'
<1>0. SUFFICES ASSUME BlocksInv, Code PROVE BlocksInv'
  OBVIOUS
<1> DEFINE e == CodeEnd(Top.i)
           lines == WithMarkup(SubSeq(Top.tgt, Top.i, e))
<1>1. /\ Undecided /\ AtItem /\ IsCode(Token(Top.i), 4) /\ Markup(Top.i)
      /\ Push(<<Leaf("code", Lined(lines))>>, After(e + 1))
      /\ UNCHANGED <<document, pass, references, outcome>>
  BY <1>0 DEF Code, Undecided
<1>2. Top.i \in Nat \ {0} /\ Top.i \in 1 .. Len(Top.tgt) /\ Len(Top.tgt) \in Nat
  BY <1>0, <1>1, AtItemFacts, TopFacts
<1>3. e \in Top.i .. Len(Top.tgt)
  <2> DEFINE T == {k \in Top.i .. Len(Top.tgt) :
            /\ Markup(k) /\ IsCode(Token(k), 4)
            /\ \A l \in Top.i .. k : IsBlankLine(Token(l)) \/ (Markup(l) /\ IsCode(Token(l), 4))}
  <2>1. Top.i \in T
    <3>1. Top.i \in Top.i .. Len(Top.tgt) /\ \A l \in Top.i .. Top.i : l = Top.i
      BY <1>2
    <3> QED
      BY <1>1, <3>1
  <2>2. T \in SUBSET Nat /\ T # {} /\ \A k \in T : k =< Len(Top.tgt)
    BY <1>2, <2>1
  <2>3. \A k \in T : k \in Top.i .. Len(Top.tgt)
    OBVIOUS
  <2>4. e = Max(T)
    BY DEF CodeEnd
  <2> HIDE DEF T, e
  <2>5. Max(T) \in T
    BY <1>2, <2>2, LargestNat
  <2> QED
    BY <2>3, <2>4, <2>5
<1>4. Within(e + 1, Top.tgt)
  <2> HIDE DEF e
  <2> QED
    BY <1>2, <1>3 DEF Within
<1>5. Within(After(e + 1), Top.tgt)
  BY <1>0, <1>4, AfterWithin
<1> QED
  BY <1>0, <1>1, <1>5, BlocksPush

LEMMA KeepsStep == BlocksInv /\ Keep => BlocksInv'
<1>0. SUFFICES ASSUME BlocksInv, Keep PROVE BlocksInv'
  OBVIOUS
<1>1. /\ AtItem /\ Push(<<Token(Top.i)>>, Top.i + 1)
      /\ UNCHANGED <<document, pass, references, outcome>>
  BY <1>0 DEF Keep
<1>2. Within(Top.i + 1, Top.tgt)
  BY <1>0, <1>1, AtItemFacts
<1> QED
  BY <1>0, <1>1, <1>2, BlocksPush

LEMMA ItemBulleted ==
    ASSUME NEW doc, NEW u, TextOK(u, doc), u # << >>, u[1].m \in Bullets \cup {"1."}
    PROVE  \E n \in DOMAIN doc : Bulleted(doc[n])
<1>1. 1 \in DOMAIN u
  BY DEF TextOK
<1> QED
  BY <1>1 DEF TextOK, Bulleted

\* The frame that parseListBlock starts with.
LEMMA ListFrameOK ==
    ASSUME BlocksInv, NEW i \in Nat \ {0}, There(i), IsItem(Token(i).text)
    PROVE  FrameOK(ListFrame(i), document) /\ ListFrame(i).fn = "list" /\ ListFrame(i).tgt = Top.tgt
<1> DEFINE u == Token(i).text
           f == ListFrame(i)
           first == <<Raw(Content(u), Token(i).ns)>>
<1>1. TextOK(u, document) /\ u \in Seq(Piece) /\ IsItem(u) /\ Token(i) = Top.tgt[i]
  BY TokenFacts DEF TextOK, Token
<1>2. /\ f.fn = "list" /\ f.tgt = Top.tgt /\ f.i = i + 1 /\ f.indent = u[1].sp
      /\ f.subTokens = << >> /\ f.subItemTokens = first /\ IsListFrame(f)
  BY <1>1 DEF ListFrame, IsListFrame
<1>3. TokensOK(first, document)
  BY <1>1, ContentOK, RawOK
<1> HIDE DEF u, f, first
<1>4. Len(u) > 1 /\ u[1].m \in Bullets \cup {"1."}
  BY <1>1 DEF IsItem, IsUnordered, IsOrdered
<1>5. u # << >> /\ u[1] \in Piece
  BY <1>1, <1>4
<1>6. f.indent \in Nat
  BY <1>2, <1>5 DEF Piece
<1>7. \E n \in DOMAIN document : Bulleted(document[n])
  BY <1>1, <1>4, <1>5, ItemBulleted
<1>8. Within(f.i, f.tgt) /\ TokensOK(f.tgt, document)
  BY <1>2, TopFacts DEF Within, There
<1>9. TokensOK(f.subTokens, document) /\ TokensOK(f.subItemTokens, document)
  BY <1>2, <1>3, NoTokens
<1>10. FrameOK(f, document)
  BY <1>2, <1>6, <1>7, <1>8, <1>9 DEF FrameOK
<1> QED
  BY <1>2, <1>10 DEF f

LEMMA StartListStep == BlocksInv /\ StartList => BlocksInv'
<1>0. SUFFICES ASSUME BlocksInv, StartList PROVE BlocksInv'
  OBVIOUS
<1> DEFINE g == ListFrame(Top.i)
<1>1. /\ AtItem /\ IsItem(Token(Top.i).text) /\ stack' = Append(stack, g)
      /\ UNCHANGED <<document, pass, references, outcome>>
  BY <1>0 DEF StartList, Undecided, Text
<1>2. FrameOK(g, document) /\ g.fn = "list" /\ g.tgt = Top.tgt
  BY <1>0, <1>1, AtItemFacts, ListFrameOK
<1> HIDE DEF g
<1>3. Top.i =< Len(Top.tgt)
  BY <1>0, <1>1, AtItemFacts DEF There
<1>4. Over(stack[Len(stack)], g)
  BY <1>2, <1>3 DEF Over, Top
<1>5. StackOK(stack', document)
  BY <1>0, <1>1, <1>2, <1>4, TopFacts, StackPush
<1> QED
  BY <1>0, <1>1, <1>5, AtItemFacts, BlocksStep

\* _processBlocksItems calls itself, and goes on at j.
LEMMA DescendStep ==
    ASSUME BlocksInv, AtItem, UNCHANGED <<document, pass, references, outcome>>,
           \E tok, j : /\ Within(j, Top.tgt) /\ TokensOK(tok.sub, document)
                      /\ stack' = Called(stack, Len(stack), Moved(Top, j), Items(tok, tok.sub))
    PROVE  BlocksInv'
<1>1. PICK tok, j : /\ Within(j, Top.tgt) /\ TokensOK(tok.sub, document)
                    /\ stack' = Called(stack, Len(stack), Moved(Top, j), Items(tok, tok.sub))
  OBVIOUS
<1> DEFINE f == Moved(Top, j)
           g == Items(tok, tok.sub)
<1>2. FrameOK(f, document) /\ StaysOn(f, Top, j) /\ Top.fn = "items"
  BY <1>1, AtItemFacts, TopFacts, ItemsGoOn
<1>3. FrameOK(g, document) /\ g.fn = "items"
  BY <1>1, ItemsOK
<1>4. f.fn = stack[Len(stack)].fn /\ f.tgt = stack[Len(stack)].tgt /\ f.fn = "items"
  BY <1>2 DEF StaysOn, Top
<1> HIDE DEF f, g
<1>5. Over(f, g)
  BY <1>3, <1>4 DEF Over
<1>6. StackOK(stack, document) /\ Len(stack) \in 1 .. Len(stack)
  BY TopFacts
<1>7. StackOK(Called(stack, Len(stack), f, g), document)
  BY <1>2, <1>3, <1>4, <1>5, <1>6, StackCall
<1>8. StackOK(stack', document)
  BY <1>1, <1>7 DEF f, g
<1> QED
  BY <1>8, AtItemFacts, BlocksStep

LEMMA IntoContainerStep == BlocksInv /\ IntoContainer => BlocksInv'
<1>0. SUFFICES ASSUME BlocksInv, IntoContainer PROVE BlocksInv'
  OBVIOUS
<1> DEFINE tok == Token(Top.i)
           j == Top.i + 1
<1>1. /\ AtItem /\ UNCHANGED <<document, pass, references, outcome>>
      /\ stack' = Called(stack, Len(stack), Moved(Top, j), Items(tok, tok.sub))
  BY <1>0 DEF IntoContainer, Descend, Called, Moved, Front
<1>2. Within(j, Top.tgt) /\ TokensOK(tok.sub, document)
  BY <1>0, <1>1, AtItemFacts, TokenFacts
<1> HIDE DEF tok, j
<1> QED
  BY <1>0, <1>1, <1>2, DescendStep

\* The frame below the top.
LEMMA BelowFacts ==
    ASSUME BlocksInv, Len(stack) # 1
    PROVE  /\ Len(stack) - 1 \in 1 .. Len(stack)
           /\ FrameOK(stack[Len(stack) - 1], document)
           /\ Over(stack[Len(stack) - 1], Top)
           /\ StackOK(stack, document)
<1>1. \A n \in Nat \ {0} : n # 1 => n > 1
  OBVIOUS
<1>2. Len(stack) \in Nat \ {0} /\ StackOK(stack, document)
  BY TopFacts
<1>3. Len(stack) > 1
  BY <1>1, <1>2
<1> QED
  BY <1>2, <1>3, StackFacts DEF Top

LEMMA OutOfContainerStep == BlocksInv /\ OutOfContainer => BlocksInv'
<1>0. SUFFICES ASSUME BlocksInv, OutOfContainer PROVE BlocksInv'
  OBVIOUS
<1>1. /\ pass = "blocks" /\ outcome = "running" /\ Top.fn = "items"
      /\ UNCHANGED <<document, pass, references>>
  BY <1>0 DEF OutOfContainer, Running
<1>2. CASE Len(stack) = 1
  <2>1. outcome' = "done" /\ UNCHANGED stack
    BY <1>0, <1>2 DEF OutOfContainer
  <2>2. RendersOrdinary'
    BY <2>1 DEF RendersOrdinary, Ordinary
  <2> QED
    BY <1>0, <1>1, <2>1, <2>2 DEF BlocksInv
<1>3. CASE Len(stack) # 1
  <2> DEFINE m == Len(stack) - 1
             below == stack[m]
             p == Append(below.processed, Container(Top.of.kind, Top.processed))
             f == Processed(below, p)
  <2>1. UNCHANGED outcome /\ stack' = Append(SubSeq(stack, 1, Len(stack) - 2), f)
    BY <1>0, <1>3 DEF OutOfContainer, Processed
  <2>2. m \in 1 .. Len(stack) /\ FrameOK(below, document) /\ Over(below, Top) /\ StackOK(stack, document)
    BY <1>0, <1>3, BelowFacts
  <2>3. below.fn = "items" /\ Within(below.i, below.tgt)
    BY <1>1, <2>2 DEF Over, FrameOK
  <2>4. Len(stack) - 2 = m - 1
    BY <1>0, TopFacts
  <2>5. stack' = Replaced(stack, m, f)
    BY <2>1, <2>4 DEF Replaced
  <2> HIDE DEF m, p
  <2>6. FrameOK(f, document) /\ StaysOn(f, below, below.i)
    BY <2>2, <2>3, ItemsGoOn
  <2>7. f.fn = below.fn /\ f.tgt = below.tgt
    BY <2>6 DEF StaysOn
  <2> HIDE DEF f
  <2>8. StackOK(Replaced(stack, m, f), document)
    BY <2>2, <2>6, <2>7, StackChange
  <2> QED
    BY <1>0, <1>1, <2>1, <2>5, <2>8, BlocksStep
<1> QED
  BY <1>2, <1>3

LEMMA TokensAppend ==
    ASSUME NEW doc, NEW s, NEW t, TokensOK(s, doc), TokensOK(<<t>>, doc)
    PROVE  TokensOK(Append(s, t), doc)
<1>1. PICK T : s \in Seq(T)
  BY TokensType
<1>2. Append(s, t) = s \o <<t>>
  <2>1. s \in Seq(T \cup {t}) /\ t \in T \cup {t}
    BY <1>1
  <2> QED
    BY <2>1
<1> QED
  BY <1>2, TokensConcat

\* What parseListBlock is in.
LEMMA InListFacts ==
    ASSUME BlocksInv, InList
    PROVE  /\ pass = "blocks" /\ outcome = "running" /\ ListOver(Top, Top.tgt, document)
           /\ TokensOK(Top.subTokens, document) /\ TokensOK(Top.subItemTokens, document)
           /\ Top.indent \in Nat /\ Top.fn = "list"
           /\ \E n \in DOMAIN document : Bulleted(document[n])
<1>1. pass = "blocks" /\ outcome = "running" /\ Top.fn = "list"
  BY DEF InList, Running
<1>2. FrameOK(Top, document)
  BY TopFacts
<1>3. ~IsItemsFrame(Top)
  BY <1>1 DEF IsItemsFrame
<1> QED
  BY <1>1, <1>2, <1>3 DEF FrameOK, ListOver

LEMMA FlushedOK ==
    ASSUME BlocksInv, InList
    PROVE  TokensOK(Flushed(Top), document)
<1>1. CASE Top.subItemTokens = << >>
  BY <1>1, InListFacts DEF Flushed
<1>2. CASE Top.subItemTokens # << >>
  <2>1. TokensOK(<<Container("item", Top.subItemTokens)>>, document)
    BY InListFacts, ContainerOK
  <2>2. TokensOK(Append(Top.subTokens, Container("item", Top.subItemTokens)), document)
    BY <2>1, InListFacts, TokensAppend
  <2> QED
    BY <1>2, <2>2 DEF Flushed
<1> QED
  BY <1>1, <1>2

\* The list ends, and the frame below goes on.
LEMMA EndListStep ==
    ASSUME BlocksInv, InList, \E i : Within(i, Top.tgt) /\ EndList(i)
    PROVE  BlocksInv'
<1>1. PICK i : Within(i, Top.tgt) /\ EndList(i)
  OBVIOUS
<1> DEFINE m == Len(stack) - 1
           below == stack[m]
           rest == SubSeq(stack, 1, Len(stack) - 2)
           list == Container("list", Flushed(Top))
<1>2. UNCHANGED <<document, pass, references, outcome>>
  BY <1>1 DEF EndList
<1>3. Len(stack) # 1
  <2>1. stack[1].fn = "items"
    BY TopFacts, StackFacts
  <2> QED
    BY <2>1, InListFacts DEF Top
<1>4. m \in 1 .. Len(stack) /\ FrameOK(below, document) /\ Over(below, Top) /\ StackOK(stack, document)
  BY <1>3, BelowFacts
<1>5. Len(stack) - 2 = m - 1
  BY TopFacts
<1>6. below.tgt = Top.tgt /\ (below.fn = "items" => below.i =< Len(below.tgt))
  BY <1>4, InListFacts DEF Over
<1>7. TokensOK(list.sub, document) /\ TokensOK(<<list>>, document)
  <2>1. list.sub = Flushed(Top)
    BY DEF Container
  <2> QED
    BY <2>1, FlushedOK, InListFacts, ContainerOK
<1>8. ASSUME NEW f, FrameOK(f, document), f.fn = below.fn, f.tgt = below.tgt,
             stack' = Append(rest, f)
      PROVE  BlocksInv'
  <2>1. stack' = Replaced(stack, m, f)
    BY <1>5, <1>8 DEF Replaced
  <2> HIDE DEF m
  <2>2. StackOK(Replaced(stack, m, f), document)
    BY <1>4, <1>8, StackChange
  <2> QED
    BY <1>2, <2>1, <2>2, InListFacts, BlocksStep
<1>9. CASE below.fn = "list"
  <2> DEFINE s == Append(below.subItemTokens, list)
             f == Grown(below, s, i)
  <2>1. stack' = Append(rest, f)
    BY <1>1, <1>9 DEF EndList, Grown
  <2>2. ListOver(below, below.tgt, document) /\ TokensOK(below.subItemTokens, document)
    <3>1. ~IsItemsFrame(below)
      BY <1>9 DEF IsItemsFrame
    <3> QED
      BY <1>4, <1>9, <3>1 DEF FrameOK, ListOver
  <2> HIDE DEF m, list
  <2>3. TokensOK(s, document)
    BY <1>7, <2>2, TokensAppend
  <2> HIDE DEF s
  <2>4. Within(i, below.tgt)
    BY <1>1, <1>6
  <2>5. ListOver(f, below.tgt, document)
    BY <2>2, <2>3, <2>4, ListGoesOn
  <2>6. FrameOK(f, document) /\ f.fn = below.fn /\ f.tgt = below.tgt
    BY <1>9, <2>5 DEF ListOver
  <2> QED
    BY <1>8, <2>1, <2>6
<1>10. CASE below.fn # "list"
  <2>0. below.fn = "items"
    <3>1. IsItemsFrame(below) \/ IsListFrame(below)
      BY <1>4 DEF FrameOK
    <3> QED
      BY <1>10, <3>1 DEF IsItemsFrame, IsListFrame
  <2>1. CASE Top.itemCount > 1 \/ Top.indent # 0
    <3> DEFINE f == Moved(below, After(i))
               g == Items(list, list.sub)
    <3>1. stack' = rest \o <<f, g>>
      BY <1>1, <1>10, <2>1 DEF EndList, Moved
    <3>2. stack' = Called(stack, m, f, g)
      BY <1>5, <3>1 DEF Called
    <3> HIDE DEF m, list
    <3>3. Within(After(i), below.tgt)
      BY <1>1, <1>6, AfterWithin
    <3>4. FrameOK(f, document) /\ StaysOn(f, below, After(i))
      BY <1>4, <2>0, <3>3, ItemsGoOn
    <3>5. FrameOK(g, document) /\ g.fn = "items"
      BY <1>7, ItemsOK
    <3>6. f.fn = stack[m].fn /\ f.tgt = stack[m].tgt /\ f.fn = "items"
      BY <2>0, <3>4 DEF StaysOn
    <3> HIDE DEF f, g
    <3>7. Over(f, g)
      BY <3>5, <3>6 DEF Over
    <3>8. StackOK(Called(stack, m, f, g), document)
      BY <1>4, <3>4, <3>5, <3>6, <3>7, StackCall
    <3> QED
      BY <1>2, <3>2, <3>8, InListFacts, BlocksStep
  <2>2. CASE ~(Top.itemCount > 1 \/ Top.indent # 0)
    <3> DEFINE p == Append(below.processed, below.tgt[below.i])
               j == below.i + 1
               f == Pushed(below, p, j)
    <3>1. stack' = Append(rest, f)
      BY <1>1, <1>10, <2>2 DEF EndList, FalseAlarm, Pushed
    <3>2. Within(j, below.tgt)
      <4>1. below.i \in 1 .. Len(below.tgt) + 1 /\ Len(below.tgt) \in Nat
        BY <1>4, <1>6, TopFacts DEF FrameOK, Within
      <4> HIDE DEF below
      <4> QED
        BY <1>6, <2>0, <4>1 DEF Within
    <3> HIDE DEF m, p, j
    <3>3. FrameOK(f, document) /\ StaysOn(f, below, j)
      BY <1>4, <2>0, <3>2, ItemsGoOn
    <3>4. f.fn = below.fn /\ f.tgt = below.tgt
      BY <3>3 DEF StaysOn
    <3> QED
      BY <1>8, <3>1, <3>3, <3>4
  <2> QED
    BY <2>1, <2>2
<1> QED
  BY <1>9, <1>10

LEMMA ListKeepsOn ==
    ASSUME BlocksInv, InList, UNCHANGED <<document, pass, references, outcome>>,
           \E f : ListOver(f, Top.tgt, document) /\ stack' = Replaced(stack, Len(stack), f)
    PROVE  BlocksInv'
<1>1. PICK f : ListOver(f, Top.tgt, document) /\ stack' = Replaced(stack, Len(stack), f)
  OBVIOUS
<1>2. FrameOK(f, document) /\ f.fn = stack[Len(stack)].fn /\ f.tgt = stack[Len(stack)].tgt
  BY <1>1, InListFacts DEF ListOver, Top
<1>3. StackOK(stack, document) /\ Len(stack) \in 1 .. Len(stack)
  BY TopFacts
<1>4. StackOK(Replaced(stack, Len(stack), f), document)
  BY <1>2, <1>3, StackChange
<1> QED
  BY <1>1, <1>4, InListFacts, BlocksStep

LEMMA AddStep ==
    ASSUME BlocksInv, InList,
           \E toks, j : TokensOK(toks, document) /\ Within(j, Top.tgt) /\ Add(toks, j)
    PROVE  BlocksInv'
<1>1. PICK toks, j : TokensOK(toks, document) /\ Within(j, Top.tgt) /\ Add(toks, j)
  OBVIOUS
<1> DEFINE s == Top.subItemTokens \o toks
           f == Grown(Top, s, j)
<1>2. stack' = Replaced(stack, Len(stack), f) /\ UNCHANGED <<document, pass, references, outcome>>
  BY <1>1 DEF Add, Change, Replaced, Front, Grown
<1>3. TokensOK(s, document)
  BY <1>1, InListFacts, TokensConcat
<1> HIDE DEF s
<1>4. ListOver(f, Top.tgt, document)
  BY <1>1, <1>3, InListFacts, ListGoesOn
<1> QED
  BY <1>2, <1>4, ListKeepsOn

LEMMA NextItemStep ==
    ASSUME BlocksInv, InList, NEW i \in Nat \ {0}, There(i), IsItem(Token(i).text), NextItem(i)
    PROVE  BlocksInv'
<1> DEFINE s == <<Raw(Content(Token(i).text), Token(i).ns)>>
           u == Flushed(Top)
           c == Top.itemCount + 1
           j == i + 1
           f == NextStarted(Top, u, c, j, s)
<1>1. stack' = Replaced(stack, Len(stack), f) /\ UNCHANGED <<document, pass, references, outcome>>
  BY DEF NextItem, Change, Replaced, Front, NextStarted
<1>2. TokensOK(s, document) /\ TokensOK(u, document)
  BY TokenFacts, ContentOK, RawOK, FlushedOK
<1>3. Within(j, Top.tgt)
  BY TopFacts DEF Within, There
<1> HIDE DEF s, u, c, j
<1>4. ListOver(f, Top.tgt, document)
  BY <1>2, <1>3, InListFacts, ListGoesOn
<1> QED
  BY <1>1, <1>4, ListKeepsOn

LEMMA SublistStep ==
    ASSUME BlocksInv, InList, NEW i \in Nat \ {0}, There(i),
           StartsSublist(Token(i).text, Top.indent), Sublist(i)
    PROVE  BlocksInv'
<1>1. CASE IsItem(Token(i).text)
  <2> DEFINE c == Top.itemCount + 1
             f == Recounted(Top, c, i)
             g == ListFrame(i)
  <2>1. stack' = Called(stack, Len(stack), f, g) /\ UNCHANGED <<document, pass, references, outcome>>
    BY <1>1 DEF Sublist, Called, Front, Recounted
  <2>2. Within(i, Top.tgt)
    BY TopFacts DEF Within, There
  <2> HIDE DEF c
  <2>3. ListOver(f, Top.tgt, document)
    BY <2>2, NoTokens, InListFacts, ListGoesOn
  <2>4. FrameOK(g, document) /\ g.fn = "list" /\ g.tgt = Top.tgt
    BY <1>1, ListFrameOK
  <2>5. FrameOK(f, document) /\ f.fn = stack[Len(stack)].fn /\ f.tgt = stack[Len(stack)].tgt
        /\ f.fn = "list" /\ f.tgt = Top.tgt
    BY <2>3, InListFacts DEF ListOver, Top
  <2> HIDE DEF f, g
  <2>6. Over(f, g)
    BY <2>4, <2>5 DEF Over
  <2>7. StackOK(stack, document) /\ Len(stack) \in 1 .. Len(stack)
    BY TopFacts
  <2>8. StackOK(Called(stack, Len(stack), f, g), document)
    BY <2>4, <2>5, <2>6, <2>7, StackCall
  <2> QED
    BY <2>1, <2>8, InListFacts, BlocksStep
<1>2. CASE ~IsItem(Token(i).text)
  <2> DEFINE u == Token(i).text
  <2>1. TextOK(u, document) /\ u \in Seq(Piece)
    BY TokenFacts DEF TextOK
  <2>2. Len(u) > 1 /\ u[1].m \in Bullets \cup {"1."} /\ u[2].sp > 0
    BY DEF StartsSublist
  <2>3. ~IsUnordered(u) /\ ~IsOrdered(u)
    BY <1>2 DEF IsItem
  <2> HIDE DEF u
  <2>4. u[1].m \in Bullets
    BY <2>2, <2>3 DEF IsOrdered
  <2>5. u[2] \in Piece /\ Len(u) \in Nat
    BY <2>1, <2>2
  <2>6. u[2].sp \in Nat
    BY <2>5 DEF Piece
  <2>7. u[2].m \in Starred /\ ~(u[2].sp > 1)
    <3>1. CASE u[2].m \in Starred
      BY <2>2, <2>3, <2>4, <3>1 DEF IsUnordered
    <3>2. CASE u[2].m \notin Starred
      BY <2>2, <2>3, <2>4, <3>2 DEF IsUnordered
    <3> QED
      BY <3>1, <3>2
  <2>8. u[2].sp = 1
    BY <2>2, <2>6, <2>7
  <2>9. NoItem(u)
    <3>1. \E k \in 1 .. Len(u) - 1 : k = 1
      BY <2>2, <2>5
    <3>2. PICK k \in 1 .. Len(u) - 1 : k = 1 /\ k + 1 = 2
      BY <3>1
    <3> QED
      BY <2>2, <2>7, <2>8, <3>2 DEF NoItem
  <2>10. \E n \in DOMAIN document : NoItem(document[n])
    BY <2>1, <2>9 DEF TextOK
  <2>11. outcome' = "assert" /\ UNCHANGED <<document, pass, stack, references>>
    BY <1>2 DEF Sublist, Fail
  <2>12. RendersOrdinary'
    BY <2>10, <2>11 DEF RendersOrdinary, Ordinary
  <2> QED
    BY <2>11, <2>12 DEF BlocksInv
<1> QED
  BY <1>1, <1>2

\* The code of an item ends behind where it is looked for.
LEMMA ItemCodeEnds ==
    ASSUME BlocksInv, NEW i \in 1 .. Len(Top.tgt) + 1
    PROVE  ItemCodeEnd(i) \in i .. Len(Top.tgt) + 1
<1> DEFINE N == Len(Top.tgt) + 1
           On(k) == CodeGoesOn(k)
           Turn(f, k) == IF On(k) = k THEN k ELSE f[On(k)]
           Ends(m, f) == \A k \in N - m + 1 .. N : f[k] = Turn(f, k) /\ f[k] \in k .. N
           T == {m \in Nat : \E f : Ends(m, f)}
<1>0. N \in Nat /\ Len(Top.tgt) \in Nat
  BY TopFacts
<1>1. ASSUME NEW k \in 1 .. N PROVE On(k) \in k .. N
  <2>1. k \in Nat /\ k =< N /\ (There(k) => k + 1 =< N) /\ (There(k + 1) => k + 2 =< N)
    BY <1>0 DEF There
  <2>2. On(k) = k \/ (There(k) /\ On(k) = k + 1) \/ (There(k + 1) /\ On(k) = k + 2)
    BY DEF CodeGoesOn
  <2> HIDE DEF On, N
  <2> QED
    BY <1>0, <2>1, <2>2
<1> HIDE DEF On, N
<1>2. 0 \in T
  <2>1. Ends(0, << >>)
    BY <1>0
  <2> QED
    BY <2>1
<1>3. ASSUME NEW m \in 0 .. N - 1, m \in T PROVE m + 1 \in T
  <2>1. PICK f : Ends(m, f)
    BY <1>3
  <2> DEFINE j == N - m
             g == [k \in j .. N |-> IF k = j THEN Turn(f, j) ELSE f[k]]
  <2>2. j \in 1 .. N /\ N - m + 1 = j + 1 /\ N - (m + 1) + 1 = j /\ j \in j .. N
    BY <1>0
  <2>3. \A k \in j .. N : g[k] = IF k = j THEN Turn(f, j) ELSE f[k]
    OBVIOUS
  <2> HIDE DEF g, j
  <2>4. \A k \in j + 1 .. N : k \in j .. N /\ k \in 1 .. N /\ k # j
    BY <1>0, <2>2
  <2>5. \A k \in j + 1 .. N : g[k] = f[k] /\ f[k] = Turn(f, k) /\ f[k] \in k .. N
    BY <2>1, <2>2, <2>3, <2>4
  <2>6. ASSUME NEW k \in j .. N PROVE g[k] = Turn(f, k)
    BY <2>3, <2>5, <1>0, <2>2
  <2>7. ASSUME NEW k \in j .. N PROVE On(k) = k \/ On(k) \in j + 1 .. N
    <3>1. k \in 1 .. N
      BY <1>0, <2>2
    <3>2. On(k) \in k .. N
      BY <1>1, <3>1
    <3> QED
      BY <1>0, <2>2, <3>2
  <2>8. ASSUME NEW k \in j .. N PROVE Turn(f, k) = Turn(g, k)
    BY <2>5, <2>7
  <2>9. ASSUME NEW k \in j .. N PROVE g[k] \in k .. N
    <3>1. CASE On(k) = k
      BY <1>0, <2>2, <2>6, <3>1
    <3>2. CASE On(k) # k
      <4>1. On(k) \in j + 1 .. N /\ On(k) \in k .. N
        <5>1. k \in 1 .. N
          BY <1>0, <2>2
        <5> QED
          BY <1>1, <2>7, <3>2, <5>1
      <4>2. g[k] = f[On(k)] /\ f[On(k)] \in On(k) .. N
        BY <2>5, <2>6, <3>2, <4>1
      <4> QED
        BY <1>0, <2>2, <4>1, <4>2
    <3> QED
      BY <3>1, <3>2
  <2>10. \A k \in j .. N : g[k] = Turn(g, k) /\ g[k] \in k .. N
    <3> HIDE DEF Turn
    <3> QED
      BY <2>6, <2>8, <2>9
  <2>11. Ends(m + 1, g) /\ m + 1 \in Nat
    BY <2>2, <2>10
  <2> QED
    BY <2>11
<1> HIDE DEF T
<1>4. N \in T
  <2>1. \A m \in 0 .. N : m \in T
    BY <1>0, <1>2, <1>3, InductionUpTo
  <2> QED
    BY <1>0, <2>1
<1>5. PICK f : \A k \in 1 .. N : f[k] = Turn(f, k) /\ f[k] \in k .. N
  <2>1. PICK f : Ends(N, f)
    BY <1>4 DEF T
  <2> QED
    BY <1>0, <2>1
<1> DEFINE g == [k \in 1 .. N |-> f[k]]
<1>6. \A k \in 1 .. N : g[k] = f[k]
  OBVIOUS
<1>7. \E e : e = [k \in 1 .. N |-> Turn(e, k)]
  <2> HIDE DEF g
  <2>1. \A k \in 1 .. N : On(k) \in 1 .. N
    <3> TAKE k \in 1 .. N
    <3>1. On(k) \in k .. N
      BY <1>1
    <3> QED
      BY <1>0, <3>1
  <2>2. \A k \in 1 .. N : f[k] = Turn(g, k)
    BY <1>5, <1>6, <2>1
  <2> HIDE DEF Turn
  <2>3. g = [k \in 1 .. N |-> Turn(g, k)]
    BY <2>2 DEF g
  <2> QED
    BY <2>3
<1> DEFINE end == CHOOSE e : e = [k \in 1 .. N |-> Turn(e, k)]
<1>8. ItemCodeEnd(i) = end[i]
  BY DEF ItemCodeEnd, On, N
<1>9. end = [k \in 1 .. N |-> Turn(end, k)]
  BY <1>7
<1> HIDE DEF end
<1>10. \A k \in 1 .. N : end[k] = Turn(end, k)
  <2> HIDE DEF Turn
  <2> QED
    BY <1>9
<1> DEFINE U == {m \in Nat : \A k \in N - m + 1 .. N : end[k] \in k .. N}
<1>11. 0 \in U
  BY <1>0
<1>12. ASSUME NEW m \in 0 .. N - 1, m \in U PROVE m + 1 \in U
  <2>1. PICK j \in 1 .. N : j = N - m /\ N - m + 1 = j + 1 /\ N - (m + 1) + 1 = j
    <3>1. N - m \in 1 .. N /\ N - (m + 1) + 1 = N - m
      BY <1>0
    <3> QED
      BY <3>1
  <2>2. \A k \in j + 1 .. N : end[k] \in k .. N
    BY <1>12, <2>1
  <2>3. end[j] \in j .. N
    <3>1. CASE On(j) = j
      BY <1>0, <1>10, <3>1
    <3>2. CASE On(j) # j
      <4>1. On(j) \in j .. N
        BY <1>1
      <4>2. On(j) \in j + 1 .. N
        BY <1>0, <3>2, <4>1
      <4>3. end[j] = end[On(j)] /\ end[On(j)] \in On(j) .. N
        BY <1>10, <2>2, <3>2, <4>2
      <4> QED
        BY <1>0, <4>2, <4>3
    <3> QED
      BY <3>1, <3>2
  <2>4. \A k \in j .. N : k = j \/ k \in j + 1 .. N
    BY <1>0
  <2>5. \A k \in j .. N : end[k] \in k .. N
    BY <2>2, <2>3, <2>4
  <2> QED
    BY <2>1, <2>5
<1> HIDE DEF U
<1>13. N \in U
  <2>1. \A m \in 0 .. N : m \in U
    BY <1>0, <1>11, <1>12, InductionUpTo
  <2> QED
    BY <1>0, <2>1
<1>14. i \in N - N + 1 .. N
  BY <1>0 DEF N
<1>15. end[i] \in i .. N
  BY <1>13, <1>14 DEF U
<1> QED
  BY <1>8, <1>15 DEF N

LEMMA CodeAfterBlankStep == BlocksInv /\ CodeAfterBlank => BlocksInv'
<1>0. SUFFICES ASSUME BlocksInv, CodeAfterBlank PROVE BlocksInv'
  OBVIOUS
<1> DEFINE i == Top.i + 1
           e == ItemCodeEnd(i + 1)
           lines == WithText(SubSeq(Top.tgt, i, e - 1))
           s == Top.subItemTokens \o <<BlankLine, Leaf("code", Lined(lines))>>
           c == Top.itemCount + 1
           f == Coded(Top, c, e, s)
           bad == There(e) /\ IsBlankLine(Token(e)) /\ (~There(e + 1) \/ ~HasText(Token(e + 1)))
<1>1. /\ InList /\ There(i) /\ CodeInItem(Token(i).text)
      /\ IF bad THEN Fail("undefined")
         ELSE /\ Change([Top EXCEPT !.itemCount = @ + 1, !.i = e,
                            !.subItemTokens = @ \o <<BlankLine, Leaf("code", Lined(lines))>>])
              /\ UNCHANGED <<document, pass, references, outcome, tokens>>
  BY <1>0 DEF CodeAfterBlank, AfterBlank, AtBlank, ListAt, Line
<1> HIDE DEF bad
<1>2. CASE bad
  <2> DEFINE u == Token(i).text
  <2>1. i \in Nat \ {0}
    BY <1>0, TopFacts
  <2>2. TextOK(u, document) /\ u \in Seq(Piece)
    BY <1>0, <1>1, <2>1, TokenFacts DEF TextOK
  <2>3. u # << >> /\ u[1].sp >= Top.indent + 8
    BY <1>1 DEF CodeInItem
  <2>4. outcome' = "undefined" /\ UNCHANGED <<document, pass, stack, references>>
    BY <1>1, <1>2 DEF Fail
  <2> HIDE DEF u
  <2>5. 1 \in DOMAIN u /\ u[1] \in Piece
    BY <2>2, <2>3
  <2>6. u[1].sp >= 8
    <3>1. Top.indent \in Nat /\ u[1].sp \in Nat
      BY <1>0, <1>1, <2>5, InListFacts DEF Piece
    <3> QED
      BY <2>3, <3>1
  <2>7. \E n \in DOMAIN document : Deep(document[n])
    BY <2>2, <2>5, <2>6 DEF TextOK, Deep
  <2>8. \E n \in DOMAIN document : Bulleted(document[n])
    BY <1>0, <1>1, InListFacts
  <2>9. RendersOrdinary'
    BY <2>4, <2>7, <2>8 DEF RendersOrdinary, Ordinary, Deep, Bulleted
  <2> QED
    BY <1>0, <2>4, <2>9 DEF BlocksInv
<1>3. CASE ~bad
  <2>1. stack' = Replaced(stack, Len(stack), f) /\ UNCHANGED <<document, pass, references, outcome>>
    BY <1>1, <1>3 DEF Change, Replaced, Front, Coded
  <2>2. Len(Top.tgt) \in Nat /\ Top.i \in Nat \ {0}
    BY <1>0, TopFacts
  <2>3. Within(e, Top.tgt)
    <3>1. i + 1 \in 1 .. Len(Top.tgt) + 1
      BY <1>1, <2>2 DEF There
    <3>2. e \in i + 1 .. Len(Top.tgt) + 1
      BY <1>0, <3>1, ItemCodeEnds
    <3> HIDE DEF e
    <3> QED
      BY <2>2, <3>2 DEF Within
  <2> HIDE DEF e
  <2>4. TokensOK(s, document)
    <3> DEFINE a == BlankLine
               b == Leaf("code", Lined(lines))
    <3>1. TokensOK(<<a>>, document) /\ TokensOK(<<b>>, document)
      BY BlankLineOK, LeafOK
    <3> HIDE DEF a, b
    <3>2. TokensOK(<<a, b>>, document)
      BY <3>1, TokensTwo
    <3>3. TokensOK(Top.subItemTokens \o <<a, b>>, document)
      BY <1>0, <1>1, <3>2, InListFacts, TokensConcat
    <3> QED
      BY <3>3 DEF a, b
  <2> HIDE DEF s, c
  <2>5. ListOver(f, Top.tgt, document)
    BY <1>0, <1>1, <2>3, <2>4, NoTokens, InListFacts, ListGoesOn
  <2> QED
    BY <1>0, <1>1, <2>1, <2>5, ListKeepsOn
<1> QED
  BY <1>2, <1>3
-----------------------------------------------------------------------------
(***************************************************************************)
(* QuoteFrom, one line at a time.  What is at k follows from what is       *)
(* behind it, so it is shown from the last line on.                        *)
(***************************************************************************)
QuoteRaw(t, level) == Raw(Unquoted(t.text, level), t.ns)
QuoteLine(t, level) ==
    IF IsBlankText(QuoteRaw(t, level).text)
    THEN Blank(QuoteRaw(t, level).text, QuoteRaw(t, level).ns) ELSE QuoteRaw(t, level)
QuoteStop(k) == [end |-> k, sub |-> << >>, none |-> FALSE]
QuoteNone(k) == [QuoteStop(k) EXCEPT !.none = TRUE]
QuoteWith(sub, r) == [r EXCEPT !.sub = sub \o @]

QuoteTurn(toks, level, q, k) ==
    IF k > Len(toks) THEN QuoteStop(k)
    ELSE IF IsBlankLine(toks[k])
    THEN IF k = Len(toks) THEN QuoteStop(k + 1)
         ELSE IF ~HasText(toks[k + 1]) THEN QuoteNone(k)
         ELSE IF Continues(toks[k + 1].text, level)
         THEN QuoteWith(<<BlankLine, QuoteRaw(toks[k + 1], level)>>, q[k + 2])
         ELSE QuoteStop(k)
    ELSE IF ~HasText(toks[k]) THEN QuoteNone(k)
    ELSE IF Continues(toks[k].text, level)
    THEN QuoteWith(<<QuoteLine(toks[k], level)>>, q[k + 1]) ELSE QuoteStop(k)

LEMMA QuoteIsTurns ==
    ASSUME NEW level
    PROVE  QuoteFrom(level) =
             CHOOSE q : q = [k \in 1 .. Len(Top.tgt) + 1 |-> QuoteTurn(Top.tgt, level, q, k)]
BY DEF QuoteFrom, QuoteTurn, QuoteRaw, QuoteLine, QuoteStop, QuoteNone, QuoteWith

LEMMA QuoteTurnSame ==
    ASSUME NEW toks, NEW level, NEW k, NEW q, NEW r,
           k > Len(toks) \/ q[k + 1] = r[k + 1],
           k > Len(toks) \/ k = Len(toks) \/ q[k + 2] = r[k + 2]
    PROVE  QuoteTurn(toks, level, q, k) = QuoteTurn(toks, level, r, k)
BY DEF QuoteTurn

LEMMA QuoteExists ==
    ASSUME NEW toks, Len(toks) \in Nat, NEW level
    PROVE  \E q : q = [k \in 1 .. Len(toks) + 1 |-> QuoteTurn(toks, level, q, k)]
<1> DEFINE N == Len(toks) + 1
           Turn(q, k) == QuoteTurn(toks, level, q, k)
           From(m, q) == \A k \in N - m + 1 .. N : q[k] = Turn(q, k)
           T == {m \in Nat : \E q : From(m, q)}
<1>0. N \in Nat
  OBVIOUS
<1>s. ASSUME NEW k \in 1 .. N, NEW q, NEW r, \A l \in k + 1 .. N : q[l] = r[l]
      PROVE  Turn(q, k) = Turn(r, k)
  <2>1. k > Len(toks) \/ k + 1 \in k + 1 .. N
    OBVIOUS
  <2>2. k > Len(toks) \/ k = Len(toks) \/ k + 2 \in k + 1 .. N
    OBVIOUS
  <2> HIDE DEF N
  <2>3. k > Len(toks) \/ q[k + 1] = r[k + 1]
    BY <1>s, <2>1
  <2>4. k > Len(toks) \/ k = Len(toks) \/ q[k + 2] = r[k + 2]
    BY <1>s, <2>2
  <2> QED
    BY <2>3, <2>4, QuoteTurnSame
<1> HIDE DEF Turn, N
<1>1. 0 \in T
  <2>1. From(0, << >>)
    BY <1>0
  <2> QED
    BY <2>1
<1>2. ASSUME NEW m \in 0 .. N - 1, m \in T PROVE m + 1 \in T
  <2>1. PICK q : From(m, q)
    BY <1>2
  <2> DEFINE j == N - m
             r == [k \in j .. N |-> IF k = j THEN Turn(q, j) ELSE q[k]]
  <2>2. j \in 1 .. N /\ N - m + 1 = j + 1 /\ N - (m + 1) + 1 = j
    BY <1>0
  <2>3. \A k \in j .. N : r[k] = IF k = j THEN Turn(q, j) ELSE q[k]
    OBVIOUS
  <2> HIDE DEF r, j
  <2>4. \A k \in j + 1 .. N : q[k] = r[k] /\ k \in 1 .. N /\ k \in j .. N
    BY <1>0, <2>2, <2>3
  <2>5. \A k \in j .. N : Turn(q, k) = Turn(r, k)
    <3> TAKE k \in j .. N
    <3>1. k \in 1 .. N /\ \A l \in k + 1 .. N : l \in j + 1 .. N
      BY <1>0, <2>2
    <3>2. \A l \in k + 1 .. N : q[l] = r[l]
      BY <2>4, <3>1
    <3> QED
      BY <1>s, <3>1, <3>2
  <2>6. \A k \in j .. N : r[k] = Turn(r, k)
    <3> TAKE k \in j .. N
    <3>1. CASE k = j
      BY <2>3, <2>5, <3>1
    <3>2. CASE k # j
      <4>1. k \in j + 1 .. N
        BY <1>0, <2>2, <3>2
      <4>2. q[k] = Turn(q, k)
        BY <2>1, <2>2, <4>1
      <4> QED
        BY <2>4, <2>5, <4>1, <4>2
    <3> QED
      BY <3>1, <3>2
  <2>7. From(m + 1, r) /\ m + 1 \in Nat
    BY <2>2, <2>6
  <2> QED
    BY <2>7
<1> HIDE DEF T
<1>3. N \in T
  <2>1. \A m \in 0 .. N : m \in T
    BY <1>0, <1>1, <1>2, InductionUpTo
  <2> QED
    BY <1>0, <2>1
<1>4. PICK q : From(N, q)
  BY <1>3 DEF T
<1> DEFINE r == [k \in 1 .. N |-> q[k]]
<1>5. \A k \in 1 .. N : q[k] = r[k] /\ q[k] = Turn(q, k)
  BY <1>0, <1>4
<1>6. \A k \in 1 .. N : q[k] = Turn(r, k)
  <2> TAKE k \in 1 .. N
  <2>1. \A l \in k + 1 .. N : l \in 1 .. N
    BY <1>0
  <2> HIDE DEF r
  <2>2. \A l \in k + 1 .. N : q[l] = r[l]
    BY <1>5, <2>1
  <2>3. Turn(q, k) = Turn(r, k)
    BY <1>s, <2>2
  <2> QED
    BY <1>5, <2>3
<1>7. r = [k \in 1 .. N |-> Turn(r, k)]
  <2> DEFINE t == [k \in 1 .. N |-> Turn(r, k)]
  <2>1. \A k \in 1 .. N : t[k] = r[k]
    BY <1>5, <1>6
  <2> QED
    BY <1>6
<1> QED
  BY <1>7 DEF N, Turn

\* What a quote may be made of, up to where it ends.
Textless(doc) == (\E n \in DOMAIN doc : IsHtml(doc[n])) \/ (\E n \in DOMAIN doc : Bulleted(doc[n]))
QuoteOK(r, toks, doc) ==
    /\ r = [end |-> r.end, sub |-> r.sub, none |-> r.none]
    /\ Within(r.end, toks) /\ TokensOK(r.sub, doc)
    /\ r.none => Textless(doc)

LEMMA NotText ==
    ASSUME NEW doc, NEW t, TokenOK(t, doc), ~HasText(t)
    PROVE  Textless(doc)
<1>1. t.kind \in {"html", "list", "item"}
  BY DEF TokenOK, HasText
<1> QED
  BY <1>1 DEF TokenOK, Textless

LEMMA QuoteEndsOK ==
    ASSUME NEW doc, NEW toks, NEW k, Within(k, toks)
    PROVE  QuoteOK(QuoteStop(k), toks, doc) /\ (Textless(doc) => QuoteOK(QuoteNone(k), toks, doc))
<1> DEFINE a == QuoteStop(k)
           b == QuoteNone(k)
<1>1. /\ a = [end |-> a.end, sub |-> a.sub, none |-> a.none]
      /\ a.end = k /\ a.sub = << >> /\ a.none = FALSE
  BY DEF QuoteStop
<1> HIDE DEF a
<1>2. b = [end |-> b.end, sub |-> b.sub, none |-> b.none] /\ b.end = k /\ b.sub = << >>
  <2>1. b = [a EXCEPT !.none = TRUE]
    BY DEF QuoteNone, a
  <2>2. b.end = a.end /\ b.sub = a.sub
    BY <1>1, <2>1
  <2>3. b = [end |-> b.end, sub |-> b.sub, none |-> b.none]
    BY <1>1, <2>1
  <2> QED
    BY <1>1, <2>2, <2>3
<1> HIDE DEF b
<1>3. QuoteOK(a, toks, doc) /\ (Textless(doc) => QuoteOK(b, toks, doc))
  BY <1>1, <1>2, NoTokens DEF QuoteOK
<1> QED
  BY <1>3 DEF a, b

LEMMA QuoteWithOK ==
    ASSUME NEW doc, NEW toks, NEW r, QuoteOK(r, toks, doc), NEW s, TokensOK(s, doc)
    PROVE  QuoteOK(QuoteWith(s, r), toks, doc)
<1> DEFINE v == s \o r.sub
           a == [r EXCEPT !.sub = v]
<1>1. TokensOK(v, doc)
  BY TokensConcat DEF QuoteOK
<1> HIDE DEF v
<1>2. /\ a = [end |-> a.end, sub |-> a.sub, none |-> a.none]
      /\ a.end = r.end /\ a.sub = v /\ a.none = r.none
  BY DEF QuoteOK
<1>3. QuoteWith(s, r) = a
  BY DEF QuoteWith, v
<1> HIDE DEF a
<1> QED
  BY <1>1, <1>2, <1>3 DEF QuoteOK

LEMMA QuoteLineOK ==
    ASSUME NEW doc, NEW t, TextOK(t.text, doc), NEW level \in 0 .. Len(t.text), Hollow(doc)
    PROVE  TokensOK(<<QuoteLine(t, level)>>, doc) /\ TokensOK(<<QuoteRaw(t, level)>>, doc)
<1> DEFINE u == Unquoted(t.text, level)
<1>1. TextOK(u, doc)
  BY UnquotedOK
<1>2. QuoteRaw(t, level) = Raw(u, t.ns) /\ Raw(u, t.ns).text = u /\ Raw(u, t.ns).ns = t.ns
  BY DEF QuoteRaw, Raw
<1> HIDE DEF u
<1>3. TokensOK(<<Raw(u, t.ns)>>, doc) /\ TokensOK(<<Blank(u, t.ns)>>, doc)
  BY <1>1, RawOK, BlankOK
<1>4. QuoteLine(t, level) = IF IsBlankText(u) THEN Blank(u, t.ns) ELSE Raw(u, t.ns)
  BY <1>2 DEF QuoteLine
<1> QED
  BY <1>2, <1>3, <1>4

\* A line of the quote: its prefix can be taken away.
LEMMA ContinuesLevel ==
    ASSUME NEW doc, NEW u, TextOK(u, doc), NEW level \in Nat, Continues(u, level)
    PROVE  level \in 0 .. Len(u)
<1>1. Len(u) \in Nat
  BY DEF TextOK
<1>2. Len(u) >= level
  BY DEF Continues
<1> QED
  BY <1>1, <1>2

LEMMA QuoteTurnOK ==
    ASSUME NEW doc, NEW toks, TokensOK(toks, doc), Len(toks) \in Nat, NEW level \in Nat,
           Hollow(doc), NEW k, Within(k, toks), NEW q,
           k > Len(toks) \/ QuoteOK(q[k + 1], toks, doc),
           k > Len(toks) \/ k = Len(toks) \/ QuoteOK(q[k + 2], toks, doc)
    PROVE  QuoteOK(QuoteTurn(toks, level, q, k), toks, doc)
<1> DEFINE turn == QuoteTurn(toks, level, q, k)
<1>0. k \in 1 .. Len(toks) + 1
  BY DEF Within
<1>1. CASE k > Len(toks)
  <2>1. turn = QuoteStop(k)
    BY <1>1 DEF QuoteTurn
  <2> QED
    BY <2>1, QuoteEndsOK
<1>2. CASE ~(k > Len(toks)) /\ IsBlankLine(toks[k]) /\ k = Len(toks)
  <2>1. turn = QuoteStop(k + 1)
    BY <1>2 DEF QuoteTurn
  <2>2. Within(k + 1, toks)
    BY <1>0, <1>2 DEF Within
  <2> QED
    BY <2>1, <2>2, QuoteEndsOK
<1>3. CASE ~(k > Len(toks)) /\ IsBlankLine(toks[k]) /\ k # Len(toks)
  <2> DEFINE t == toks[k + 1]
  <2>1. turn = IF ~HasText(t) THEN QuoteNone(k)
               ELSE IF Continues(t.text, level)
               THEN QuoteWith(<<BlankLine, QuoteRaw(t, level)>>, q[k + 2])
               ELSE QuoteStop(k)
    BY <1>3 DEF QuoteTurn
  <2>2. TokenOK(t, doc) /\ TextOK(t.text, doc)
    <3>1. k + 1 \in 1 .. Len(toks)
      BY <1>0, <1>3
    <3>2. TokenOK(toks[k + 1], doc)
      BY <3>1, TokenAt
    <3> QED
      BY <3>2 DEF TokenOK
  <2>3. QuoteOK(q[k + 2], toks, doc)
    BY <1>3
  <2> HIDE DEF t, turn
  <2>4. CASE ~HasText(t)
    BY <2>1, <2>2, <2>4, NotText, QuoteEndsOK DEF turn
  <2>5. CASE HasText(t) /\ Continues(t.text, level)
    <3> DEFINE b == BlankLine
               l == QuoteRaw(t, level)
    <3>1. level \in 0 .. Len(t.text)
      BY <2>2, <2>5, ContinuesLevel
    <3>2. TokensOK(<<b>>, doc) /\ TokensOK(<<l>>, doc)
      BY <2>2, <3>1, BlankLineOK, QuoteLineOK
    <3>3. turn = QuoteWith(<<b, l>>, q[k + 2])
      BY <2>1, <2>5
    <3> HIDE DEF b, l
    <3>4. TokensOK(<<b, l>>, doc)
      BY <3>2, TokensTwo
    <3>5. QuoteOK(QuoteWith(<<b, l>>, q[k + 2]), toks, doc)
      BY <2>3, <3>4, QuoteWithOK
    <3> QED
      BY <3>3, <3>5 DEF turn
  <2>6. CASE HasText(t) /\ ~Continues(t.text, level)
    BY <2>1, <2>6, QuoteEndsOK DEF turn
  <2> QED
    BY <2>4, <2>5, <2>6
<1>4. CASE ~(k > Len(toks)) /\ ~IsBlankLine(toks[k])
  <2> DEFINE t == toks[k]
  <2>1. turn = IF ~HasText(t) THEN QuoteNone(k)
               ELSE IF Continues(t.text, level)
               THEN QuoteWith(<<QuoteLine(t, level)>>, q[k + 1])
               ELSE QuoteStop(k)
    BY <1>4 DEF QuoteTurn
  <2>2. TokenOK(t, doc) /\ TextOK(t.text, doc)
    <3>1. k \in 1 .. Len(toks)
      BY <1>0, <1>4
    <3>2. TokenOK(toks[k], doc)
      BY <3>1, TokenAt
    <3> QED
      BY <3>2 DEF TokenOK
  <2>3. QuoteOK(q[k + 1], toks, doc)
    BY <1>4
  <2> HIDE DEF t, turn
  <2>4. CASE ~HasText(t)
    BY <2>1, <2>2, <2>4, NotText, QuoteEndsOK DEF turn
  <2>5. CASE HasText(t) /\ Continues(t.text, level)
    <3> DEFINE l == <<QuoteLine(t, level)>>
    <3>1. level \in 0 .. Len(t.text)
      BY <2>2, <2>5, ContinuesLevel
    <3>2. TokensOK(l, doc)
      BY <2>2, <3>1, QuoteLineOK
    <3>3. turn = QuoteWith(l, q[k + 1])
      BY <2>1, <2>5
    <3> HIDE DEF l
    <3>4. QuoteOK(QuoteWith(l, q[k + 1]), toks, doc)
      BY <2>3, <3>2, QuoteWithOK
    <3> QED
      BY <3>3, <3>4 DEF turn
  <2>6. CASE HasText(t) /\ ~Continues(t.text, level)
    BY <2>1, <2>6, QuoteEndsOK DEF turn
  <2> QED
    BY <2>4, <2>5, <2>6
<1> QED
  BY <1>1, <1>2, <1>3, <1>4

LEMMA QuoteFromOK ==
    ASSUME BlocksInv, NEW level \in Nat, Hollow(document), NEW k, Within(k, Top.tgt)
    PROVE  QuoteOK(QuoteFrom(level)[k], Top.tgt, document)
<1> DEFINE toks == Top.tgt
           q == QuoteFrom(level)
           N == Len(toks) + 1
<1>0. TokensOK(toks, document) /\ Len(toks) \in Nat /\ N \in Nat
  BY TopFacts
<1>1. q = [j \in 1 .. N |-> QuoteTurn(toks, level, q, j)]
  <2>1. \E r : r = [j \in 1 .. Len(toks) + 1 |-> QuoteTurn(toks, level, r, j)]
    BY <1>0, QuoteExists
  <2> QED
    BY <2>1, QuoteIsTurns
<1> HIDE DEF q
<1>2. \A j \in 1 .. N : q[j] = QuoteTurn(toks, level, q, j)
  BY <1>1
<1> DEFINE Good(j) == QuoteOK(q[j], toks, document)
           T == {m \in Nat : \A j \in N - m + 1 .. N : Good(j)}
<1>3. 0 \in T
  BY <1>0
<1>4. ASSUME NEW m \in 0 .. N - 1, m \in T PROVE m + 1 \in T
  <2>0. N - m \in 1 .. N /\ N - (m + 1) + 1 = N - m
    <3> HIDE DEF N
    <3> QED
      BY <1>0
  <2>1. PICK j \in 1 .. N : j = N - m /\ N - m + 1 = j + 1 /\ N - (m + 1) + 1 = j
    BY <2>0
  <2>2. \A l \in j + 1 .. N : Good(l)
    BY <1>4, <2>1
  <2>3. (j > Len(toks) \/ j + 1 \in j + 1 .. N)
        /\ (j > Len(toks) \/ j = Len(toks) \/ j + 2 \in j + 1 .. N)
    BY <1>0
  <2>4. Within(j, toks)
    BY DEF Within
  <2>5. QuoteOK(QuoteTurn(toks, level, q, j), toks, document)
    <3> HIDE DEF toks, N
    <3>1. (j > Len(toks) \/ QuoteOK(q[j + 1], toks, document))
          /\ (j > Len(toks) \/ j = Len(toks) \/ QuoteOK(q[j + 2], toks, document))
      BY <2>2, <2>3
    <3> QED
      BY <1>0, <2>4, <3>1, QuoteTurnOK
  <2>6. Good(j)
    BY <1>2, <2>5
  <2> HIDE DEF Good
  <2>7. \A l \in j .. N : Good(l)
    <3>1. \A l \in j .. N : l = j \/ l \in j + 1 .. N
      BY <1>0
    <3> QED
      BY <2>2, <2>6, <3>1
  <2> QED
    BY <2>1, <2>7
<1> HIDE DEF T
<1>5. N \in T
  <2>1. \A m \in 0 .. N : m \in T
    BY <1>0, <1>3, <1>4, InductionUpTo
  <2> QED
    BY <1>0, <2>1
<1>6. k \in 1 .. N
  BY DEF Within
<1>7. Good(k)
  <2> HIDE DEF Good
  <2>1. k \in N - N + 1 .. N
    BY <1>0, <1>6
  <2> QED
    BY <1>5, <2>1 DEF T
<1> QED
  BY <1>7 DEF q

LEMMA QuoteLevelFacts ==
    ASSUME NEW doc, NEW u, TextOK(u, doc)
    PROVE  /\ QuoteLevel(u) \in Nat /\ QuoteLevel(u) \in 0 .. Len(u)
           /\ QuoteLevel(u) > 0 => \E n \in DOMAIN doc : Quoted(doc[n])
<1> DEFINE S == {k \in 1 .. Len(u) - 1 :
                   /\ \A l \in 1 .. k : u[l].m = ">" /\ u[l].sp =< 3
                   /\ u[k + 1].sp > 0}
           T == {0} \cup S
<1>1. u \in Seq(Piece) /\ Len(u) \in Nat /\ DOMAIN u = 1 .. Len(u)
  BY DEF TextOK
<1>2. T \in SUBSET Nat /\ T # {} /\ \A k \in T : k =< Len(u)
  BY <1>1
<1>3. QuoteLevel(u) = Max(T)
  BY DEF QuoteLevel
<1>4. \A k \in S : k \in 1 .. Len(u) /\ u[1].m = ">"
  <2> TAKE k \in S
  <2>1. k \in 1 .. Len(u) /\ 1 \in 1 .. k
    BY <1>1
  <2> QED
    BY <2>1
<1> HIDE DEF S
<1>5. Max(T) \in T
  <2> HIDE DEF T
  <2> QED
    BY <1>1, <1>2, LargestNat
<1>6. Max(T) = 0 \/ Max(T) \in S
  BY <1>5
<1> HIDE DEF T
<1>7. CASE Max(T) = 0
  BY <1>1, <1>3, <1>7
<1>8. CASE Max(T) \in S
  <2>1. 1 \in DOMAIN u /\ u[1].m = ">"
    BY <1>1, <1>4, <1>8
  <2>2. Quoted(u)
    BY <2>1 DEF Quoted
  <2>3. \E n \in DOMAIN doc : Quoted(doc[n])
    BY <2>2 DEF TextOK
  <2> QED
    BY <1>1, <1>3, <1>4, <1>8, <2>3
<1> QED
  BY <1>6, <1>7, <1>8

LEMMA QuoteStep == BlocksInv /\ Quote => BlocksInv'
<1>0. SUFFICES ASSUME BlocksInv, Quote PROVE BlocksInv'
  OBVIOUS
<1> DEFINE level == QuoteLevel(Text)
           q == QuoteFrom(level)[Top.i + 1]
           first == Raw(Unquoted(Text, level), Token(Top.i).ns)
           toks == <<first>> \o q.sub
           tok == Container("quote", toks)
           j == After(q.end)
<1>1. /\ AtItem /\ level > 0
      /\ IF q.none THEN Fail("undefined")
         ELSE /\ stack' = Called(stack, Len(stack), Moved(Top, j), Items(tok, tok.sub))
              /\ UNCHANGED <<document, pass, references, outcome>>
  BY <1>0 DEF Quote, Undecided, Descend, Called, Moved, Front
<1>2. TextOK(Text, document)
  BY <1>0, <1>1, AtItemFacts, TokenFacts DEF Text
<1>3. level \in Nat /\ level \in 0 .. Len(Text) /\ \E n \in DOMAIN document : Quoted(document[n])
  BY <1>1, <1>2, QuoteLevelFacts
<1>4. TokensOK(<<first>>, document)
  BY <1>2, <1>3, UnquotedOK, RawOK DEF Hollow
<1>5. QuoteOK(q, Top.tgt, document)
  <2>1. Within(Top.i + 1, Top.tgt)
    BY <1>0, <1>1, AtItemFacts
  <2> HIDE DEF level
  <2> QED
    BY <1>0, <1>3, <2>1, QuoteFromOK DEF Hollow
<1> HIDE DEF level, q, first
<1>6. CASE q.none
  <2>1. outcome' = "undefined" /\ UNCHANGED <<document, pass, stack, references>>
    BY <1>1, <1>6 DEF Fail
  <2>2. Textless(document)
    BY <1>5, <1>6 DEF QuoteOK
  <2>3. RendersOrdinary'
    BY <1>3, <2>1, <2>2 DEF RendersOrdinary, Ordinary, Textless, Quoted, Bulleted
  <2> QED
    BY <1>0, <2>1, <2>3 DEF BlocksInv
<1>7. CASE ~q.none
  <2>1. /\ stack' = Called(stack, Len(stack), Moved(Top, j), Items(tok, tok.sub))
        /\ UNCHANGED <<document, pass, references, outcome>>
    BY <1>1, <1>7
  <2>2. TokensOK(toks, document)
    BY <1>4, <1>5, TokensConcat DEF QuoteOK
  <2>3. tok.sub = toks
    BY DEF Container
  <2>4. Within(j, Top.tgt)
    BY <1>0, <1>5, AfterWithin DEF QuoteOK
  <2> HIDE DEF toks, tok, j
  <2>5. TokensOK(tok.sub, document)
    BY <2>2, <2>3
  <2> QED
    BY <1>0, <1>1, <2>1, <2>4, <2>5, DescendStep
<1> QED
  BY <1>6, <1>7

FindsItem(i) ==
    \/ StartsSublist(Token(i).text, Top.indent) /\ Sublist(i)
    \/ IsNextItem(Top, Token(i).text) /\ NextItem(i)

LEMMA FindsItemStep ==
    ASSUME BlocksInv, InList, NEW i \in Nat \ {0}, There(i), FindsItem(i)
    PROVE  BlocksInv'
<1>1. IsNextItem(Top, Token(i).text) => IsItem(Token(i).text)
  BY DEF IsNextItem
<1> QED
  BY <1>1, SublistStep, NextItemStep DEF FindsItem

\* A line whose spaces are taken is as blank as before.
LEMMA StripBlank ==
    ASSUME NEW doc, NEW u, TextOK(u, doc), NEW sp \in Nat, ~IsBlankText(u)
    PROVE  ~IsBlankText(Strip(u, sp))
<1>1. u \in Seq(Piece) /\ DOMAIN u = 1 .. Len(u)
  BY DEF TextOK
<1>2. PICK k \in DOMAIN u : u[k].m # ""
  BY DEF IsBlankText
<1>3. u # << >> /\ 1 \in DOMAIN u
  <2>0. Len(u) \in Nat
    BY <1>1
  <2>1. Len(u) \in Nat /\ k \in 1 .. Len(u)
    <3>1. k \in 1 .. Len(u)
      BY <1>1, <1>2, Zenon
    <3> QED
      BY <2>0, <3>1
  <2>2. 1 \in 1 .. Len(u) /\ Len(u) # 0
    BY <2>1
  <2>3. Len(<< >>) = 0
    OBVIOUS
  <2> QED
    BY <1>1, <2>2, <2>3
<1> DEFINE e == [u[1] EXCEPT !.sp = sp]
<1>4. e.m = u[1].m
  <2>1. u[1] \in Piece
    BY <1>1, <1>3
  <2> QED
    BY <2>1 DEF Piece
<1>5. Strip(u, sp) = [u EXCEPT ![1] = e]
  BY <1>3 DEF Strip
<1> HIDE DEF e
<1>6. k \in DOMAIN Strip(u, sp) /\ Strip(u, sp)[k].m = u[k].m
  BY <1>1, <1>2, <1>3, <1>4, <1>5
<1> QED
  BY <1>2, <1>6 DEF IsBlankText

\* A line goes on with the item.
LEMMA Continuation ==
    ASSUME BlocksInv, NEW i \in Nat \ {0}, There(i), ~IsBlankText(Token(i).text)
    PROVE  /\ TokensOK(<<Raw(Strip(Token(i).text, 0), Token(i).ns)>>, document)
           /\ TokensOK(<<BlankLine, Raw(Strip(Token(i).text, 0), Token(i).ns)>>, document)
<1> DEFINE u == Token(i).text
           t == Raw(Strip(u, 0), Token(i).ns)
           b == BlankLine
<1>1. TextOK(u, document)
  BY TokenFacts
<1>2. u # << >> => 0 =< u[1].sp
  <2>1. u \in Seq(Piece)
    BY <1>1 DEF TextOK
  <2>2. u # << >> => u[1] \in Piece
    BY <2>1
  <2> QED
    BY <2>2 DEF Piece
<1>3. TextOK(Strip(u, 0), document)
  <2> HIDE DEF u
  <2> QED
    BY <1>1, <1>2, StripOK
<1>4. TokensOK(<<t>>, document) /\ TokensOK(<<b>>, document)
  <2>1. ~IsBlankText(Strip(u, 0))
    BY <1>1, StripBlank
  <2> QED
    BY <1>3, <2>1, RawOK, BlankLineOK
<1> HIDE DEF t, b
<1>5. TokensOK(<<b, t>>, document)
  BY <1>4, TokensTwo
<1> QED
  BY <1>4, <1>5 DEF t, b

LEMMA ListStepStep == BlocksInv /\ ListStep => BlocksInv'
<1>0. SUFFICES ASSUME BlocksInv, ListStep PROVE BlocksInv'
  OBVIOUS
<1>1. /\ Top.i \in Nat \ {0} /\ Len(Top.tgt) \in Nat /\ Top.i + 1 \in Nat \ {0}
      /\ Within(Top.i, Top.tgt)
      /\ There(Top.i) => Within(Top.i + 1, Top.tgt)
      /\ There(Top.i + 1) => Within(Top.i + 2, Top.tgt)
  BY <1>0, TopFacts DEF Within, There
<1>2. CASE ListEnds \/ ListStops \/ BlankAtEnd \/ ListEndsAtBlank
  <2>1. InList /\ (EndList(Top.i) \/ (There(Top.i) /\ EndList(Top.i + 1)))
    BY <1>2 DEF ListEnds, ListStops, BlankAtEnd, ListEndsAtBlank, AtBlank, ListAt
  <2> QED
    BY <1>0, <1>1, <2>1, EndListStep
<1>3. CASE ListLine
  <2>1. InList /\ There(Top.i) /\ FindsItem(Top.i)
    BY <1>3 DEF ListLine, AtText, ListAt, Line, FindsItem
  <2> QED
    BY <1>0, <1>1, <2>1, FindsItemStep
<1>4. CASE SublistAfterBlank \/ NextItemAfterBlank
  <2> DEFINE i == Top.i + 1
  <2>1. InList /\ There(i) /\ FindsItem(i)
    BY <1>4 DEF SublistAfterBlank, NextItemAfterBlank, AfterBlank, AtBlank, ListAt, Line, FindsItem
  <2>2. i \in Nat \ {0}
    BY <1>1
  <2> HIDE DEF i
  <2> QED
    BY <1>0, <2>1, <2>2, FindsItemStep
<1>5. CASE ListContinues /\ ~IsBlankText(Line(Top.i))
  <2> DEFINE toks == <<Raw(Strip(Token(Top.i).text, 0), Token(Top.i).ns)>>
  <2>1. InList /\ There(Top.i) /\ ~IsBlankText(Token(Top.i).text) /\ Add(toks, Top.i + 1)
    BY <1>5 DEF ListContinues, AtText, ListAt, Line
  <2>2. TokensOK(toks, document)
    BY <1>0, <1>1, <2>1, Continuation
  <2> HIDE DEF toks
  <2> QED
    BY <1>0, <1>1, <2>1, <2>2, AddStep
<1>6. CASE ContinuedAfterBlank
  <2> DEFINE i == Top.i + 1
             toks == <<BlankLine, Raw(Strip(Token(i).text, 0), Token(i).ns)>>
  <2>1. InList /\ There(i) /\ ~IsBlankText(Token(i).text) /\ Add(toks, Top.i + 2)
    BY <1>6 DEF ContinuedAfterBlank, AfterBlank, AtBlank, ListAt, Line, IsContinuation
  <2>2. TokensOK(toks, document)
    <3> HIDE DEF i
    <3>1. i \in Nat \ {0}
      BY <1>1 DEF i
    <3> QED
      BY <1>0, <2>1, <3>1, Continuation
  <2> HIDE DEF toks
  <2> QED
    BY <1>0, <1>1, <2>1, <2>2, AddStep
<1>7. CASE CodeAfterBlank
  BY <1>0, <1>7, CodeAfterBlankStep
<1>8. CASE ListContinues /\ IsBlankText(Line(Top.i))
  <2> DEFINE t == Token(Top.i)
  <2>1. /\ InList /\ There(Top.i) /\ ~IsBlankLine(t) /\ HasText(t) /\ IsBlankText(t.text)
        /\ outcome' = "assert" /\ UNCHANGED <<document, pass, stack, references>>
    BY <1>8 DEF ListContinues, AtText, ListAt, Line, Fail
  <2>2. TokenOK(t, document)
    BY <1>0, <1>1, <2>1, TokenFacts
  <2>4. Hollow(document)
    BY <2>1, <2>2 DEF TokenOK
  <2>5. \E n \in DOMAIN document : Bulleted(document[n])
    BY <1>0, <2>1, InListFacts
  <2>6. RendersOrdinary'
    BY <2>1, <2>4, <2>5 DEF RendersOrdinary, Ordinary, Hollow, Quoted, Bulleted
  <2> QED
    BY <1>0, <2>1, <2>6 DEF BlocksInv
<1> QED
  BY <1>0, <1>2, <1>3, <1>4, <1>5, <1>6, <1>7, <1>8 DEF ListStep
-----------------------------------------------------------------------------
LEMMA BlocksInvariant == BlocksSpec => []BlocksInv
<1>1. BlocksInit => BlocksInv
  BY BlocksInitially
<1>2. BlocksInv /\ [BlocksNext]_blockVars => BlocksInv'
  <2> SUFFICES ASSUME BlocksInv, [BlocksNext]_blockVars PROVE BlocksInv'
    OBVIOUS
  <2>1. CASE EndOfPass("merge", "html") \/ EndOfPass("html", "blocks")
    BY <2>1, EndOfPassStep
  <2>2. CASE MergeTag \/ HtmlBlock \/ Reference \/ KeepRaw
    BY <2>2, MergeTagStep, HtmlBlockStep, ReferenceStep, KeepRawStep
  <2>3. CASE Header \/ HorizontalRule \/ StartList \/ Quote \/ Code \/ Keep
    BY <2>3, HeaderStep, HorizontalRuleStep, StartListStep, QuoteStep, CodeStep, KeepsStep
  <2>4. CASE IntoContainer \/ OutOfContainer \/ ListStep
    BY <2>4, IntoContainerStep, OutOfContainerStep, ListStepStep
  <2>5. CASE UNCHANGED blockVars
    BY <2>5 DEF blockVars, BlocksInv, RendersOrdinary, Ordinary
  <2> QED
    BY <2>1, <2>2, <2>3, <2>4, <2>5 DEF BlocksNext
<1> QED
  BY <1>1, <1>2, PTL DEF BlocksSpec

\* The iterators of _mergeMultilineHtmlTags, _processInlineHtmlAndReferences,
\* _processBlocksItems, parseListBlock, parseBlockQuote and parseCodeBlock
\* (markdown.cpp) stay in the lists they walk, or at their ends, at every depth
\* of the recursion and whatever the document.
THEOREM BlocksTypeCorrect == BlocksSpec => []BlocksTypeOK
<1>1. BlocksInv => BlocksTypeOK
  <2> SUFFICES ASSUME BlocksInv PROVE BlocksTypeOK
    OBVIOUS
  <2>1. StackOK(stack, document)
    BY DEF BlocksInv
  <2>2. PICK S : stack \in Seq(S)
    BY <2>1 DEF StackOK
  <2>3. \A k \in DOMAIN stack : stack[k].i \in 1 .. Len(stack[k].tgt) + 1
    <3>1. \A k \in DOMAIN stack : k \in 1 .. Len(stack)
      BY <2>2
    <3>2. \A k \in 1 .. Len(stack) : Within(stack[k].i, stack[k].tgt)
      BY <2>1 DEF StackOK, FrameOK
    <3> QED
      BY <3>1, <3>2 DEF Within
  <2> QED
    BY <2>3 DEF BlocksInv, BlocksTypeOK
<1> QED
  BY <1>1, BlocksInvariant, PTL

\* A document in which every bullet that starts a sublist has the content of an
\* item, no list or HTML stands beside a quote, and no line that is indented far
\* beside a list, is rendered however long it is: what parseListBlock asserts of
\* a sublist and of a line that goes on with an item (markdown.cpp:381, 431 and
\* 444) holds, and neither it nor parseBlockQuote takes the text of a token that
\* has none or of the end of the list.
THEOREM OrdinaryRenders == BlocksSpec => []RendersOrdinary
<1>1. BlocksInv => RendersOrdinary
  BY DEF BlocksInv
<1> QED
  BY <1>1, BlocksInvariant, PTL
-----------------------------------------------------------------------------
(***************************************************************************)
(* The lines of the tokens: what is processed stands above what is left,   *)
(* at every depth.                                                         *)
(***************************************************************************)
Increasing(a) == a \in Seq(Nat) /\ \A k, l \in 1 .. Len(a) : k < l => a[k] < a[l]
Above(A, B) == \A m \in A, n \in B : m < n

LinesOf(s) == {n \in Nat : \E k \in 1 .. Len(s) : n \in ToSet(s[k].ns)}
From(s, i) == {n \in Nat : \E k \in 1 .. Len(s) : i =< k /\ n \in ToSet(s[k].ns)}
Part(s, i, j) == {n \in Nat : \E k \in 1 .. Len(s) : i =< k /\ k < j /\ n \in ToSet(s[k].ns)}

Ordered(s) ==
    /\ \A k \in 1 .. Len(s) : Increasing(s[k].ns)
    /\ \A k, l \in 1 .. Len(s) : k < l => Above(ToSet(s[k].ns), ToSet(s[l].ns))

\* Tokens with others in them, to any depth, whose lines they have.
Nested(T) == \A t \in T : /\ Increasing(t.ns) /\ t.sub \in Seq(T)
                          /\ Ordered(t.sub) /\ LinesOf(t.sub) \subseteq ToSet(t.ns)
Good(s) == Ordered(s) /\ \E T : Nested(T) /\ s \in Seq(T)
-----------------------------------------------------------------------------
LEMMA IncreasingConcat ==
    ASSUME NEW a, Increasing(a), NEW b, Increasing(b), Above(ToSet(a), ToSet(b))
    PROVE  Increasing(a \o b) /\ ToSet(a \o b) = ToSet(a) \cup ToSet(b)
<1> DEFINE c == a \o b
<1>1. /\ a \in Seq(Nat) /\ b \in Seq(Nat) /\ c \in Seq(Nat) /\ Len(c) = Len(a) + Len(b)
      /\ Len(a) \in Nat /\ Len(b) \in Nat
      /\ \A k \in 1 .. Len(c) : c[k] = IF k =< Len(a) THEN a[k] ELSE b[k - Len(a)]
      /\ DOMAIN a = 1 .. Len(a) /\ DOMAIN b = 1 .. Len(b) /\ DOMAIN c = 1 .. Len(c)
  BY DEF Increasing
<1> HIDE DEF c
<1>2. \A k \in 1 .. Len(a), l \in 1 .. Len(b) : a[k] < b[l]
  BY <1>1 DEF Above, ToSet
<1>3. \A k, l \in 1 .. Len(c) : k < l => c[k] < c[l]
  <2> SUFFICES ASSUME NEW k \in 1 .. Len(c), NEW l \in 1 .. Len(c), k < l PROVE c[k] < c[l]
    OBVIOUS
  <2>1. CASE l =< Len(a)
    BY <1>1, <2>1 DEF Increasing
  <2>2. CASE k =< Len(a) /\ ~(l =< Len(a))
    <3>1. k \in 1 .. Len(a) /\ l - Len(a) \in 1 .. Len(b) /\ c[k] = a[k] /\ c[l] = b[l - Len(a)]
      BY <1>1, <2>2
    <3> QED
      BY <1>2, <3>1
  <2>3. CASE ~(k =< Len(a))
    <3>1. k - Len(a) \in 1 .. Len(b) /\ l - Len(a) \in 1 .. Len(b) /\ k - Len(a) < l - Len(a)
      BY <1>1, <2>3
    <3>2. ~(l =< Len(a))
      BY <1>1, <2>3
    <3>3. c[k] = b[k - Len(a)] /\ c[l] = b[l - Len(a)]
      BY <1>1, <2>3, <3>2
    <3> QED
      BY <3>1, <3>3 DEF Increasing
  <2> QED
    BY <2>1, <2>2, <2>3
<1>4. ToSet(c) = ToSet(a) \cup ToSet(b)
  <2>1. ASSUME NEW k \in 1 .. Len(c) PROVE c[k] \in ToSet(a) \cup ToSet(b)
    <3>1. CASE k =< Len(a)
      <4>1. k \in DOMAIN a /\ c[k] = a[k]
        BY <1>1, <3>1
      <4> QED
        BY <4>1 DEF ToSet
    <3>2. CASE ~(k =< Len(a))
      <4>1. k - Len(a) \in DOMAIN b /\ c[k] = b[k - Len(a)]
        BY <1>1, <3>2
      <4> QED
        BY <4>1 DEF ToSet
    <3> QED
      BY <3>1, <3>2
  <2>2. ASSUME NEW k \in 1 .. Len(a) PROVE a[k] \in ToSet(c)
    <3>1. k \in 1 .. Len(c) /\ c[k] = a[k]
      BY <1>1
    <3> QED
      BY <1>1, <3>1 DEF ToSet
  <2>3. ASSUME NEW k \in 1 .. Len(b) PROVE b[k] \in ToSet(c)
    <3>1. PICK j \in 1 .. Len(c) : j = Len(a) + k
      <4>1. Len(a) + k \in 1 .. Len(c)
        BY <1>1
      <4> QED
        BY <4>1
    <3>2. j - Len(a) = k /\ ~(j =< Len(a))
      BY <1>1, <3>1
    <3>3. c[j] = b[j - Len(a)]
      BY <1>1, <3>2
    <3>4. c[j] = b[k]
      BY <3>2, <3>3
    <3> QED
      BY <1>1, <3>4 DEF ToSet
  <2> QED
    BY <1>1, <2>1, <2>2, <2>3 DEF ToSet
<1> QED
  BY <1>1, <1>3, <1>4 DEF Increasing, c

LEMMA IncreasingFacts ==
    ASSUME NEW a, Increasing(a)
    PROVE  a \in Seq(Nat) /\ ToSet(a) \subseteq Nat
<1>1. a \in Seq(Nat)
  BY DEF Increasing
<1> QED
  BY <1>1 DEF ToSet

LEMMA NoneIncreasing == Increasing(<< >>) /\ ToSet(<< >>) = {}
BY DEF Increasing, ToSet

LEMMA GoodType ==
    ASSUME NEW s, Good(s)
    PROVE  \E S : s \in Seq(S) /\ Len(s) \in Nat /\ DOMAIN s = 1 .. Len(s)
BY DEF Good

LEMMA GoodNone == Good(<< >>) /\ LinesOf(<< >>) = {}
<1>1. Nested({}) /\ << >> \in Seq({})
  BY DEF Nested
<1>2. Len(<< >>) = 0 /\ \A k \in 1 .. 0 : FALSE
  OBVIOUS
<1>3. Ordered(<< >>)
  BY <1>2 DEF Ordered
<1> QED
  BY <1>1, <1>2, <1>3 DEF Good, LinesOf

LEMMA GoodAt ==
    ASSUME NEW s, Good(s), NEW k \in 1 .. Len(s)
    PROVE  /\ Increasing(s[k].ns) /\ Good(s[k].sub) /\ LinesOf(s[k].sub) \subseteq ToSet(s[k].ns)
<1>1. PICK T : Nested(T) /\ s \in Seq(T)
  BY DEF Good
<1>2. s[k] \in T
  BY <1>1
<1>3. /\ Increasing(s[k].ns) /\ s[k].sub \in Seq(T)
      /\ Ordered(s[k].sub) /\ LinesOf(s[k].sub) \subseteq ToSet(s[k].ns)
  BY <1>1, <1>2 DEF Nested
<1> QED
  BY <1>1, <1>3 DEF Good

\* A token made of tokens.
LEMMA GoodMade ==
    ASSUME NEW t, Increasing(t.ns), Good(t.sub), LinesOf(t.sub) \subseteq ToSet(t.ns)
    PROVE  Good(<<t>>) /\ LinesOf(<<t>>) = ToSet(t.ns)
<1>1. PICK T : Nested(T) /\ t.sub \in Seq(T)
  BY DEF Good
<1> DEFINE V == T \cup {t}
<1>2. Seq(T) \subseteq Seq(V)
  OBVIOUS
<1>3. Nested(V)
  BY <1>1, <1>2 DEF Nested, Good
<1> DEFINE s == <<t>>
<1>4. s \in Seq(V) /\ Len(s) = 1 /\ s[1] = t /\ \A k \in 1 .. 1 : k = 1
  OBVIOUS
<1> HIDE DEF V, s
<1>5. \A k \in 1 .. Len(s) : s[k] = t
  BY <1>4
<1>6. \A k, l \in 1 .. Len(s) : ~(k < l)
  BY <1>4
<1>7. Ordered(s)
  BY <1>5, <1>6 DEF Ordered
<1>8. ToSet(t.ns) \subseteq Nat
  BY IncreasingFacts
<1>9. LinesOf(s) = ToSet(t.ns)
  <2>1. 1 \in 1 .. Len(s) /\ s[1] = t
    BY <1>4
  <2> QED
    BY <1>5, <1>8, <2>1 DEF LinesOf
<1> QED
  BY <1>3, <1>4, <1>7, <1>9 DEF Good, s

LEMMA GoodOne ==
    ASSUME NEW s, Good(s), NEW k \in 1 .. Len(s)
    PROVE  Good(<<s[k]>>) /\ LinesOf(<<s[k]>>) = ToSet(s[k].ns)
BY GoodAt, GoodMade

\* A token with nothing in it.
LEMMA GoodLeaf ==
    ASSUME NEW t, Increasing(t.ns), t.sub = << >>
    PROVE  Good(<<t>>) /\ LinesOf(<<t>>) = ToSet(t.ns)
<1>1. Good(t.sub) /\ LinesOf(t.sub) \subseteq ToSet(t.ns)
  BY GoodNone
<1> QED
  BY <1>1, GoodMade

LEMMA GoodConcat ==
    ASSUME NEW s, NEW u, Good(s), Good(u), Above(LinesOf(s), LinesOf(u))
    PROVE  Good(s \o u) /\ LinesOf(s \o u) = LinesOf(s) \cup LinesOf(u)
<1>1. PICK T : Nested(T) /\ s \in Seq(T)
  BY DEF Good
<1>2. PICK U : Nested(U) /\ u \in Seq(U)
  BY DEF Good
<1> DEFINE V == T \cup U
           v == s \o u
<1>3. Seq(T) \subseteq Seq(V) /\ Seq(U) \subseteq Seq(V)
  OBVIOUS
<1>4. Nested(V)
  BY <1>1, <1>2, <1>3 DEF Nested
<1>5. v \in Seq(V)
  BY <1>1, <1>2, <1>3
<1>6. /\ Len(v) = Len(s) + Len(u) /\ Len(s) \in Nat /\ Len(u) \in Nat
      /\ \A k \in 1 .. Len(v) : v[k] = IF k =< Len(s) THEN s[k] ELSE u[k - Len(s)]
  <2>1. s \in Seq(V) /\ u \in Seq(V)
    BY <1>1, <1>2, <1>3
  <2> HIDE DEF V
  <2> QED
    BY <2>1
<1> HIDE DEF V, v
<1>7. \A k \in 1 .. Len(v) : \/ k =< Len(s) /\ k \in 1 .. Len(s) /\ v[k] = s[k]
                             \/ k > Len(s) /\ k - Len(s) \in 1 .. Len(u) /\ v[k] = u[k - Len(s)]
  BY <1>6
<1>8. /\ \A k \in 1 .. Len(s) : Increasing(s[k].ns)
      /\ \A k \in 1 .. Len(u) : Increasing(u[k].ns)
      /\ \A k, l \in 1 .. Len(s) : k < l => Above(ToSet(s[k].ns), ToSet(s[l].ns))
      /\ \A k, l \in 1 .. Len(u) : k < l => Above(ToSet(u[k].ns), ToSet(u[l].ns))
  BY DEF Good, Ordered
<1>9. \A k \in 1 .. Len(s), l \in 1 .. Len(u) : Above(ToSet(s[k].ns), ToSet(u[l].ns))
  <2> TAKE k \in 1 .. Len(s), l \in 1 .. Len(u)
  <2>1. ToSet(s[k].ns) \subseteq Nat /\ ToSet(u[l].ns) \subseteq Nat
    BY <1>8, IncreasingFacts
  <2>2. ToSet(s[k].ns) \subseteq LinesOf(s) /\ ToSet(u[l].ns) \subseteq LinesOf(u)
    BY <2>1 DEF LinesOf
  <2> QED
    BY <2>2 DEF Above
<1>10. Ordered(v)
  <2>1. \A k \in 1 .. Len(v) : Increasing(v[k].ns)
    BY <1>7, <1>8
  <2>2. ASSUME NEW k \in 1 .. Len(v), NEW l \in 1 .. Len(v), k < l
        PROVE  Above(ToSet(v[k].ns), ToSet(v[l].ns))
    <3>1. CASE l =< Len(s)
      <4>1. k \in 1 .. Len(s) /\ l \in 1 .. Len(s) /\ v[k] = s[k] /\ v[l] = s[l]
        BY <1>6, <2>2, <3>1
      <4> QED
        BY <1>8, <2>2, <4>1
    <3>2. CASE k =< Len(s) /\ l > Len(s)
      <4>1. k \in 1 .. Len(s) /\ l - Len(s) \in 1 .. Len(u) /\ v[k] = s[k] /\ v[l] = u[l - Len(s)]
        BY <1>6, <1>7, <3>2
      <4> QED
        BY <1>9, <4>1
    <3>3. CASE k > Len(s)
      <4>1. PICK a, b \in 1 .. Len(u) : a < b /\ v[k] = u[a] /\ v[l] = u[b]
        <5>1. /\ k - Len(s) \in 1 .. Len(u) /\ l - Len(s) \in 1 .. Len(u)
              /\ k - Len(s) < l - Len(s) /\ v[k] = u[k - Len(s)] /\ v[l] = u[l - Len(s)]
          BY <1>6, <2>2, <3>3
        <5> QED
          BY <5>1
      <4> QED
        BY <1>8, <4>1
    <3> QED
      BY <1>6, <3>1, <3>2, <3>3
  <2> QED
    BY <2>1, <2>2 DEF Ordered
<1>11. LinesOf(v) = LinesOf(s) \cup LinesOf(u)
  <2>1. \A k \in 1 .. Len(s) : k \in 1 .. Len(v) /\ v[k] = s[k]
    BY <1>6
  <2>2. ASSUME NEW k \in 1 .. Len(u) PROVE \E l \in 1 .. Len(v) : v[l] = u[k]
    <3>1. PICK l \in 1 .. Len(v) : l = k + Len(s)
      BY <1>6
    <3>2. v[l] = u[k]
      BY <1>6, <3>1
    <3> QED
      BY <3>2
  <2> QED
    BY <1>7, <2>1, <2>2 DEF LinesOf
<1> QED
  BY <1>4, <1>5, <1>10, <1>11 DEF Good, v

\* What is from one place of a list to another.
LEMMA PartFacts ==
    ASSUME NEW s, Good(s), NEW i \in Nat, NEW j \in Nat, i =< j
    PROVE  /\ Above(Part(s, i, j), From(s, j))
           /\ Part(s, i, j) \subseteq From(s, i) /\ From(s, j) \subseteq From(s, i)
           /\ \A l \in Nat : j =< l => Part(s, i, j) \subseteq Part(s, i, l)
                                       /\ Part(s, j, l) \subseteq Part(s, i, l)
           /\ From(s, i) \subseteq LinesOf(s)
<1>1. Len(s) \in Nat
  BY GoodType
<1>2. Above(Part(s, i, j), From(s, j))
  <2> SUFFICES ASSUME NEW m \in Part(s, i, j), NEW n \in From(s, j) PROVE m < n
    BY DEF Above
  <2>1. PICK k \in 1 .. Len(s) : k < j /\ m \in ToSet(s[k].ns)
    BY DEF Part
  <2>2. PICK l \in 1 .. Len(s) : j =< l /\ n \in ToSet(s[l].ns)
    BY DEF From
  <2>3. k < l
    BY <2>1, <2>2
  <2> QED
    BY <2>1, <2>2, <2>3 DEF Good, Ordered, Above
<1>3. Part(s, i, j) \subseteq From(s, i) /\ From(s, i) \subseteq LinesOf(s)
  BY DEF Part, From, LinesOf
<1>4. From(s, j) \subseteq From(s, i)
  BY <1>1 DEF From
<1>5. \A l \in Nat : j =< l => Part(s, i, j) \subseteq Part(s, i, l)
                               /\ Part(s, j, l) \subseteq Part(s, i, l)
  BY <1>1 DEF Part
<1> QED
  BY <1>2, <1>3, <1>4, <1>5

LEMMA PartAt ==
    ASSUME NEW s, Good(s), NEW i \in 1 .. Len(s)
    PROVE  ToSet(s[i].ns) \subseteq Part(s, i, i + 1) /\ ToSet(s[i].ns) \subseteq Nat
<1>1. Len(s) \in Nat
  BY GoodType
<1>2. ToSet(s[i].ns) \subseteq Nat
  BY GoodAt, IncreasingFacts
<1>3. i =< i /\ i < i + 1
  BY <1>1
<1> QED
  BY <1>2, <1>3 DEF Part

LEMMA GoodPart ==
    ASSUME NEW s, Good(s), NEW m \in 1 .. Len(s) + 1, NEW n \in 0 .. Len(s)
    PROVE  Good(SubSeq(s, m, n)) /\ LinesOf(SubSeq(s, m, n)) \subseteq Part(s, m, n + 1)
<1>1. PICK T : Nested(T) /\ s \in Seq(T)
  BY DEF Good
<1> DEFINE v == SubSeq(s, m, n)
<1>2. v \in Seq(T) /\ \A k \in 1 .. Len(v) : \E l \in 1 .. Len(s) :
                         l = m + k - 1 /\ v[k] = s[l] /\ m =< l /\ l < n + 1
  <2>1. v \in Seq(T) /\ Len(v) = IF m =< n THEN n - m + 1 ELSE 0
    BY <1>1
  <2>2. ASSUME NEW k \in 1 .. Len(v)
        PROVE  \E l \in 1 .. Len(s) : l = m + k - 1 /\ v[k] = s[l] /\ m =< l /\ l < n + 1
    <3>1. m =< n /\ m + k - 1 \in 1 .. Len(s) /\ v[k] = s[m + k - 1]
          /\ m =< m + k - 1 /\ m + k - 1 < n + 1
      BY <1>1, <2>1
    <3> QED
      BY <3>1
  <2> QED
    BY <2>1, <2>2
<1>3. Len(s) \in Nat /\ Len(v) \in Nat
  BY <1>1, <1>2
<1> HIDE DEF v
<1>4. /\ \A k \in 1 .. Len(s) : Increasing(s[k].ns)
      /\ \A k, l \in 1 .. Len(s) : k < l => Above(ToSet(s[k].ns), ToSet(s[l].ns))
  BY DEF Good, Ordered
<1>5. \A k \in 1 .. Len(v) : Increasing(v[k].ns)
  BY <1>2, <1>4
<1>6. ASSUME NEW k \in 1 .. Len(v), NEW l \in 1 .. Len(v), k < l
      PROVE  Above(ToSet(v[k].ns), ToSet(v[l].ns))
  <2>1. PICK a \in 1 .. Len(s) : a = m + k - 1 /\ v[k] = s[a]
    BY <1>2
  <2>2. PICK b \in 1 .. Len(s) : b = m + l - 1 /\ v[l] = s[b]
    BY <1>2
  <2>3. a < b
    BY <1>3, <1>6, <2>1, <2>2
  <2> QED
    BY <1>4, <2>1, <2>2, <2>3
<1>7. LinesOf(v) \subseteq Part(s, m, n + 1)
  BY <1>2 DEF LinesOf, Part
<1> QED
  BY <1>1, <1>2, <1>5, <1>6, <1>7 DEF Good, Ordered, v

\* The lines of tokens, one token at a time.
LEMMA GoodLined ==
    ASSUME NEW s, Good(s)
    PROVE  Increasing(Lined(s)) /\ ToSet(Lined(s)) = LinesOf(s)
<1> DEFINE ns == [k \in DOMAIN s |-> s[k].ns]
           f == Flat(ns)
           upto(n) == {m \in Nat : \E k \in 1 .. Len(s) : k =< n /\ m \in ToSet(s[k].ns)}
<1>1. Len(s) \in Nat /\ DOMAIN s = 1 .. Len(s)
  BY GoodType
<1>2. \A k \in 1 .. Len(s) : Increasing(s[k].ns) /\ s[k].ns \in Seq(Nat) /\ ToSet(s[k].ns) \subseteq Nat
  BY IncreasingFacts DEF Good, Ordered
<1>3. ns \in Seq(Seq(Nat)) /\ Len(ns) = Len(s) /\ \A k \in 1 .. Len(s) : ns[k] = s[k].ns
  <2>1. ns \in [1 .. Len(s) -> Seq(Nat)]
    BY <1>1, <1>2
  <2> QED
    BY <1>1, <2>1
<1> HIDE DEF ns
<1>4. \A k \in 1 .. Len(s) : f[k] = IF k = 1 THEN s[k].ns ELSE f[k - 1] \o s[k].ns
  <2>1. \A k \in 1 .. Len(ns) : f[k] = IF k = 1 THEN ns[k] ELSE f[k - 1] \o ns[k]
    BY <1>3, FlatStep
  <2> QED
    BY <1>3, <2>1
<1> HIDE DEF f
<1> DEFINE Fine(k) == Increasing(f[k]) /\ ToSet(f[k]) = upto(k)
           T == {0} \cup {k \in 1 .. Len(s) : Fine(k)}
<1>5. ASSUME NEW k \in 0 .. Len(s) - 1, k \in T PROVE k + 1 \in T
  <2>1. PICK j \in 1 .. Len(s) : j = k + 1 /\ j - 1 = k
    BY <1>1
  <2>2. CASE k = 0
    <3>1. j = 1 /\ f[j] = s[j].ns
      BY <1>4, <2>1, <2>2
    <3>2. \A l \in 1 .. Len(s) : l =< j <=> l = j
      BY <1>1, <3>1
    <3>3. upto(j) = ToSet(s[j].ns)
      BY <1>2, <3>2
    <3>4. Fine(j)
      BY <1>2, <3>1, <3>3
    <3> QED
      BY <2>1, <3>4
  <2>3. CASE k # 0
    <3>1. f[j] = f[k] \o s[j].ns /\ k \in 1 .. Len(s) /\ Fine(k) /\ k < j
      <4>1. j # 1 /\ k < j
        BY <2>1, <2>3
      <4>2. f[j] = f[j - 1] \o s[j].ns
        BY <1>4, <4>1
      <4>3. k \in 1 .. Len(s) /\ Fine(k)
        BY <1>5, <2>3
      <4> QED
        BY <2>1, <4>1, <4>2, <4>3
    <3>2. Above(ToSet(f[k]), ToSet(s[j].ns))
      <4> SUFFICES ASSUME NEW m \in ToSet(f[k]), NEW n \in ToSet(s[j].ns) PROVE m < n
        BY DEF Above
      <4>1. PICK l \in 1 .. Len(s) : l =< k /\ m \in ToSet(s[l].ns)
        BY <3>1
      <4>2. l < j
        BY <1>1, <3>1, <4>1
      <4> QED
        BY <4>1, <4>2 DEF Good, Ordered, Above
    <3>3. Increasing(f[j]) /\ ToSet(f[j]) = ToSet(f[k]) \cup ToSet(s[j].ns)
      BY <1>2, <3>1, <3>2, IncreasingConcat
    <3>4. \A l \in 1 .. Len(s) : l =< j <=> l =< k \/ l = j
      BY <1>1, <2>1
    <3>5. upto(j) = upto(k) \cup ToSet(s[j].ns)
      BY <1>2, <3>4
    <3>6. Fine(j)
      BY <3>1, <3>3, <3>5
    <3> QED
      BY <2>1, <3>6
  <2> QED
    BY <2>2, <2>3
<1>6. CASE Len(s) = 0
  <2>1. ns = << >> /\ Len(ns) = 0
    BY <1>3, <1>6
  <2>2. Lined(s) = << >>
    BY <2>1, FlattenEmpty DEF Lined, ns
  <2>3. LinesOf(s) = {}
    <3>1. \A k \in 1 .. Len(s) : FALSE
      BY <1>6
    <3> QED
      BY <3>1 DEF LinesOf
  <2> QED
    BY <2>2, <2>3, NoneIncreasing
<1>7. CASE Len(s) # 0
  <2> HIDE DEF T
  <2>1. 0 \in T
    BY DEF T
  <2>2. \A k \in 0 .. Len(s) : k \in T
    BY <1>1, <1>5, <2>1, InductionUpTo
  <2>3. Fine(Len(s))
    BY <1>1, <1>7, <2>2 DEF T
  <2>4. upto(Len(s)) = LinesOf(s)
    <3>1. \A k \in 1 .. Len(s) : k =< Len(s)
      BY <1>1
    <3> QED
      BY <3>1 DEF LinesOf
  <2>5. Lined(s) = f[Len(s)]
    BY <1>3, <1>7, FlattenIsFlat DEF Lined, ns, f
  <2> QED
    BY <2>3, <2>4, <2>5
<1> QED
  BY <1>6, <1>7

LEMMA GoodOnly ==
    ASSUME NEW s, Good(s)
    PROVE  \A v \in {WithMarkup(s), WithText(s)} :
              Good(v) /\ LinesOf(v) \subseteq LinesOf(s)
<1>0. SUFFICES ASSUME NEW v \in {WithMarkup(s), WithText(s)}
               PROVE  Good(v) /\ LinesOf(v) \subseteq LinesOf(s)
  OBVIOUS
<1>1. PICK T : Nested(T) /\ s \in Seq(T)
  BY DEF Good
<1>2. Len(s) \in Nat /\ DOMAIN s = 1 .. Len(s)
  BY <1>1
<1> DEFINE b == BlankLine
           V == T \cup {b}
<1>3. DOMAIN v = 1 .. Len(s) /\ v = [k \in 1 .. Len(s) |-> v[k]]
      /\ \A k \in 1 .. Len(s) : v[k] = s[k] \/ v[k] = b
  BY <1>0, <1>2 DEF WithMarkup, WithText
<1>4. b.ns = << >> /\ b.sub = << >>
  BY DEF BlankLine, Blank
<1> HIDE DEF b
<1>5. v \in Seq(V) /\ Len(v) = Len(s)
  <2>1. \A k \in 1 .. Len(s) : v[k] \in V
    BY <1>1, <1>3
  <2>2. v \in [1 .. Len(s) -> V]
    BY <1>3, <2>1
  <2> QED
    BY <1>2, <1>3, <2>2
<1>6. Nested(V)
  <2>1. Seq(T) \subseteq Seq(V) /\ << >> \in Seq(V)
    OBVIOUS
  <2>2. Increasing(<< >>) /\ Ordered(<< >>) /\ LinesOf(<< >>) = {}
    BY GoodNone, NoneIncreasing DEF Good
  <2> QED
    BY <1>1, <1>4, <2>1, <2>2 DEF Nested
<1>7. /\ \A k \in 1 .. Len(s) : Increasing(s[k].ns)
      /\ \A k, l \in 1 .. Len(s) : k < l => Above(ToSet(s[k].ns), ToSet(s[l].ns))
  BY DEF Good, Ordered
<1>8. Ordered(v)
  <2>1. \A k \in 1 .. Len(v) : Increasing(v[k].ns)
    BY <1>3, <1>4, <1>5, <1>7, NoneIncreasing
  <2>2. ASSUME NEW k \in 1 .. Len(v), NEW l \in 1 .. Len(v), k < l
        PROVE  Above(ToSet(v[k].ns), ToSet(v[l].ns))
    <3>1. CASE v[k] = s[k] /\ v[l] = s[l]
      BY <1>5, <1>7, <2>2, <3>1
    <3>2. CASE v[k] = b \/ v[l] = b
      BY <1>4, <3>2, NoneIncreasing DEF Above
    <3> QED
      BY <1>3, <1>5, <3>1, <3>2
  <2> QED
    BY <2>1, <2>2 DEF Ordered
<1>9. LinesOf(v) \subseteq LinesOf(s)
  BY <1>3, <1>4, <1>5, NoneIncreasing DEF LinesOf
<1> QED
  BY <1>5, <1>6, <1>8, <1>9 DEF Good

\* The lines of code that is cut from a list.
LEMMA CodeLines ==
    ASSUME NEW s, Good(s), NEW m \in 1 .. Len(s) + 1, NEW n \in 0 .. Len(s)
    PROVE  \A v \in {WithMarkup(SubSeq(s, m, n)), WithText(SubSeq(s, m, n)), SubSeq(s, m, n)} :
              Increasing(Lined(v)) /\ ToSet(Lined(v)) \subseteq Part(s, m, n + 1)
<1>1. Good(SubSeq(s, m, n)) /\ LinesOf(SubSeq(s, m, n)) \subseteq Part(s, m, n + 1)
  BY GoodPart
<1>2. \A v \in {WithMarkup(SubSeq(s, m, n)), WithText(SubSeq(s, m, n))} :
              Good(v) /\ LinesOf(v) \subseteq LinesOf(SubSeq(s, m, n))
  BY <1>1, GoodOnly
<1> QED
  BY <1>1, <1>2, GoodLined
-----------------------------------------------------------------------------
(***************************************************************************)
(* The lines that a frame has made tokens of stand above those it is still *)
(* to look at, and above those of the frames that it called; what it has   *)
(* still to look at is below them, but for a list, that is cut from it.    *)
(***************************************************************************)
GotLines(f) == IF f.fn = "list" THEN LinesOf(f.subTokens) \cup LinesOf(f.subItemTokens)
                                ELSE LinesOf(f.processed)
GotGood(f) ==
    IF f.fn = "list"
    THEN /\ Good(f.subTokens) /\ Good(f.subItemTokens)
         /\ Above(LinesOf(f.subTokens), LinesOf(f.subItemTokens))
    ELSE Good(f.processed)
All(f) == GotLines(f) \cup From(f.tgt, f.i)

FrameLines(f) == Good(f.tgt) /\ GotGood(f) /\ Above(GotLines(f), From(f.tgt, f.i))

StackLines(st, refs) ==
    /\ \A k \in 1 .. Len(st) : FrameLines(st[k]) /\ All(st[k]) \cap refs = {}
    /\ \A k, l \in 1 .. Len(st) : k < l => Above(GotLines(st[k]), All(st[l]))
    /\ \A k, l \in 1 .. Len(st) : k < l =>
          (st[k + 1].fn = "items" => Above(All(st[l]), From(st[k].tgt, st[k].i)))

LinesInv == StackLines(stack, references) /\ LinesInOrder

\* The lines of the frames from m on.
Span(st, m) == {n \in Nat : \E l \in 1 .. Len(st) : m =< l /\ n \in All(st[l])}

Calls(f, g) == /\ Above(GotLines(f), All(g))
               /\ g.fn = "items" => Above(All(g), From(f.tgt, f.i))
Fits(f, st, m) == FrameLines(f) /\ All(f) \subseteq Span(st, m)

LEMMA AllNat == ASSUME NEW f PROVE All(f) \subseteq Nat
BY DEF All, GotLines, LinesOf, From

LEMMA SpanFacts ==
    ASSUME NEW st, NEW refs, StackLines(st, refs), NEW m \in 1 .. Len(st), Len(st) \in Nat
    PROVE  /\ Span(st, m) \cap refs = {} /\ All(st[m]) \subseteq Span(st, m)
           /\ \A k \in 1 .. m - 1 :
                /\ Above(GotLines(st[k]), Span(st, m))
                /\ st[k + 1].fn = "items" => Above(Span(st, m), From(st[k].tgt, st[k].i))
<1>1. Span(st, m) \cap refs = {}
  BY DEF Span, StackLines
<1>2. All(st[m]) \subseteq Span(st, m)
  BY AllNat DEF Span
<1>3. ASSUME NEW k \in 1 .. m - 1
      PROVE  /\ Above(GotLines(st[k]), Span(st, m))
             /\ st[k + 1].fn = "items" => Above(Span(st, m), From(st[k].tgt, st[k].i))
  <2>1. k \in 1 .. Len(st) /\ \A l \in 1 .. Len(st) : m =< l => k < l
    OBVIOUS
  <2>2. \A l \in 1 .. Len(st) : m =< l =>
           /\ Above(GotLines(st[k]), All(st[l]))
           /\ st[k + 1].fn = "items" => Above(All(st[l]), From(st[k].tgt, st[k].i))
    BY <2>1 DEF StackLines
  <2> QED
    BY <2>2 DEF Span, Above
<1> QED
  BY <1>1, <1>2, <1>3

\* The frame at m is another, and may have called one.
LEMMA LinesShape ==
    ASSUME NEW st, NEW refs, StackLines(st, refs), NEW m \in 1 .. Len(st), Len(st) \in Nat,
           NEW new, NEW f, NEW g, Len(new) = m \/ Len(new) = m + 1,
           \A k \in 1 .. m - 1 : new[k] = st[k],
           new[m] = f, f.fn = st[m].fn, Fits(f, st, m),
           Len(new) = m + 1 => new[m + 1] = g /\ Fits(g, st, m) /\ Calls(f, g)
    PROVE  StackLines(new, refs)
<1>1. /\ Span(st, m) \cap refs = {}
      /\ \A k \in 1 .. m - 1 :
            /\ Above(GotLines(st[k]), Span(st, m))
            /\ st[k + 1].fn = "items" => Above(Span(st, m), From(st[k].tgt, st[k].i))
  BY SpanFacts
<1>2. ASSUME NEW k \in 1 .. Len(new)
      PROVE  \/ k \in 1 .. m - 1 /\ k \in 1 .. Len(st) /\ new[k] = st[k]
             \/ k = m
             \/ k = m + 1 /\ Len(new) = m + 1
  OBVIOUS
<1>3. ASSUME NEW k \in 1 .. Len(new), k >= m
      PROVE  FrameLines(new[k]) /\ All(new[k]) \subseteq Span(st, m)
  BY <1>2, <1>3 DEF Fits
<1>4. \A k \in 1 .. Len(new) : FrameLines(new[k]) /\ All(new[k]) \cap refs = {}
  <2> TAKE k \in 1 .. Len(new)
  <2>1. CASE k >= m
    BY <1>1, <1>3, <2>1
  <2>2. CASE ~(k >= m)
    <3>1. k \in 1 .. Len(st) /\ new[k] = st[k]
      <4>1. m \in Nat /\ k \in Nat
        OBVIOUS
      <4> QED
        BY <1>2, <2>2, <4>1
    <3>2. FrameLines(st[k]) /\ All(st[k]) \cap refs = {}
      BY <3>1 DEF StackLines
    <3> QED
      BY <3>1, <3>2
  <2> QED
    BY <2>1, <2>2
<1>5. \A k \in 1 .. m - 1 : new[k + 1].fn = st[k + 1].fn
  <2> TAKE k \in 1 .. m - 1
  <2>1. k + 1 = m \/ k + 1 \in 1 .. m - 1
    OBVIOUS
  <2> QED
    BY <2>1
<1>6. ASSUME NEW k \in 1 .. Len(new), NEW l \in 1 .. Len(new), k < l
      PROVE  /\ Above(GotLines(new[k]), All(new[l]))
             /\ new[k + 1].fn = "items" => Above(All(new[l]), From(new[k].tgt, new[k].i))
  <2>1. CASE l < m
    <3>0. Len(new) \in Nat /\ m \in Nat /\ m =< Len(st)
      OBVIOUS
    <3>1. k \in 1 .. m - 1 /\ l \in 1 .. m - 1 /\ k \in 1 .. Len(st) /\ l \in 1 .. Len(st)
      BY <1>6, <2>1, <3>0
    <3>2. new[k] = st[k] /\ new[l] = st[l] /\ new[k + 1].fn = st[k + 1].fn
      BY <1>5, <3>1
    <3> QED
      BY <1>6, <3>1, <3>2 DEF StackLines
  <2>2. CASE k < m /\ l >= m
    <3>1. k \in 1 .. m - 1
      BY <2>2
    <3>2. new[k] = st[k] /\ new[k + 1].fn = st[k + 1].fn /\ All(new[l]) \subseteq Span(st, m)
      BY <1>3, <1>5, <2>2, <3>1
    <3> QED
      BY <1>1, <3>1, <3>2 DEF Above
  <2>3. CASE k >= m
    <3>1. k = m /\ l = m + 1 /\ Len(new) = m + 1
      BY <1>6, <2>3
    <3> QED
      BY <3>1 DEF Calls
  <2> QED
    BY <2>1, <2>2, <2>3
<1> QED
  BY <1>4, <1>6 DEF StackLines

LEMMA LinesReplaced ==
    ASSUME NEW doc, NEW st, StackOK(st, doc), NEW refs, StackLines(st, refs),
           NEW m \in 1 .. Len(st), NEW f, f.fn = st[m].fn, Fits(f, st, m)
    PROVE  StackLines(Replaced(st, m, f), refs)
<1>1. PICK S : st \in Seq(S)
  BY DEF StackOK
<1> DEFINE new == Replaced(st, m, f)
           U == S \cup {f}
           rest == SubSeq(st, 1, m - 1)
<1>2. /\ Len(st) \in Nat /\ rest \in Seq(U) /\ Len(rest) = m - 1
      /\ \A k \in 1 .. m - 1 : rest[k] = st[k]
  BY <1>1
<1>3. new = Append(rest, f)
  BY DEF Replaced
<1> HIDE DEF new, rest
<1>4. Len(new) = m /\ new[m] = f /\ \A k \in 1 .. m - 1 : new[k] = st[k]
  <2>1. f \in U
    OBVIOUS
  <2> HIDE DEF U
  <2> QED
    BY <1>2, <1>3, <2>1
<1>5. StackLines(new, refs)
  BY <1>2, <1>4, LinesShape
<1> QED
  BY <1>5 DEF new

LEMMA LinesCalled ==
    ASSUME NEW doc, NEW st, StackOK(st, doc), NEW refs, StackLines(st, refs),
           NEW m \in 1 .. Len(st), NEW f, f.fn = st[m].fn, Fits(f, st, m),
           NEW g, Fits(g, st, m), Calls(f, g)
    PROVE  StackLines(Called(st, m, f, g), refs)
<1>1. PICK S : st \in Seq(S)
  BY DEF StackOK
<1> DEFINE new == Called(st, m, f, g)
           U == S \cup {f, g}
           rest == SubSeq(st, 1, m - 1)
<1>2. /\ Len(st) \in Nat /\ rest \in Seq(U) /\ Len(rest) = m - 1
      /\ \A k \in 1 .. m - 1 : rest[k] = st[k]
  BY <1>1
<1>3. new = rest \o <<f, g>>
  BY DEF Called
<1> HIDE DEF new, rest
<1>4. Len(new) = m + 1 /\ new[m] = f /\ new[m + 1] = g /\ \A k \in 1 .. m - 1 : new[k] = st[k]
  <2> DEFINE p == <<f, g>>
  <2>1. p \in Seq(U) /\ Len(p) = 2 /\ p[1] = f /\ p[2] = g
    OBVIOUS
  <2> HIDE DEF U, p
  <2>2. /\ Len(new) = Len(rest) + Len(p)
        /\ \A k \in 1 .. Len(rest) + Len(p) : new[k] = IF k =< Len(rest) THEN rest[k] ELSE p[k - Len(rest)]
    BY <1>2, <1>3, <2>1
  <2>3. Len(new) = m + 1
    BY <1>2, <2>1, <2>2
  <2>4. ASSUME NEW k \in 1 .. m - 1 PROVE new[k] = st[k]
    <3>1. k \in 1 .. Len(rest) + Len(p) /\ k =< Len(rest)
      BY <1>2, <2>1
    <3> QED
      BY <1>2, <2>2, <3>1
  <2>5. PICK a, b \in 1 .. Len(rest) + Len(p) : a = m /\ b = m + 1
    <3>1. m \in 1 .. Len(rest) + Len(p) /\ m + 1 \in 1 .. Len(rest) + Len(p)
      BY <1>2, <2>1
    <3> QED
      BY <3>1
  <2>6. a - Len(rest) = 1 /\ b - Len(rest) = 2 /\ ~(a =< Len(rest)) /\ ~(b =< Len(rest))
    BY <1>2, <2>5
  <2>7. new[a] = f /\ new[b] = g
    BY <2>1, <2>2, <2>6
  <2> QED
    BY <2>3, <2>4, <2>5, <2>7
<1>5. StackLines(new, refs)
  BY <1>2, <1>4, LinesShape
<1> QED
  BY <1>5 DEF new

LEMMA LinesAppended ==
    ASSUME NEW doc, NEW st, StackOK(st, doc), NEW refs, StackLines(st, refs),
           NEW f, f = st[Len(st)], NEW g, Fits(g, st, Len(st)), Calls(f, g)
    PROVE  StackLines(Append(st, g), refs)
<1>1. PICK S : st \in Seq(S)
  BY DEF StackOK
<1> DEFINE new == Append(st, g)
           m == Len(st)
<1>2. m \in Nat /\ m \in 1 .. Len(st)
  BY <1>1, StackFacts
<1>3. Len(new) = m + 1 /\ new[m] = f /\ new[m + 1] = g /\ \A k \in 1 .. m - 1 : new[k] = st[k]
  <2>1. st \in Seq(S \cup {g}) /\ g \in S \cup {g}
    BY <1>1
  <2> QED
    BY <1>2, <2>1
<1>4. Fits(f, st, m)
  BY <1>2, SpanFacts DEF Fits, StackLines
<1> HIDE DEF new, m
<1>5. f.fn = st[m].fn /\ Len(st) \in Nat
  BY <1>2 DEF m
<1>6. Fits(g, st, m)
  BY DEF m
<1>7. StackLines(new, refs)
  BY <1>2, <1>3, <1>4, <1>5, <1>6, LinesShape
<1> QED
  BY <1>7 DEF new
-----------------------------------------------------------------------------
LEMMA LinesTop ==
    ASSUME BlocksInv, LinesInv
    PROVE  /\ StackLines(stack, references) /\ Len(stack) \in 1 .. Len(stack) /\ Len(stack) \in Nat
           /\ FrameLines(Top) /\ Good(Top.tgt) /\ GotGood(Top) /\ All(Top) \cap references = {}
           /\ Above(GotLines(Top), From(Top.tgt, Top.i)) /\ All(Top) \subseteq Span(stack, Len(stack))
<1>1. StackLines(stack, references) /\ Len(stack) \in 1 .. Len(stack) /\ Len(stack) \in Nat
  BY TopFacts DEF LinesInv
<1>2. FrameLines(Top) /\ All(Top) \cap references = {}
  BY <1>1 DEF StackLines, Top
<1>3. All(Top) \subseteq Span(stack, Len(stack))
  BY <1>1, SpanFacts DEF Top
<1> QED
  BY <1>1, <1>2, <1>3 DEF FrameLines

\* A step that is not the last.
LEMMA LinesStep ==
    ASSUME StackLines(stack', references'), outcome' # "done"
    PROVE  LinesInv'
BY DEF LinesInv, LinesInOrder

\* These tokens have lines from the place of the frame on, up to j.
Taken(f, toks, j) ==
    /\ Good(toks) /\ Within(j, f.tgt) /\ f.i =< j /\ LinesOf(toks) \subseteq Part(f.tgt, f.i, j)

LEMMA TakenFacts ==
    ASSUME NEW f, FrameLines(f), Within(f.i, f.tgt), NEW toks, NEW j, Taken(f, toks, j)
    PROVE  /\ LinesOf(toks) \subseteq From(f.tgt, f.i) /\ From(f.tgt, j) \subseteq From(f.tgt, f.i)
           /\ Above(LinesOf(toks), From(f.tgt, j)) /\ Above(GotLines(f), LinesOf(toks))
           /\ Above(GotLines(f), From(f.tgt, j))
<1>1. Good(f.tgt) /\ Above(GotLines(f), From(f.tgt, f.i))
  BY DEF FrameLines
<1>2. Len(f.tgt) \in Nat
  BY <1>1, GoodType
<1>3. f.i \in Nat /\ j \in Nat /\ f.i =< j
  BY <1>2 DEF Within, Taken
<1>4. /\ Above(Part(f.tgt, f.i, j), From(f.tgt, j)) /\ From(f.tgt, j) \subseteq From(f.tgt, f.i)
      /\ Part(f.tgt, f.i, j) \subseteq From(f.tgt, f.i)
  BY <1>1, <1>3, PartFacts
<1> QED
  BY <1>1, <1>4 DEF Above, Taken

LEMMA PushedLines ==
    ASSUME NEW doc, NEW f, FrameOK(f, doc), f.fn = "items", FrameLines(f),
           NEW toks, NEW j, Taken(f, toks, j)
    PROVE  LET g == Pushed(f, f.processed \o toks, j) IN FrameLines(g) /\ All(g) \subseteq All(f)
<1> DEFINE p == f.processed \o toks
           g == Pushed(f, p, j)
<1>1. Within(f.i, f.tgt) /\ Within(j, f.tgt) /\ Good(toks) /\ Good(f.processed) /\ Good(f.tgt)
      /\ GotLines(f) = LinesOf(f.processed)
  BY DEF FrameOK, Taken, FrameLines, GotGood, GotLines
<1>2. /\ LinesOf(toks) \subseteq From(f.tgt, f.i) /\ From(f.tgt, j) \subseteq From(f.tgt, f.i)
      /\ Above(LinesOf(toks), From(f.tgt, j)) /\ Above(GotLines(f), LinesOf(toks))
      /\ Above(GotLines(f), From(f.tgt, j))
  BY <1>1, TakenFacts
<1>3. Good(p) /\ LinesOf(p) = LinesOf(f.processed) \cup LinesOf(toks)
  BY <1>1, <1>2, GoodConcat
<1> HIDE DEF p
<1>4. StaysOn(g, f, j) /\ HasProcessed(g, p)
  BY <1>1, ItemsGoOn
<1>5. g.fn = "items" /\ g.tgt = f.tgt /\ g.i = j /\ g.processed = p
  BY <1>4 DEF StaysOn, HasProcessed
<1> HIDE DEF g
<1>6. GotLines(g) = LinesOf(f.processed) \cup LinesOf(toks) /\ GotGood(g)
  BY <1>3, <1>5 DEF GotLines, GotGood
<1>7. Above(GotLines(g), From(g.tgt, g.i))
  BY <1>1, <1>2, <1>5, <1>6 DEF Above
<1>8. All(g) \subseteq All(f)
  BY <1>1, <1>2, <1>5, <1>6 DEF All
<1> QED
  BY <1>1, <1>5, <1>6, <1>7, <1>8 DEF FrameLines, g, p

LEMMA LinesPush ==
    ASSUME BlocksInv, LinesInv, Top.fn = "items", outcome' # "done",
           \E toks, j : Taken(Top, toks, j) /\ Push(toks, j),
           UNCHANGED references
    PROVE  LinesInv'
<1>1. PICK toks, j : Taken(Top, toks, j) /\ Push(toks, j)
  OBVIOUS
<1> DEFINE f == Pushed(Top, Top.processed \o toks, j)
<1>2. stack' = Replaced(stack, Len(stack), f)
  BY <1>1 DEF Push, Change, Pushed, Replaced, Front
<1>3. FrameOK(Top, document) /\ StackOK(stack, document)
  BY TopFacts
<1>4. FrameLines(f) /\ All(f) \subseteq All(Top)
  BY <1>1, <1>3, LinesTop, PushedLines
<1>5. Within(j, Top.tgt)
  BY <1>1 DEF Taken
<1>6. f.fn = stack[Len(stack)].fn
  BY <1>3, <1>5, ItemsGoOn DEF StaysOn, Top
<1> HIDE DEF f
<1>7. Fits(f, stack, Len(stack))
  BY <1>4, LinesTop DEF Fits
<1>8. StackLines(Replaced(stack, Len(stack), f), references)
  BY <1>3, <1>6, <1>7, LinesTop, LinesReplaced
<1> QED
  BY <1>2, <1>8, LinesStep

\* One token for lines from here to j.
LEMMA TakenOne ==
    ASSUME NEW f, NEW t, NEW j, Increasing(t.ns), t.sub = << >>, Within(j, f.tgt), f.i =< j,
           ToSet(t.ns) \subseteq Part(f.tgt, f.i, j)
    PROVE  Taken(f, <<t>>, j)
<1>1. Good(<<t>>) /\ LinesOf(<<t>>) = ToSet(t.ns)
  BY GoodLeaf
<1> QED
  BY <1>1 DEF Taken

\* The lines of the token at hand, and those up to e.
LEMMA TopLines ==
    ASSUME BlocksInv, LinesInv, There(Top.i)
    PROVE  /\ Top.i \in 1 .. Len(Top.tgt) /\ Top.i \in Nat /\ Top.i =< Top.i + 1
           /\ Within(Top.i + 1, Top.tgt) /\ Taken(Top, <<Token(Top.i)>>, Top.i + 1)
           /\ Increasing(Token(Top.i).ns)
           /\ ToSet(Token(Top.i).ns) \subseteq Part(Top.tgt, Top.i, Top.i + 1)
<1>1. /\ Top.i \in 1 .. Len(Top.tgt) /\ Top.i \in Nat /\ Top.i =< Top.i + 1
      /\ Within(Top.i + 1, Top.tgt)
  BY TopFacts DEF There, Within
<1>2. Good(Top.tgt)
  BY LinesTop
<1>3. Good(<<Token(Top.i)>>) /\ LinesOf(<<Token(Top.i)>>) = ToSet(Token(Top.i).ns)
      /\ Increasing(Token(Top.i).ns)
  BY <1>1, <1>2, GoodOne, GoodAt DEF Token
<1>4. ToSet(Token(Top.i).ns) \subseteq Part(Top.tgt, Top.i, Top.i + 1)
  BY <1>1, <1>2, PartAt DEF Token
<1> QED
  BY <1>1, <1>3, <1>4 DEF Taken

LEMMA LeafTaken ==
    ASSUME BlocksInv, LinesInv, There(Top.i), NEW e \in Top.i .. Len(Top.tgt), NEW kind,
           NEW j, Within(j, Top.tgt), e < j
    PROVE  \A v \in {WithMarkup(SubSeq(Top.tgt, Top.i, e)), WithText(SubSeq(Top.tgt, Top.i, e)),
                     SubSeq(Top.tgt, Top.i, e)} :
              Taken(Top, <<Leaf(kind, Lined(v))>>, j)
<1> SUFFICES ASSUME NEW v \in {WithMarkup(SubSeq(Top.tgt, Top.i, e)),
                               WithText(SubSeq(Top.tgt, Top.i, e)), SubSeq(Top.tgt, Top.i, e)}
             PROVE  Taken(Top, <<Leaf(kind, Lined(v))>>, j)
  OBVIOUS
<1>1. /\ Top.i \in 1 .. Len(Top.tgt) + 1 /\ e \in 0 .. Len(Top.tgt) /\ Top.i \in Nat /\ j \in Nat
      /\ e + 1 \in Nat /\ e + 1 =< j /\ Top.i =< j /\ Top.i =< e + 1
  BY TopFacts DEF Within
<1>2. Increasing(Lined(v)) /\ ToSet(Lined(v)) \subseteq Part(Top.tgt, Top.i, e + 1)
  BY <1>1, LinesTop, CodeLines
<1>3. Part(Top.tgt, Top.i, e + 1) \subseteq Part(Top.tgt, Top.i, j)
  BY <1>1, LinesTop, PartFacts
<1> DEFINE t == Leaf(kind, Lined(v))
<1>4. t.ns = Lined(v) /\ t.sub = << >>
  BY DEF Leaf
<1> HIDE DEF t
<1>5. Taken(Top, <<t>>, j)
  BY <1>1, <1>2, <1>3, <1>4, TakenOne
<1> QED
  BY <1>5 DEF t
-----------------------------------------------------------------------------
LEMMA ItemsLines ==
    ASSUME NEW of, NEW s, Good(s)
    PROVE  /\ FrameLines(Items(of, s)) /\ All(Items(of, s)) \subseteq LinesOf(s)
           /\ Items(of, s).fn = "items"
<1> DEFINE f == Items(of, s)
<1>1. f.fn = "items" /\ f.tgt = s /\ f.i = 1 /\ f.processed = << >>
  BY DEF Items
<1> HIDE DEF f
<1>2. GotLines(f) = {} /\ GotGood(f)
  BY <1>1, GoodNone DEF GotLines, GotGood
<1>3. From(s, 1) \subseteq LinesOf(s)
  BY DEF From, LinesOf
<1>4. FrameLines(f) /\ All(f) \subseteq LinesOf(s)
  BY <1>1, <1>2, <1>3 DEF FrameLines, All, Above
<1> QED
  BY <1>1, <1>4 DEF f

LEMMA OneLines ==
    ASSUME NEW refs, NEW f, FrameLines(f), All(f) \cap refs = {}
    PROVE  StackLines(<<f>>, refs)
<1> DEFINE st == <<f>>
<1>1. Len(st) = 1 /\ st[1] = f
  OBVIOUS
<1> HIDE DEF st
<1>2. \A k \in 1 .. Len(st) : k = 1 /\ st[k] = f
  BY <1>1
<1>3. \A k, l \in 1 .. Len(st) : ~(k < l)
  BY <1>2
<1> QED
  BY <1>2, <1>3 DEF StackLines, st

LEMMA LinesInitially == BlocksInit => LinesInv
<1>0. SUFFICES ASSUME BlocksInit PROVE LinesInv
  OBVIOUS
<1> DEFINE s == [n \in DOMAIN document |->
                   IF IsBlankText(document[n]) THEN Blank(document[n], << >>)
                   ELSE Raw(document[n], <<n>>)]
           B == {n \in DOMAIN document : IsBlankText(document[n])}
           T == {Blank(document[n], << >>) : n \in B}
                  \cup {Raw(document[n], <<n>>) : n \in DOMAIN document \ B}
           f == Items(BlankLine, s)
<1>1. document \in Seq(Seq([sp : Nat, m : STRING]))
  BY <1>0, DocumentsAssumption DEF BlocksInit
<1>2. DOMAIN document = 1 .. Len(document) /\ Len(document) \in Nat
  BY <1>1
<1>3. /\ s \in Seq(T) /\ Len(s) = Len(document)
      /\ \A n \in 1 .. Len(document) : s[n] = Blank(document[n], << >>) \/ s[n] = Raw(document[n], <<n>>)
  <2>1. \A n \in 1 .. Len(document) : s[n] \in T
    BY <1>2
  <2>2. s \in [1 .. Len(document) -> T]
    BY <1>2, <2>1
  <2>3. \A n \in 1 .. Len(document) : s[n] = Blank(document[n], << >>) \/ s[n] = Raw(document[n], <<n>>)
    BY <1>2
  <2> HIDE DEF s, T
  <2> QED
    BY <1>2, <2>2, <2>3
<1>4. /\ \A n \in DOMAIN document :
            LET t == Blank(document[n], << >>) IN t.ns = << >> /\ t.sub = << >>
      /\ \A n \in DOMAIN document : LET t == Raw(document[n], <<n>>) IN t.ns = <<n>> /\ t.sub = << >>
  BY DEF Blank, Raw
<1>5. \A n \in Nat : Increasing(<<n>>) /\ ToSet(<<n>>) = {n}
  <2> TAKE n \in Nat
  <2> DEFINE a == <<n>>
  <2>1. a \in Seq(Nat) /\ Len(a) = 1 /\ a[1] = n /\ DOMAIN a = {1}
    OBVIOUS
  <2> HIDE DEF a
  <2>2. \A k, l \in 1 .. Len(a) : ~(k < l)
    BY <2>1
  <2>3. Increasing(a) /\ ToSet(a) = {n}
    BY <2>1, <2>2 DEF Increasing, ToSet
  <2> QED
    BY <2>3 DEF a
<1> HIDE DEF s
<1>6. \A n \in 1 .. Len(s) : Increasing(s[n].ns) /\ ToSet(s[n].ns) \subseteq {n}
  <2> TAKE n \in 1 .. Len(s)
  <2>1. n \in Nat /\ n \in DOMAIN document /\ n \in 1 .. Len(document)
    BY <1>2, <1>3
  <2>2. CASE s[n] = Blank(document[n], << >>)
    BY <1>4, <2>1, <2>2, NoneIncreasing
  <2>3. CASE s[n] = Raw(document[n], <<n>>)
    <3>1. s[n].ns = <<n>>
      BY <1>4, <2>1, <2>3
    <3> QED
      BY <1>5, <2>1, <3>1
  <2> QED
    BY <1>3, <2>1, <2>2, <2>3
<1>7. Ordered(s)
  BY <1>6 DEF Ordered, Above
<1>8. Nested(T)
  <2>1. << >> \in Seq(T)
    OBVIOUS
  <2>2. Ordered(<< >>) /\ LinesOf(<< >>) = {}
    BY GoodNone DEF Good
  <2>3. ASSUME NEW t \in T PROVE Increasing(t.ns) /\ t.sub = << >>
    <3>1. ASSUME NEW n \in DOMAIN document, t = Blank(document[n], << >>)
          PROVE  Increasing(t.ns) /\ t.sub = << >>
      BY <1>4, <3>1, NoneIncreasing
    <3>2. ASSUME NEW n \in DOMAIN document, t = Raw(document[n], <<n>>)
          PROVE  Increasing(t.ns) /\ t.sub = << >>
      <4>1. n \in Nat /\ t.ns = <<n>> /\ t.sub = << >>
        BY <1>2, <1>4, <3>2
      <4> QED
        BY <1>5, <4>1
    <3> QED
      BY <3>1, <3>2 DEF T
  <2> QED
    BY <2>1, <2>2, <2>3 DEF Nested
<1> HIDE DEF T
<1>9. Good(s)
  BY <1>3, <1>7, <1>8 DEF Good
<1>10. FrameLines(f)
  BY <1>9, ItemsLines
<1>11. stack = <<f>> /\ references = {} /\ outcome # "done"
  BY <1>0 DEF BlocksInit, s
<1> HIDE DEF f
<1>12. StackLines(stack, references)
  BY <1>10, <1>11, OneLines
<1> QED
  BY <1>11, <1>12 DEF LinesInv, LinesInOrder

LEMMA EndOfPassLines ==
    ASSUME BlocksInv, LinesInv, EndOfPass("merge", "html") \/ EndOfPass("html", "blocks")
    PROVE  LinesInv'
<1> DEFINE f == Items(BlankLine, Top.processed)
<1>1. /\ pass # "blocks" /\ outcome' # "done" /\ stack' = <<f>> /\ UNCHANGED references
  BY DEF EndOfPass, Running
<1>2. Top.fn = "items"
  <2>1. Len(stack) = 1
    BY <1>1 DEF BlocksInv
  <2> QED
    BY <2>1, TopFacts, StackFacts DEF Top
<1>3. Good(Top.processed) /\ LinesOf(Top.processed) \subseteq All(Top)
  BY <1>2, LinesTop DEF GotGood, GotLines, All
<1>4. FrameLines(f) /\ All(f) \subseteq LinesOf(Top.processed)
  BY <1>3, ItemsLines
<1>5. All(f) \cap references = {}
  BY <1>3, <1>4, LinesTop
<1> HIDE DEF f
<1>6. StackLines(stack', references')
  BY <1>1, <1>4, <1>5, OneLines
<1> QED
  BY <1>1, <1>6, LinesStep

LEMMA EarlyIsItems ==
    ASSUME BlocksInv, pass # "blocks"
    PROVE  Top.fn = "items"
<1>1. Len(stack) = 1
  BY DEF BlocksInv
<1> QED
  BY <1>1, TopFacts, StackFacts DEF Top

LEMMA MergeTagLines == ASSUME BlocksInv, LinesInv, MergeTag PROVE LinesInv'
<1> DEFINE i == Top.i
           made == Raw(<<[sp |-> 0, m |-> "<p>"]>>, Token(i).ns \o Token(i + 1).ns)
           first == Token(i).text
           starts == Token(i).kind = "raw" /\ AloneOrSpaced(first, "<p") /\ first[1].sp = 0
           both == starts /\ There(i + 1) /\ Alone(Token(i + 1).text, "p>")
<1>1. /\ pass # "blocks" /\ outcome' # "done" /\ There(i) /\ UNCHANGED references
      /\ IF both THEN Push(<<made>>, i + 2) ELSE Push(<<Token(i)>>, i + 1)
  BY DEF MergeTag, Running
<1>2. Top.fn = "items"
  BY <1>1, EarlyIsItems
<1>3. CASE both
  <2>1. Push(<<made>>, i + 2)
    BY <1>1, <1>3
  <2>2. There(i + 1)
    BY <1>3
  <2>3. /\ i \in 1 .. Len(Top.tgt) /\ i + 1 \in 1 .. Len(Top.tgt) /\ Within(i + 2, Top.tgt)
        /\ i \in Nat /\ i + 1 \in Nat /\ i + 2 \in Nat /\ i =< i + 1 /\ i + 1 =< i + 2 /\ i =< i + 2
        /\ i < i + 1 /\ (i + 1) + 1 = i + 2
    BY <2>2, TopFacts DEF There, Within
  <2>4. Good(Top.tgt)
    BY LinesTop
  <2> DEFINE a == Token(i).ns
             b == Token(i + 1).ns
  <2>5. Increasing(a) /\ Increasing(b) /\ Above(ToSet(a), ToSet(b))
    BY <2>3, <2>4 DEF Good, Ordered, Token
  <2>6. ToSet(a) \subseteq Part(Top.tgt, i, i + 1) /\ ToSet(b) \subseteq Part(Top.tgt, i + 1, i + 2)
    <3> DEFINE k == i + 1
    <3>1. ToSet(Top.tgt[k].ns) \subseteq Part(Top.tgt, k, k + 1)
      <4> HIDE DEF k
      <4>1. k \in 1 .. Len(Top.tgt)
        BY <2>3 DEF k
      <4> QED
        BY <2>4, <4>1, PartAt
    <3> QED
      BY <2>3, <2>4, <3>1, PartAt DEF Token
  <2>7. Part(Top.tgt, i, i + 1) \subseteq Part(Top.tgt, i, i + 2)
        /\ Part(Top.tgt, i + 1, i + 2) \subseteq Part(Top.tgt, i, i + 2)
    <3> DEFINE k == i + 1
               l == i + 2
    <3>1. k \in Nat /\ l \in Nat /\ i =< k /\ k =< l /\ i \in Nat
      BY <2>3
    <3> HIDE DEF k, l
    <3>2. Part(Top.tgt, i, k) \subseteq Part(Top.tgt, i, l) /\ Part(Top.tgt, k, l) \subseteq Part(Top.tgt, i, l)
      BY <2>4, <3>1, PartFacts
    <3> QED
      BY <3>2 DEF k, l
  <2>8. made.ns = a \o b /\ made.sub = << >>
    BY DEF Raw
  <2> HIDE DEF a, b, made
  <2>9. Increasing(a \o b) /\ ToSet(a \o b) = ToSet(a) \cup ToSet(b)
    BY <2>5, IncreasingConcat
  <2>10. Taken(Top, <<made>>, i + 2)
    BY <2>3, <2>6, <2>7, <2>8, <2>9, TakenOne
  <2> QED
    BY <1>1, <1>2, <2>1, <2>10, LinesPush
<1>4. CASE ~both
  <2>1. Push(<<Token(i)>>, i + 1)
    BY <1>1, <1>4
  <2> QED
    BY <1>1, <1>2, <2>1, TopLines, LinesPush
<1> QED
  BY <1>3, <1>4

LEMMA HtmlBlockLines == ASSUME BlocksInv, LinesInv, HtmlBlock PROVE LinesInv'
<1> DEFINE i == Top.i
           e == InlineHtml(i)
           v == SubSeq(Top.tgt, i, e)
           made == Leaf("html", Lined(v))
<1>1. /\ pass # "blocks" /\ outcome' # "done" /\ There(i) /\ e # 0
      /\ UNCHANGED references /\ Push(<<made>>, e + 1)
  BY DEF HtmlBlock, Running
<1>2. e \in i .. Len(Top.tgt)
  BY <1>1, InlineHtmlFacts
<1>3. Within(e + 1, Top.tgt) /\ e < e + 1
  BY <1>1, <1>2, TopFacts DEF There, Within
<1> HIDE DEF e
<1>4. Taken(Top, <<made>>, e + 1)
  BY <1>1, <1>2, <1>3, LeafTaken
<1>5. Top.fn = "items"
  BY <1>1, EarlyIsItems
<1> HIDE DEF made
<1> QED
  BY <1>1, <1>4, <1>5, LinesPush

LEMMA KeepRawLines == ASSUME BlocksInv, LinesInv, KeepRaw PROVE LinesInv'
<1>1. /\ pass # "blocks" /\ outcome' # "done" /\ There(Top.i) /\ UNCHANGED references
      /\ Push(<<Token(Top.i)>>, Top.i + 1)
  BY DEF KeepRaw, Running
<1>2. Top.fn = "items"
  BY <1>1, EarlyIsItems
<1> QED
  BY <1>1, <1>2, TopLines, LinesPush

LEMMA ReferenceLines == ASSUME BlocksInv, LinesInv, Reference PROVE LinesInv'
<1> DEFINE i == Top.i
           e == IF There(i + 1) /\ AloneOrSpaced(Token(i + 1).text, "(t)") THEN i + 1 ELSE i
           v == SubSeq(Top.tgt, i, e)
           j == e + 1
           f == Pushed(Top, Top.processed \o << >>, j)
<1>1. /\ pass # "blocks" /\ outcome' # "done" /\ There(i)
      /\ references' = references \cup ToSet(Lined(v)) /\ Push(<< >>, j)
  BY DEF Reference, Running
<1>2. /\ i \in 1 .. Len(Top.tgt) + 1 /\ e \in 0 .. Len(Top.tgt) /\ Within(j, Top.tgt)
      /\ i \in Nat /\ j \in Nat /\ i =< j
  BY <1>1, TopFacts DEF There, Within
<1>3. Len(stack) = 1 /\ Top.fn = "items"
  BY <1>1, EarlyIsItems DEF BlocksInv
<1> HIDE DEF e
<1>4. ToSet(Lined(v)) \subseteq Part(Top.tgt, i, j)
  BY <1>2, LinesTop, CodeLines
<1> HIDE DEF v, j
<1>5. Taken(Top, << >>, j)
  BY <1>2, GoodNone DEF Taken
<1>6. FrameOK(Top, document) /\ StackOK(stack, document)
  BY TopFacts
<1>7. FrameLines(f)
  BY <1>3, <1>5, <1>6, LinesTop, PushedLines
<1>8. StaysOn(f, Top, j) /\ HasProcessed(f, Top.processed \o << >>)
  BY <1>2, <1>3, <1>6, ItemsGoOn
<1>9. GotLines(f) = LinesOf(Top.processed) /\ LinesOf(Top.processed) = GotLines(Top)
  <2>1. Top.processed \o << >> = Top.processed
    <3>1. Good(Top.processed)
      BY <1>3, LinesTop DEF GotGood
    <3>2. PICK S : Top.processed \in Seq(S)
      BY <3>1, GoodType
    <3> QED
      BY <3>2
  <2> QED
    BY <1>3, <1>8, <2>1 DEF StaysOn, HasProcessed, GotLines
<1>10. /\ Above(Part(Top.tgt, i, j), From(Top.tgt, j)) /\ From(Top.tgt, j) \subseteq From(Top.tgt, i)
       /\ Part(Top.tgt, i, j) \subseteq From(Top.tgt, i)
  BY <1>2, LinesTop, PartFacts
<1>11. All(f) \cap references' = {}
  <2>1. All(f) = GotLines(Top) \cup From(Top.tgt, j)
    BY <1>8, <1>9 DEF All, StaysOn
  <2>2. Above(GotLines(Top), From(Top.tgt, i)) /\ All(Top) \cap references = {}
    BY LinesTop
  <2>3. GotLines(Top) \cap ToSet(Lined(v)) = {}
    <3> SUFFICES ASSUME NEW n \in GotLines(Top), n \in ToSet(Lined(v)) PROVE FALSE
      OBVIOUS
    <3>1. n < n /\ n \in Nat
      BY <1>4, <1>10, <2>2 DEF Above, From
    <3> QED
      BY <3>1
  <2>4. From(Top.tgt, j) \cap ToSet(Lined(v)) = {}
    <3> SUFFICES ASSUME NEW n \in From(Top.tgt, j), n \in ToSet(Lined(v)) PROVE FALSE
      OBVIOUS
    <3>1. n < n /\ n \in Nat
      BY <1>4, <1>10 DEF Above, From
    <3> QED
      BY <3>1
  <2>5. All(f) \subseteq All(Top)
    BY <1>10, <2>1 DEF All
  <2> QED
    BY <1>1, <2>1, <2>2, <2>3, <2>4, <2>5
<1>12. stack' = <<f>>
  <2>1. stack' = Replaced(stack, 1, f)
    BY <1>1, <1>3 DEF Push, Change, Pushed, Replaced, Front
  <2>2. PICK S : stack \in Seq(S)
    BY <1>6 DEF StackOK
  <2>3. SubSeq(stack, 1, 0) = << >> /\ 1 - 1 = 0
    BY <2>2
  <2> HIDE DEF f
  <2>4. Append(<< >>, f) = <<f>>
    OBVIOUS
  <2>5. Replaced(stack, 1, f) = Append(SubSeq(stack, 1, 0), f)
    BY <2>3 DEF Replaced
  <2> QED
    BY <2>1, <2>3, <2>4, <2>5
<1> HIDE DEF f
<1>13. StackLines(stack', references')
  BY <1>7, <1>11, <1>12, OneLines
<1> QED
  BY <1>1, <1>13, LinesStep

LEMMA HeaderLines == ASSUME BlocksInv, LinesInv, Header PROVE LinesInv'
<1> DEFINE e == IF IsHashHeader(Text) THEN Top.i ELSE Top.i + 1
           v == SubSeq(Top.tgt, Top.i, e)
           made == Leaf("header", Lined(v))
<1>1. /\ AtItem /\ IsHeader(Top.i) /\ Push(<<made>>, e + 1)
      /\ UNCHANGED <<references, outcome>>
  BY DEF Header
<1>2. e \in Top.i .. Len(Top.tgt) /\ Within(e + 1, Top.tgt) /\ e < e + 1
  <2>1. CASE IsHashHeader(Text)
    <3>1. e = Top.i
      BY <2>1
    <3> HIDE DEF e
    <3> QED
      BY <1>1, <3>1, AtItemFacts
  <2>2. CASE ~IsHashHeader(Text)
    <3>1. There(Top.i + 1)
      BY <1>1, <2>2 DEF IsHeader, Markup, Text
    <3>2. e = Top.i + 1
      BY <2>2
    <3> HIDE DEF e
    <3> QED
      BY <3>1, <3>2, TopFacts DEF There, Within
  <2> QED
    BY <2>1, <2>2
<1>3. There(Top.i) /\ Top.fn = "items" /\ outcome' # "done"
  BY <1>1, AtItemFacts
<1> HIDE DEF e
<1>4. Taken(Top, <<made>>, e + 1)
  BY <1>2, <1>3, LeafTaken
<1> HIDE DEF made
<1> QED
  BY <1>1, <1>3, <1>4, LinesPush

LEMMA HorizontalRuleLines == ASSUME BlocksInv, LinesInv, HorizontalRule PROVE LinesInv'
<1> DEFINE made == Leaf("hr", Token(Top.i).ns)
<1>1. AtItem /\ Push(<<made>>, Top.i + 1) /\ UNCHANGED <<references, outcome>>
  BY DEF HorizontalRule
<1>2. There(Top.i) /\ Top.fn = "items" /\ outcome' # "done"
  BY <1>1, AtItemFacts
<1>3. made.ns = Token(Top.i).ns /\ made.sub = << >>
  BY DEF Leaf
<1> HIDE DEF made
<1>4. Taken(Top, <<made>>, Top.i + 1)
  BY <1>2, <1>3, TopLines, TakenOne
<1> QED
  BY <1>1, <1>2, <1>4, LinesPush

LEMMA AfterFacts ==
    ASSUME BlocksInv, NEW i, Within(i, Top.tgt)
    PROVE  Within(After(i), Top.tgt) /\ i \in Nat /\ After(i) \in Nat /\ i =< After(i)
<1>1. Within(After(i), Top.tgt)
  BY AfterWithin
<1> QED
  BY <1>1, TopFacts DEF Within, After

LEMMA CodeEndFacts ==
    ASSUME BlocksInv, AtItem, Markup(Top.i), IsCode(Token(Top.i), 4)
    PROVE  CodeEnd(Top.i) \in Top.i .. Len(Top.tgt)
<1> DEFINE e == CodeEnd(Top.i)
           T == {k \in Top.i .. Len(Top.tgt) :
            /\ Markup(k) /\ IsCode(Token(k), 4)
            /\ \A l \in Top.i .. k : IsBlankLine(Token(l)) \/ (Markup(l) /\ IsCode(Token(l), 4))}
<1>1. Top.i \in Nat \ {0} /\ Top.i \in 1 .. Len(Top.tgt) /\ Len(Top.tgt) \in Nat
  BY AtItemFacts, TopFacts
<1>2. Top.i \in T
  <2>1. Top.i \in Top.i .. Len(Top.tgt) /\ \A l \in Top.i .. Top.i : l = Top.i
    BY <1>1
  <2> QED
    BY <2>1
<1>3. T \in SUBSET Nat /\ T # {} /\ \A k \in T : k =< Len(Top.tgt)
  BY <1>1, <1>2
<1>4. \A k \in T : k \in Top.i .. Len(Top.tgt)
  OBVIOUS
<1>5. e = Max(T)
  BY DEF CodeEnd
<1> HIDE DEF T, e
<1>6. Max(T) \in T
  BY <1>1, <1>3, LargestNat
<1> QED
  BY <1>4, <1>5, <1>6 DEF e

LEMMA CodeStepLines == ASSUME BlocksInv, LinesInv, Code PROVE LinesInv'
<1> DEFINE e == CodeEnd(Top.i)
           v == WithMarkup(SubSeq(Top.tgt, Top.i, e))
           made == Leaf("code", Lined(v))
           j == After(e + 1)
<1>1. /\ AtItem /\ IsCode(Token(Top.i), 4) /\ Markup(Top.i)
      /\ Push(<<made>>, j) /\ UNCHANGED <<references, outcome>>
  BY DEF Code, Undecided
<1>2. There(Top.i) /\ Top.fn = "items" /\ outcome' # "done"
  BY <1>1, AtItemFacts
<1>3. e \in Top.i .. Len(Top.tgt)
  BY <1>1, CodeEndFacts
<1> HIDE DEF e
<1>4. Within(j, Top.tgt) /\ e < j
  <2>1. Within(e + 1, Top.tgt)
    BY <1>3, TopFacts DEF Within
  <2>2. Within(j, Top.tgt) /\ j \in Nat /\ e + 1 =< j
    BY <2>1, AfterFacts
  <2> QED
    BY <1>3, <2>2, TopFacts
<1> HIDE DEF j
<1>5. Taken(Top, <<made>>, j)
  BY <1>2, <1>3, <1>4, LeafTaken
<1> HIDE DEF made
<1> QED
  BY <1>1, <1>2, <1>5, LinesPush

LEMMA KeepLines == ASSUME BlocksInv, LinesInv, Keep PROVE LinesInv'
<1>1. AtItem /\ Push(<<Token(Top.i)>>, Top.i + 1) /\ UNCHANGED <<references, outcome>>
  BY DEF Keep
<1>2. There(Top.i) /\ Top.fn = "items" /\ outcome' # "done"
  BY <1>1, AtItemFacts
<1> QED
  BY <1>1, <1>2, TopLines, LinesPush
-----------------------------------------------------------------------------
\* The frame goes on at j, and what it calls has lines from before j.
LEMMA MovedLines ==
    ASSUME NEW doc, NEW f, FrameOK(f, doc), f.fn = "items", FrameLines(f),
           NEW j, Within(j, f.tgt), f.i =< j
    PROVE  /\ FrameLines(Moved(f, j)) /\ All(Moved(f, j)) \subseteq All(f)
           /\ GotLines(Moved(f, j)) = GotLines(f) /\ Moved(f, j).fn = "items"
           /\ Moved(f, j).tgt = f.tgt /\ Moved(f, j).i = j
<1> DEFINE g == Moved(f, j)
<1>1. StaysOn(g, f, j)
  BY ItemsGoOn
<1>2. g.processed = f.processed
  <2>1. IsItemsFrame(f)
    BY DEF FrameOK, IsListFrame
  <2> QED
    BY <2>1 DEF IsItemsFrame, Moved
<1>3. g.fn = "items" /\ g.tgt = f.tgt /\ g.i = j
  BY <1>1 DEF StaysOn
<1> HIDE DEF g
<1>4. GotLines(g) = GotLines(f) /\ GotGood(g) /\ Good(g.tgt)
  BY <1>2, <1>3 DEF GotLines, GotGood, FrameLines
<1>5. Len(f.tgt) \in Nat
  BY GoodType DEF FrameLines
<1>6. Within(f.i, f.tgt)
  BY DEF FrameOK
<1>7. From(f.tgt, j) \subseteq From(f.tgt, f.i)
  <2>1. j \in Nat /\ f.i \in Nat
    BY <1>5, <1>6 DEF Within
  <2> QED
    BY <2>1, PartFacts DEF FrameLines
<1>8. Above(GotLines(g), From(g.tgt, g.i)) /\ All(g) \subseteq All(f)
  BY <1>3, <1>4, <1>7 DEF FrameLines, Above, All
<1> QED
  BY <1>3, <1>4, <1>8 DEF FrameLines, g

\* What Descend needs of the tokens it takes along.
LEMMA CallsItems ==
    ASSUME NEW doc, NEW f, FrameOK(f, doc), f.fn = "items", FrameLines(f),
           NEW toks, NEW j, Taken(f, toks, j), NEW of
    PROVE  /\ FrameLines(Moved(f, j)) /\ All(Moved(f, j)) \subseteq All(f)
           /\ FrameLines(Items(of, toks)) /\ All(Items(of, toks)) \subseteq All(f)
           /\ Calls(Moved(f, j), Items(of, toks)) /\ Moved(f, j).fn = "items"
<1>1. /\ LinesOf(toks) \subseteq From(f.tgt, f.i) /\ From(f.tgt, j) \subseteq From(f.tgt, f.i)
      /\ Above(LinesOf(toks), From(f.tgt, j)) /\ Above(GotLines(f), LinesOf(toks))
  <2>1. Within(f.i, f.tgt)
    BY DEF FrameOK
  <2> QED
    BY <2>1, TakenFacts
<1>2. /\ FrameLines(Moved(f, j)) /\ All(Moved(f, j)) \subseteq All(f)
      /\ GotLines(Moved(f, j)) = GotLines(f) /\ Moved(f, j).fn = "items"
      /\ Moved(f, j).tgt = f.tgt /\ Moved(f, j).i = j
  BY MovedLines DEF Taken
<1>3. /\ FrameLines(Items(of, toks)) /\ All(Items(of, toks)) \subseteq LinesOf(toks)
      /\ Items(of, toks).fn = "items"
  BY ItemsLines DEF Taken
<1>4. All(Items(of, toks)) \subseteq All(f)
  BY <1>1, <1>3 DEF All
<1>5. Calls(Moved(f, j), Items(of, toks))
  BY <1>1, <1>2, <1>3 DEF Calls, Above
<1> QED
  BY <1>2, <1>3, <1>4, <1>5

LEMMA DescendLines ==
    ASSUME BlocksInv, LinesInv, AtItem, UNCHANGED <<references, outcome>>,
           \E of, toks, j : /\ Taken(Top, toks, j)
                            /\ stack' = Called(stack, Len(stack), Moved(Top, j), Items(of, toks))
    PROVE  LinesInv'
<1>1. PICK of, toks, j : /\ Taken(Top, toks, j)
                         /\ stack' = Called(stack, Len(stack), Moved(Top, j), Items(of, toks))
  OBVIOUS
<1>2. FrameOK(Top, document) /\ StackOK(stack, document) /\ Top.fn = "items" /\ outcome' # "done"
  BY TopFacts, AtItemFacts
<1> DEFINE f == Moved(Top, j)
           g == Items(of, toks)
<1>3. /\ FrameLines(f) /\ All(f) \subseteq All(Top) /\ FrameLines(g) /\ All(g) \subseteq All(Top)
      /\ Calls(f, g) /\ f.fn = "items"
  BY <1>1, <1>2, LinesTop, CallsItems
<1> HIDE DEF f, g
<1>4. Fits(f, stack, Len(stack)) /\ Fits(g, stack, Len(stack))
  BY <1>3, LinesTop DEF Fits
<1>5. f.fn = stack[Len(stack)].fn
  BY <1>2, <1>3 DEF Top
<1>6. StackLines(Called(stack, Len(stack), f, g), references)
  BY <1>2, <1>3, <1>4, <1>5, LinesTop, LinesCalled
<1> QED
  BY <1>1, <1>2, <1>6, LinesStep DEF f, g

LEMMA IntoContainerLines == ASSUME BlocksInv, LinesInv, IntoContainer PROVE LinesInv'
<1> DEFINE tok == Token(Top.i)
           j == Top.i + 1
<1>1. /\ AtItem /\ UNCHANGED <<references, outcome>>
      /\ stack' = Called(stack, Len(stack), Moved(Top, j), Items(tok, tok.sub))
  BY DEF IntoContainer, Descend, Called, Moved, Front
<1>2. There(Top.i)
  BY <1>1, AtItemFacts
<1>3. /\ Within(j, Top.tgt) /\ Top.i =< j /\ Top.i \in 1 .. Len(Top.tgt)
      /\ ToSet(tok.ns) \subseteq Part(Top.tgt, Top.i, j)
  BY <1>2, TopLines
<1>4. Good(tok.sub) /\ LinesOf(tok.sub) \subseteq ToSet(tok.ns)
  BY <1>3, LinesTop, GoodAt DEF Token
<1> HIDE DEF tok, j
<1>5. Taken(Top, tok.sub, j)
  BY <1>3, <1>4 DEF Taken
<1> QED
  BY <1>1, <1>5, DescendLines

\* What comes of one part of a list and of the next.
LEMMA PartTogether ==
    ASSUME NEW s, Good(s), NEW i \in Nat, NEW j \in Nat, NEW l \in Nat, i =< j, j =< l,
           NEW a, Good(a), LinesOf(a) \subseteq Part(s, i, j),
           NEW b, Good(b), LinesOf(b) \subseteq Part(s, j, l)
    PROVE  Good(a \o b) /\ LinesOf(a \o b) \subseteq Part(s, i, l)
<1>1. Above(Part(s, i, j), From(s, j)) /\ Part(s, j, l) \subseteq From(s, j)
  BY PartFacts
<1>2. Above(LinesOf(a), LinesOf(b))
  BY <1>1 DEF Above
<1>3. Part(s, i, j) \subseteq Part(s, i, l) /\ Part(s, j, l) \subseteq Part(s, i, l)
  BY PartFacts
<1> QED
  BY <1>2, <1>3, GoodConcat

LEMMA BlankLines == Good(<<BlankLine>>) /\ LinesOf(<<BlankLine>>) = {}
<1> DEFINE b == BlankLine
<1>1. b.ns = << >> /\ b.sub = << >>
  BY DEF BlankLine, Blank
<1> HIDE DEF b
<1>2. Good(<<b>>) /\ LinesOf(<<b>>) = {}
  BY <1>1, NoneIncreasing, GoodLeaf
<1> QED
  BY <1>2 DEF b

LEMMA BlankBefore ==
    ASSUME NEW t, Good(<<t>>)
    PROVE  Good(<<BlankLine, t>>) /\ LinesOf(<<BlankLine, t>>) = LinesOf(<<t>>)
<1> DEFINE b == BlankLine
<1>1. Good(<<b>>) /\ LinesOf(<<b>>) = {}
  BY BlankLines
<1> HIDE DEF b
<1>2. Above(LinesOf(<<b>>), LinesOf(<<t>>))
  BY <1>1 DEF Above
<1> DEFINE x == <<b>>
           y == <<t>>
           V == {b, t}
           z == <<b, t>>
<1>3. /\ x \in Seq(V) /\ y \in Seq(V) /\ z \in Seq(V)
      /\ Len(x) = 1 /\ Len(y) = 1 /\ Len(z) = 2 /\ x[1] = b /\ y[1] = t /\ z[1] = b /\ z[2] = t
  OBVIOUS
<1>4. Good(x) /\ Good(y) /\ Above(LinesOf(x), LinesOf(y)) /\ LinesOf(x) = {}
  BY <1>1, <1>2
<1> HIDE DEF x, y, z, V
<1>5. Good(x \o y) /\ LinesOf(x \o y) = LinesOf(x) \cup LinesOf(y)
  BY <1>4, GoodConcat
<1>6. x \o y = z
  <2> DEFINE c == x \o y
  <2>0. x \in Seq(V) /\ y \in Seq(V)
    BY <1>3
  <2>1. /\ c \in Seq(V) /\ Len(c) = Len(x) + Len(y)
        /\ \A k \in 1 .. Len(x) + Len(y) : c[k] = IF k =< Len(x) THEN x[k] ELSE y[k - Len(x)]
    BY <2>0
  <2> HIDE DEF c
  <2>2. /\ 2 - Len(x) = 1 /\ ~(2 =< Len(x)) /\ 1 =< Len(x) /\ Len(c) = 2
        /\ 1 \in 1 .. Len(x) + Len(y) /\ 2 \in 1 .. Len(x) + Len(y)
    BY <1>3, <2>1
  <2>3. c[1] = b /\ c[2] = t
    BY <1>3, <2>1, <2>2
  <2>4. \A k \in 1 .. 2 : c[k] = z[k]
    <3>1. \A k \in 1 .. 2 : k = 1 \/ k = 2
      OBVIOUS
    <3> QED
      BY <1>3, <2>3, <3>1
  <2>5. c = z
    BY <1>3, <2>1, <2>4, SeqEqual
  <2> QED
    BY <2>5 DEF c
<1>7. LinesOf(x) \cup LinesOf(y) = LinesOf(y)
  BY <1>4
<1> QED
  BY <1>5, <1>6, <1>7 DEF y, z, b

\* The rest of a quote from k on.
QuoteLines(r, toks, k) ==
    /\ r = [end |-> r.end, sub |-> r.sub, none |-> r.none]
    /\ Within(r.end, toks) /\ k =< r.end
    /\ Good(r.sub) /\ LinesOf(r.sub) \subseteq Part(toks, k, r.end)

LEMMA QuoteEndsLines ==
    ASSUME NEW toks, Len(toks) \in Nat, NEW k \in Nat, NEW l, Within(l, toks), k =< l
    PROVE  QuoteLines(QuoteStop(l), toks, k) /\ (k = l => QuoteLines(QuoteNone(l), toks, k))
<1>1. Good(<< >>) /\ LinesOf(<< >>) = {}
  BY GoodNone
<1> DEFINE a == QuoteStop(l)
           b == QuoteNone(l)
<1>2. /\ a = [end |-> a.end, sub |-> a.sub, none |-> a.none]
      /\ a.end = l /\ a.sub = << >> /\ a.none = FALSE
  BY DEF QuoteStop
<1> HIDE DEF a
<1>3. b = [end |-> b.end, sub |-> b.sub, none |-> b.none] /\ b.end = l /\ b.sub = << >>
  <2>1. b = [a EXCEPT !.none = TRUE]
    BY DEF QuoteNone, a
  <2>2. b.end = a.end /\ b.sub = a.sub
    BY <1>2, <2>1
  <2>3. b = [end |-> b.end, sub |-> b.sub, none |-> b.none]
    BY <1>2, <2>1
  <2> QED
    BY <1>2, <2>2, <2>3
<1> HIDE DEF b
<1>4. QuoteLines(a, toks, k) /\ QuoteLines(b, toks, k)
  BY <1>1, <1>2, <1>3 DEF QuoteLines
<1> QED
  BY <1>4 DEF a, b

LEMMA QuoteWithLines ==
    ASSUME NEW toks, Good(toks), NEW k \in Nat, NEW l \in Nat, k =< l,
           NEW r, QuoteLines(r, toks, l), NEW s, Good(s), LinesOf(s) \subseteq Part(toks, k, l)
    PROVE  QuoteLines(QuoteWith(s, r), toks, k)
<1> DEFINE w == s \o r.sub
<1> DEFINE a == [r EXCEPT !.sub = w]
<1>1. Len(toks) \in Nat
  BY GoodType
<1>2. r.end \in Nat /\ l =< r.end /\ k =< r.end /\ Good(r.sub)
      /\ LinesOf(r.sub) \subseteq Part(toks, l, r.end) /\ Within(r.end, toks)
  BY <1>1 DEF QuoteLines, Within
<1>3. Good(w) /\ LinesOf(w) \subseteq Part(toks, k, r.end)
  BY <1>2, PartTogether
<1> HIDE DEF w
<1>4. /\ a = [end |-> a.end, sub |-> a.sub, none |-> a.none]
      /\ a.end = r.end /\ a.sub = w /\ a.none = r.none
  BY DEF QuoteLines
<1>5. QuoteWith(s, r) = a
  BY DEF QuoteWith, w
<1> HIDE DEF a
<1> QED
  BY <1>2, <1>3, <1>4, <1>5 DEF QuoteLines

LEMMA QuoteLineLines ==
    ASSUME NEW toks, Good(toks), NEW k \in 1 .. Len(toks), NEW level,
           NEW l \in {QuoteLine(toks[k], level), QuoteRaw(toks[k], level)}
    PROVE  Good(<<l>>) /\ LinesOf(<<l>>) \subseteq Part(toks, k, k + 1)
<1>1. l.ns = toks[k].ns /\ l.sub = << >>
  BY DEF QuoteLine, QuoteRaw, Raw, Blank
<1>2. Increasing(toks[k].ns) /\ ToSet(toks[k].ns) \subseteq Part(toks, k, k + 1)
  BY GoodAt, PartAt
<1> QED
  BY <1>1, <1>2, GoodLeaf

LEMMA QuoteTurnLines ==
    ASSUME NEW toks, Good(toks), Len(toks) \in Nat, NEW level,
           NEW k, Within(k, toks), NEW q,
           k > Len(toks) \/ QuoteLines(q[k + 1], toks, k + 1),
           k > Len(toks) \/ k = Len(toks) \/ QuoteLines(q[k + 2], toks, k + 2)
    PROVE  QuoteLines(QuoteTurn(toks, level, q, k), toks, k)
<1> DEFINE turn == QuoteTurn(toks, level, q, k)
<1>0. k \in 1 .. Len(toks) + 1 /\ k \in Nat /\ k =< k /\ k + 1 \in Nat /\ k + 2 \in Nat
      /\ k =< k + 1 /\ k + 1 =< k + 2 /\ k =< k + 2
  BY DEF Within
<1>1. CASE k > Len(toks)
  <2>1. turn = QuoteStop(k)
    BY <1>1 DEF QuoteTurn
  <2> QED
    BY <1>0, <2>1, QuoteEndsLines
<1>2. CASE ~(k > Len(toks)) /\ IsBlankLine(toks[k]) /\ k = Len(toks)
  <2>1. turn = QuoteStop(k + 1)
    BY <1>2 DEF QuoteTurn
  <2>2. Within(k + 1, toks)
    BY <1>0, <1>2 DEF Within
  <2> QED
    BY <1>0, <2>1, <2>2, QuoteEndsLines
<1>3. CASE ~(k > Len(toks)) /\ IsBlankLine(toks[k]) /\ k # Len(toks)
  <2> DEFINE t == toks[k + 1]
             b == <<BlankLine, QuoteRaw(t, level)>>
  <2>1. turn = IF ~HasText(t) THEN QuoteNone(k)
               ELSE IF Continues(t.text, level) THEN QuoteWith(b, q[k + 2])
               ELSE QuoteStop(k)
    BY <1>3 DEF QuoteTurn
  <2>2. QuoteLines(QuoteWith(b, q[k + 2]), toks, k)
    <3>1. PICK l \in 1 .. Len(toks) : l = k + 1 /\ l + 1 = k + 2
      <4>1. k + 1 \in 1 .. Len(toks) /\ (k + 1) + 1 = k + 2
        BY <1>0, <1>3
      <4> HIDE DEF t, b, turn
      <4> QED
        BY <4>1
    <3> DEFINE line == QuoteRaw(t, level)
    <3>2. Good(<<line>>) /\ LinesOf(<<line>>) \subseteq Part(toks, l, l + 1)
      BY <3>1, QuoteLineLines
    <3> HIDE DEF line
    <3>3. Good(<<BlankLine, line>>) /\ LinesOf(<<BlankLine, line>>) = LinesOf(<<line>>)
      BY <3>2, BlankBefore
    <3>4. l \in Nat /\ l + 1 \in Nat /\ k =< l /\ l =< l + 1
      BY <1>0, <3>1
    <3>5. Part(toks, l, l + 1) \subseteq Part(toks, k, l + 1)
      BY <1>0, <3>4, PartFacts
    <3>6. Good(b) /\ LinesOf(b) \subseteq Part(toks, k, k + 2)
      BY <3>1, <3>2, <3>3, <3>5 DEF line
    <3> HIDE DEF b
    <3>7. QuoteLines(q[k + 2], toks, k + 2)
      BY <1>3
    <3> QED
      BY <1>0, <3>6, <3>7, QuoteWithLines
  <2>3. QuoteLines(QuoteNone(k), toks, k) /\ QuoteLines(QuoteStop(k), toks, k)
    BY <1>0, QuoteEndsLines
  <2> HIDE DEF b, t, turn
  <2> QED
    BY <2>1, <2>2, <2>3 DEF turn
<1>4. CASE ~(k > Len(toks)) /\ ~IsBlankLine(toks[k])
  <2> DEFINE t == toks[k]
             b == <<QuoteLine(t, level)>>
  <2>1. turn = IF ~HasText(t) THEN QuoteNone(k)
               ELSE IF Continues(t.text, level) THEN QuoteWith(b, q[k + 1])
               ELSE QuoteStop(k)
    BY <1>4 DEF QuoteTurn
  <2>2. QuoteLines(QuoteWith(b, q[k + 1]), toks, k)
    <3>1. k \in 1 .. Len(toks)
      BY <1>0, <1>4
    <3>2. Good(b) /\ LinesOf(b) \subseteq Part(toks, k, k + 1)
      BY <3>1, QuoteLineLines
    <3> HIDE DEF b
    <3>3. QuoteLines(q[k + 1], toks, k + 1)
      BY <1>4
    <3> QED
      BY <1>0, <3>2, <3>3, QuoteWithLines
  <2>3. QuoteLines(QuoteNone(k), toks, k) /\ QuoteLines(QuoteStop(k), toks, k)
    BY <1>0, QuoteEndsLines
  <2> HIDE DEF b, t, turn
  <2> QED
    BY <2>1, <2>2, <2>3 DEF turn
<1> QED
  BY <1>1, <1>2, <1>3, <1>4

LEMMA QuoteFromLines ==
    ASSUME BlocksInv, LinesInv, NEW level \in Nat, NEW k, Within(k, Top.tgt)
    PROVE  QuoteLines(QuoteFrom(level)[k], Top.tgt, k)
<1> DEFINE toks == Top.tgt
           q == QuoteFrom(level)
           N == Len(toks) + 1
<1>0. Good(toks) /\ Len(toks) \in Nat /\ N \in Nat
  BY TopFacts, LinesTop
<1>1. q = [j \in 1 .. N |-> QuoteTurn(toks, level, q, j)]
  <2>1. \E r : r = [j \in 1 .. Len(toks) + 1 |-> QuoteTurn(toks, level, r, j)]
    BY <1>0, QuoteExists
  <2> QED
    BY <2>1, QuoteIsTurns
<1> HIDE DEF q
<1>2. \A j \in 1 .. N : q[j] = QuoteTurn(toks, level, q, j)
  BY <1>1
<1> DEFINE Fine(j) == QuoteLines(q[j], toks, j)
           T == {m \in Nat : \A j \in N - m + 1 .. N : Fine(j)}
<1>3. 0 \in T
  BY <1>0
<1>4. ASSUME NEW m \in 0 .. N - 1, m \in T PROVE m + 1 \in T
  <2>0. N - m \in 1 .. N /\ N - (m + 1) + 1 = N - m
    <3> HIDE DEF N
    <3> QED
      BY <1>0
  <2>1. PICK j \in 1 .. N : j = N - m /\ N - m + 1 = j + 1 /\ N - (m + 1) + 1 = j
    BY <2>0
  <2>2. \A l \in j + 1 .. N : Fine(l)
    BY <1>4, <2>1
  <2>3. (j > Len(toks) \/ j + 1 \in j + 1 .. N)
        /\ (j > Len(toks) \/ j = Len(toks) \/ j + 2 \in j + 1 .. N)
    BY <1>0
  <2>4. Within(j, toks)
    BY DEF Within
  <2>5. QuoteLines(QuoteTurn(toks, level, q, j), toks, j)
    <3> HIDE DEF toks, N
    <3>1. (j > Len(toks) \/ QuoteLines(q[j + 1], toks, j + 1))
          /\ (j > Len(toks) \/ j = Len(toks) \/ QuoteLines(q[j + 2], toks, j + 2))
      BY <2>2, <2>3
    <3> QED
      BY <1>0, <2>4, <3>1, QuoteTurnLines
  <2>6. Fine(j)
    BY <1>2, <2>5
  <2> HIDE DEF Fine
  <2>7. \A l \in j .. N : Fine(l)
    <3>1. \A l \in j .. N : l = j \/ l \in j + 1 .. N
      BY <1>0
    <3> QED
      BY <2>2, <2>6, <3>1
  <2> QED
    BY <2>1, <2>7
<1> HIDE DEF T
<1>5. N \in T
  <2>1. \A m \in 0 .. N : m \in T
    BY <1>0, <1>3, <1>4, InductionUpTo
  <2> QED
    BY <1>0, <2>1
<1>6. k \in 1 .. N
  BY DEF Within
<1>7. Fine(k)
  <2> HIDE DEF Fine
  <2>1. k \in N - N + 1 .. N
    BY <1>0, <1>6
  <2> QED
    BY <1>5, <2>1 DEF T
<1> QED
  BY <1>7 DEF q

LEMMA QuoteStepLines == ASSUME BlocksInv, LinesInv, Quote PROVE LinesInv'
<1> DEFINE level == QuoteLevel(Text)
           q == QuoteFrom(level)[Top.i + 1]
           first == Raw(Unquoted(Text, level), Token(Top.i).ns)
           toks == <<first>> \o q.sub
           tok == Container("quote", toks)
           j == After(q.end)
<1>1. /\ AtItem /\ level > 0
      /\ IF q.none THEN Fail("undefined")
         ELSE /\ stack' = Called(stack, Len(stack), Moved(Top, j), Items(tok, tok.sub))
              /\ UNCHANGED <<document, pass, references, outcome>>
  BY DEF Quote, Undecided, Descend, Called, Moved, Front
<1>2. There(Top.i) /\ Top.i \in Nat
  BY <1>1, AtItemFacts
<1>3. level \in Nat
  <2>1. TextOK(Text, document)
    BY <1>1, AtItemFacts, TokenFacts DEF Text
  <2> QED
    BY <2>1, QuoteLevelFacts
<1>4. /\ Within(Top.i + 1, Top.tgt) /\ Increasing(Token(Top.i).ns)
      /\ ToSet(Token(Top.i).ns) \subseteq Part(Top.tgt, Top.i, Top.i + 1)
  BY <1>2, TopLines
<1>5. QuoteLines(q, Top.tgt, Top.i + 1)
  <2> HIDE DEF level
  <2> QED
    BY <1>3, <1>4, QuoteFromLines
<1>6. first.ns = Token(Top.i).ns /\ first.sub = << >>
  BY DEF Raw
<1> HIDE DEF level, q, first
<1>7. CASE q.none
  BY <1>1, <1>7 DEF Fail, LinesInv, LinesInOrder
<1>8. CASE ~q.none
  <2>1. Good(<<first>>) /\ LinesOf(<<first>>) \subseteq Part(Top.tgt, Top.i, Top.i + 1)
    BY <1>4, <1>6, GoodLeaf
  <2>2. Within(q.end, Top.tgt) /\ Top.i + 1 =< q.end /\ Good(q.sub)
        /\ LinesOf(q.sub) \subseteq Part(Top.tgt, Top.i + 1, q.end)
    BY <1>5 DEF QuoteLines
  <2>3. Within(j, Top.tgt) /\ q.end \in Nat /\ j \in Nat /\ q.end =< j
    BY <2>2, AfterFacts
  <2>4. Top.i =< Top.i + 1 /\ Top.i + 1 \in Nat /\ Top.i =< q.end /\ Top.i =< j
    BY <1>2, <2>2, <2>3
  <2>5. Good(toks) /\ LinesOf(toks) \subseteq Part(Top.tgt, Top.i, q.end)
    BY <1>2, <2>1, <2>2, <2>3, <2>4, LinesTop, PartTogether
  <2>6. Part(Top.tgt, Top.i, q.end) \subseteq Part(Top.tgt, Top.i, j)
    BY <1>2, <2>3, <2>4, LinesTop, PartFacts
  <2> HIDE DEF toks, j
  <2>7. Taken(Top, toks, j)
    BY <2>3, <2>4, <2>5, <2>6 DEF Taken
  <2>8. tok.sub = toks
    BY DEF Container
  <2> HIDE DEF tok
  <2>9. stack' = Called(stack, Len(stack), Moved(Top, j), Items(tok, toks))
        /\ UNCHANGED <<references, outcome>>
    BY <1>1, <1>8, <2>8
  <2> QED
    BY <1>1, <2>7, <2>9, DescendLines
<1> QED
  BY <1>7, <1>8

\* A frame of parseListBlock that goes on at j.
ListIs(g, f, j, u, s) ==
    IsListFrame(g) /\ g.tgt = f.tgt /\ g.i = j /\ g.subTokens = u /\ g.subItemTokens = s

LEMMA ListFieldChanges ==
    ASSUME NEW f, IsListFrame(f), NEW j, NEW s, NEW c
    PROVE  /\ ListIs([f EXCEPT !.i = j], f, j, f.subTokens, f.subItemTokens)
           /\ ListIs([f EXCEPT !.subItemTokens = s], f, f.i, f.subTokens, s)
           /\ ListIs([f EXCEPT !.subTokens = s], f, f.i, s, f.subItemTokens)
           /\ ListIs([f EXCEPT !.itemCount = c], f, f.i, f.subTokens, f.subItemTokens)
<1>1. ListIs([f EXCEPT !.i = j], f, j, f.subTokens, f.subItemTokens)
  BY DEF IsListFrame, ListIs
<1>2. ListIs([f EXCEPT !.subItemTokens = s], f, f.i, f.subTokens, s)
  BY DEF IsListFrame, ListIs
<1>3. ListIs([f EXCEPT !.subTokens = s], f, f.i, s, f.subItemTokens)
  BY DEF IsListFrame, ListIs
<1>4. ListIs([f EXCEPT !.itemCount = c], f, f.i, f.subTokens, f.subItemTokens)
  BY DEF IsListFrame, ListIs
<1> QED
  BY <1>1, <1>2, <1>3, <1>4

LEMMA ListFields ==
    ASSUME NEW f, IsListFrame(f), NEW j, NEW s, NEW u, NEW c
    PROVE  /\ ListIs(Grown(f, s, j), f, j, f.subTokens, s)
           /\ ListIs(Recounted(f, c, j), f, j, f.subTokens, f.subItemTokens)
           /\ ListIs(Coded(f, c, j, s), f, j, f.subTokens, s)
           /\ ListIs(NextStarted(f, u, c, j, s), f, j, u, s)
<1> DEFINE a == [f EXCEPT !.subItemTokens = s]
           b == [f EXCEPT !.itemCount = c]
           d == [b EXCEPT !.i = j]
           e == [f EXCEPT !.subTokens = u]
           h == [e EXCEPT !.itemCount = c]
           k == [h EXCEPT !.i = j]
<1>1. /\ [f EXCEPT !.subItemTokens = s, !.i = j] = [a EXCEPT !.i = j]
      /\ [f EXCEPT !.itemCount = c, !.i = j] = d
      /\ [f EXCEPT !.itemCount = c, !.i = j, !.subItemTokens = s] = [d EXCEPT !.subItemTokens = s]
      /\ [f EXCEPT !.subTokens = u, !.itemCount = c, !.i = j, !.subItemTokens = s]
             = [k EXCEPT !.subItemTokens = s]
  BY SMT
<1>2. ListIs(a, f, f.i, f.subTokens, s) /\ ListIs(b, f, f.i, f.subTokens, f.subItemTokens)
      /\ ListIs(e, f, f.i, u, f.subItemTokens)
  BY ListFieldChanges
<1> HIDE DEF a, b, e
<1>3. ListIs([a EXCEPT !.i = j], a, j, a.subTokens, a.subItemTokens)
      /\ ListIs(d, b, j, b.subTokens, b.subItemTokens)
      /\ ListIs(h, e, e.i, e.subTokens, e.subItemTokens)
  <2>1. IsListFrame(a) /\ IsListFrame(b) /\ IsListFrame(e)
    BY <1>2 DEF ListIs
  <2> QED
    BY <2>1, ListFieldChanges
<1> HIDE DEF d, h
<1>4. ListIs([d EXCEPT !.subItemTokens = s], d, d.i, d.subTokens, s)
      /\ ListIs(k, h, j, h.subTokens, h.subItemTokens)
  <2>1. IsListFrame(d) /\ IsListFrame(h)
    BY <1>3 DEF ListIs
  <2> QED
    BY <2>1, ListFieldChanges
<1> HIDE DEF k
<1>5. ListIs([k EXCEPT !.subItemTokens = s], k, k.i, k.subTokens, s)
  <2>1. IsListFrame(k)
    BY <1>4 DEF ListIs
  <2> QED
    BY <2>1, ListFieldChanges
<1>6. ListIs(Grown(f, s, j), f, j, f.subTokens, s)
  BY <1>1, <1>2, <1>3 DEF ListIs, Grown, a
<1>7. ListIs(Recounted(f, c, j), f, j, f.subTokens, f.subItemTokens)
  BY <1>1, <1>2, <1>3 DEF ListIs, Recounted, d, b
<1>8. ListIs(Coded(f, c, j, s), f, j, f.subTokens, s)
  <2>1. Coded(f, c, j, s) = [d EXCEPT !.subItemTokens = s]
    BY <1>1 DEF Coded, d, b
  <2> QED
    BY <1>2, <1>3, <1>4, <2>1 DEF ListIs
<1>9. ListIs(NextStarted(f, u, c, j, s), f, j, u, s)
  <2>1. NextStarted(f, u, c, j, s) = [k EXCEPT !.subItemTokens = s]
    BY <1>1 DEF NextStarted, k, h, e
  <2> QED
    BY <1>2, <1>3, <1>4, <1>5, <2>1 DEF ListIs
<1> QED
  BY <1>6, <1>7, <1>8, <1>9

LEMMA ListIsList ==
    ASSUME BlocksInv, LinesInv, InList
    PROVE  /\ IsListFrame(Top) /\ Top.fn = "list" /\ Good(Top.subTokens) /\ Good(Top.subItemTokens)
           /\ GotLines(Top) = LinesOf(Top.subTokens) \cup LinesOf(Top.subItemTokens)
           /\ Above(LinesOf(Top.subTokens), LinesOf(Top.subItemTokens))
<1>1. Top.fn = "list" /\ FrameOK(Top, document)
  BY InListFacts, TopFacts
<1>2. IsListFrame(Top)
  <2>1. IsItemsFrame(Top) => Top.fn = "items"
    BY DEF IsItemsFrame
  <2> QED
    BY <1>1, <2>1 DEF FrameOK
<1> QED
  BY <1>1, <1>2, LinesTop DEF GotGood, GotLines

\* It has made tokens u and s of the lines before j.
LEMMA ListLines ==
    ASSUME NEW f, FrameLines(f), Within(f.i, f.tgt), NEW g, NEW j, NEW u, NEW s,
           ListIs(g, f, j, u, s), Within(j, f.tgt), f.i =< j,
           Good(u), Good(s), Above(LinesOf(u), LinesOf(s)),
           LinesOf(u) \cup LinesOf(s) \subseteq GotLines(f) \cup Part(f.tgt, f.i, j)
    PROVE  FrameLines(g) /\ All(g) \subseteq All(f)
<1>1. g.fn = "list" /\ g.tgt = f.tgt /\ g.i = j /\ g.subTokens = u /\ g.subItemTokens = s
  BY DEF ListIs, IsListFrame
<1>2. Good(f.tgt) /\ Above(GotLines(f), From(f.tgt, f.i))
  BY DEF FrameLines
<1>3. f.i \in Nat /\ j \in Nat
  <2>1. Len(f.tgt) \in Nat
    BY <1>2, GoodType
  <2> QED
    BY <2>1 DEF Within
<1>4. /\ Above(Part(f.tgt, f.i, j), From(f.tgt, j)) /\ From(f.tgt, j) \subseteq From(f.tgt, f.i)
      /\ Part(f.tgt, f.i, j) \subseteq From(f.tgt, f.i)
  BY <1>2, <1>3, PartFacts
<1>5. GotLines(g) = LinesOf(u) \cup LinesOf(s) /\ GotGood(g)
  BY <1>1 DEF GotLines, GotGood
<1>6. Above(GotLines(g), From(f.tgt, j))
  BY <1>2, <1>4, <1>5 DEF Above
<1>7. All(g) \subseteq All(f)
  BY <1>1, <1>4, <1>5 DEF All
<1> QED
  BY <1>1, <1>2, <1>5, <1>6, <1>7 DEF FrameLines

LEMMA ListStays ==
    ASSUME BlocksInv, LinesInv, InList, UNCHANGED <<references, outcome>>,
           \E g, j, u, s : /\ ListIs(g, Top, j, u, s) /\ Within(j, Top.tgt) /\ Top.i =< j
                           /\ Good(u) /\ Good(s) /\ Above(LinesOf(u), LinesOf(s))
                           /\ LinesOf(u) \cup LinesOf(s) \subseteq GotLines(Top) \cup Part(Top.tgt, Top.i, j)
                           /\ stack' = Replaced(stack, Len(stack), g)
    PROVE  LinesInv'
<1>1. PICK g, j, u, s :
         /\ ListIs(g, Top, j, u, s) /\ Within(j, Top.tgt) /\ Top.i =< j
         /\ Good(u) /\ Good(s) /\ Above(LinesOf(u), LinesOf(s))
         /\ LinesOf(u) \cup LinesOf(s) \subseteq GotLines(Top) \cup Part(Top.tgt, Top.i, j)
         /\ stack' = Replaced(stack, Len(stack), g)
  OBVIOUS
<1>2. Within(Top.i, Top.tgt) /\ StackOK(stack, document)
  BY TopFacts
<1>3. FrameLines(g) /\ All(g) \subseteq All(Top)
  BY <1>1, <1>2, LinesTop, ListLines
<1>4. Fits(g, stack, Len(stack))
  BY <1>3, LinesTop DEF Fits
<1>5. g.fn = stack[Len(stack)].fn
  BY <1>1, ListIsList DEF ListIs, IsListFrame, Top
<1>6. StackLines(Replaced(stack, Len(stack), g), references)
  BY <1>2, <1>4, <1>5, LinesTop, LinesReplaced
<1>7. outcome' # "done"
  BY InListFacts
<1> QED
  BY <1>1, <1>6, <1>7, LinesStep

\* More tokens in an item.
LEMMA ItemGrows ==
    ASSUME BlocksInv, LinesInv, InList, UNCHANGED <<references, outcome>>,
           \E g, toks, j : /\ Taken(Top, toks, j)
                           /\ ListIs(g, Top, j, Top.subTokens, Top.subItemTokens \o toks)
                           /\ stack' = Replaced(stack, Len(stack), g)
    PROVE  LinesInv'
<1>1. PICK g, toks, j : /\ Taken(Top, toks, j)
                        /\ ListIs(g, Top, j, Top.subTokens, Top.subItemTokens \o toks)
                        /\ stack' = Replaced(stack, Len(stack), g)
  OBVIOUS
<1> DEFINE u == Top.subTokens
           v == Top.subItemTokens
           s == v \o toks
<1>2. /\ Good(u) /\ Good(v) /\ GotLines(Top) = LinesOf(u) \cup LinesOf(v)
      /\ Above(LinesOf(u), LinesOf(v))
  BY ListIsList
<1>3. /\ Within(j, Top.tgt) /\ Top.i =< j /\ Good(toks)
      /\ LinesOf(toks) \subseteq Part(Top.tgt, Top.i, j)
  BY <1>1 DEF Taken
<1>4. Above(GotLines(Top), LinesOf(toks))
  BY <1>1, LinesTop, TopFacts, TakenFacts
<1>5. ListIs(g, Top, j, u, s)
  BY <1>1
<1> HIDE DEF u, v
<1>6. Good(s) /\ LinesOf(s) = LinesOf(v) \cup LinesOf(toks)
  <2>1. Above(LinesOf(v), LinesOf(toks))
    BY <1>2, <1>4 DEF Above
  <2> QED
    BY <1>2, <1>3, <2>1, GoodConcat
<1> HIDE DEF s
<1>7. /\ Above(LinesOf(u), LinesOf(s))
      /\ LinesOf(u) \cup LinesOf(s) \subseteq GotLines(Top) \cup Part(Top.tgt, Top.i, j)
  BY <1>2, <1>3, <1>4, <1>6 DEF Above
<1> QED
  BY <1>1, <1>2, <1>3, <1>5, <1>6, <1>7, ListStays

LEMMA AddLines ==
    ASSUME BlocksInv, LinesInv, InList, \E toks, j : Taken(Top, toks, j) /\ Add(toks, j)
    PROVE  LinesInv'
<1>1. PICK toks, j : Taken(Top, toks, j) /\ Add(toks, j)
  OBVIOUS
<1> DEFINE s == Top.subItemTokens \o toks
           g == Grown(Top, s, j)
<1>2. stack' = Replaced(stack, Len(stack), g) /\ UNCHANGED <<references, outcome>>
  BY <1>1 DEF Add, Change, Replaced, Front, Grown
<1>3. ListIs(g, Top, j, Top.subTokens, s)
  <2> HIDE DEF s
  <2> QED
    BY ListIsList, ListFields
<1> HIDE DEF g
<1> QED
  BY <1>1, <1>2, <1>3, ItemGrows
-----------------------------------------------------------------------------
LEMMA ContainerLines ==
    ASSUME NEW kind, NEW s, Good(s)
    PROVE  LET t == Container(kind, s)
           IN t.sub = s /\ Good(<<t>>) /\ LinesOf(<<t>>) = LinesOf(s)
<1> DEFINE t == Container(kind, s)
<1>1. t.sub = s /\ t.ns = Lined(s)
  BY DEF Container
<1> HIDE DEF t
<1>2. Increasing(t.ns) /\ ToSet(t.ns) = LinesOf(s)
  BY <1>1, GoodLined
<1>3. Good(<<t>>) /\ LinesOf(<<t>>) = LinesOf(s)
  BY <1>1, <1>2, GoodMade
<1> QED
  BY <1>1, <1>3 DEF t

LEMMA AppendLines ==
    ASSUME NEW s, Good(s), NEW t, Good(<<t>>), Above(LinesOf(s), LinesOf(<<t>>))
    PROVE  Good(Append(s, t)) /\ LinesOf(Append(s, t)) = LinesOf(s) \cup LinesOf(<<t>>)
<1>1. PICK S : s \in Seq(S)
  BY GoodType
<1> DEFINE V == S \cup {t}
           o == <<t>>
<1>2. s \in Seq(V) /\ t \in V
  BY <1>1
<1> HIDE DEF V
<1>3. Append(s, t) = s \o o
  BY <1>2, AppendIsConcat
<1>4. Good(o) /\ Above(LinesOf(s), LinesOf(o))
  OBVIOUS
<1> HIDE DEF o
<1>5. Good(s \o o) /\ LinesOf(s \o o) = LinesOf(s) \cup LinesOf(o)
  BY <1>4, GoodConcat
<1> QED
  BY <1>3, <1>5 DEF o

LEMMA FlushedLines ==
    ASSUME BlocksInv, LinesInv, InList
    PROVE  Good(Flushed(Top)) /\ LinesOf(Flushed(Top)) = GotLines(Top)
<1> DEFINE u == Top.subTokens
           v == Top.subItemTokens
           t == Container("item", v)
<1>1. /\ Good(u) /\ Good(v) /\ GotLines(Top) = LinesOf(u) \cup LinesOf(v)
      /\ Above(LinesOf(u), LinesOf(v))
  BY ListIsList
<1>2. Flushed(Top) = IF v = << >> THEN u ELSE Append(u, t)
  BY DEF Flushed
<1> HIDE DEF u, v
<1>3. Good(<<t>>) /\ LinesOf(<<t>>) = LinesOf(v)
  BY <1>1, ContainerLines
<1> HIDE DEF t
<1>4. CASE v = << >>
  BY <1>1, <1>2, <1>4, GoodNone
<1>5. CASE v # << >>
  BY <1>1, <1>2, <1>3, <1>5, AppendLines
<1> QED
  BY <1>4, <1>5

\* One token for lines that begin at i.
LEMMA TakenFrom ==
    ASSUME BlocksInv, LinesInv, NEW i \in Nat, There(i), Top.i =< i,
           NEW t, t.ns = Token(i).ns, t.sub = << >>
    PROVE  /\ Taken(Top, <<t>>, i + 1) /\ Taken(Top, <<BlankLine, t>>, i + 1)
           /\ LinesOf(<<t>>) \subseteq From(Top.tgt, i) /\ Within(i, Top.tgt) /\ i \in 1 .. Len(Top.tgt)
<1>1. /\ i \in 1 .. Len(Top.tgt) /\ Within(i, Top.tgt) /\ Within(i + 1, Top.tgt)
      /\ i + 1 \in Nat /\ i =< i + 1 /\ Top.i =< i + 1 /\ Top.i \in Nat
  BY TopFacts DEF There, Within
<1>2. Good(Top.tgt)
  BY LinesTop
<1>3. Increasing(t.ns) /\ ToSet(t.ns) \subseteq Part(Top.tgt, i, i + 1)
  BY <1>1, <1>2, GoodAt, PartAt DEF Token
<1>4. Good(<<t>>) /\ LinesOf(<<t>>) = ToSet(t.ns)
  BY <1>3, GoodLeaf
<1>5. Part(Top.tgt, i, i + 1) \subseteq Part(Top.tgt, Top.i, i + 1)
      /\ Part(Top.tgt, i, i + 1) \subseteq From(Top.tgt, i)
  BY <1>1, <1>2, PartFacts
<1>6. Good(<<BlankLine, t>>) /\ LinesOf(<<BlankLine, t>>) = LinesOf(<<t>>)
  BY <1>4, BlankBefore
<1> QED
  BY <1>1, <1>3, <1>4, <1>5, <1>6 DEF Taken

\* A list that begins at i.
LEMMA ListFrameLines ==
    ASSUME BlocksInv, LinesInv, NEW i \in Nat, There(i), Top.i =< i
    PROVE  LET g == ListFrame(i)
           IN /\ FrameLines(g) /\ All(g) \subseteq From(Top.tgt, i) /\ g.fn = "list"
              /\ All(g) \subseteq All(Top)
<1> DEFINE g == ListFrame(i)
           t == Raw(Content(Top.tgt[i].text), Top.tgt[i].ns)
           s == <<t>>
<1>1. g.fn = "list" /\ g.tgt = Top.tgt /\ g.i = i + 1 /\ g.subTokens = << >> /\ g.subItemTokens = s
  BY DEF ListFrame
<1>2. t.ns = Token(i).ns /\ t.sub = << >>
  BY DEF Raw, Token
<1> HIDE DEF g, t
<1>3. Taken(Top, s, i + 1) /\ LinesOf(s) \subseteq From(Top.tgt, i) /\ Within(i, Top.tgt)
      /\ i \in 1 .. Len(Top.tgt)
  BY <1>2, TakenFrom
<1>4. Within(Top.i, Top.tgt) /\ Top.i \in Nat /\ i + 1 \in Nat /\ i =< i + 1
  BY TopFacts
<1>5. Above(LinesOf(s), From(Top.tgt, i + 1))
  BY <1>3, <1>4, LinesTop, TakenFacts
<1>6. /\ From(Top.tgt, i + 1) \subseteq From(Top.tgt, i)
      /\ From(Top.tgt, i) \subseteq From(Top.tgt, Top.i)
  BY <1>4, LinesTop, PartFacts
<1> HIDE DEF s
<1>7. GotLines(g) = LinesOf(s) /\ GotGood(g)
  BY <1>1, <1>3, GoodNone DEF GotLines, GotGood, Above, Taken
<1>8. FrameLines(g)
  BY <1>1, <1>5, <1>7, LinesTop DEF FrameLines
<1>9. All(g) \subseteq From(Top.tgt, i)
  BY <1>1, <1>3, <1>6, <1>7 DEF All
<1>10. All(g) \subseteq All(Top)
  BY <1>6, <1>9 DEF All
<1> QED
  BY <1>1, <1>8, <1>9, <1>10 DEF g

LEMMA StartListLines == ASSUME BlocksInv, LinesInv, StartList PROVE LinesInv'
<1> DEFINE g == ListFrame(Top.i)
<1>1. AtItem /\ stack' = Append(stack, g) /\ UNCHANGED <<references, outcome>>
  BY DEF StartList, Undecided
<1>2. There(Top.i) /\ outcome' # "done" /\ Top.i \in Nat /\ Top.i =< Top.i
  BY <1>1, AtItemFacts
<1>3. FrameLines(g) /\ All(g) \subseteq From(Top.tgt, Top.i) /\ g.fn = "list" /\ All(g) \subseteq All(Top)
  BY <1>2, ListFrameLines
<1> HIDE DEF g
<1>4. Fits(g, stack, Len(stack))
  BY <1>3, LinesTop DEF Fits
<1>5. Calls(Top, g)
  BY <1>3, LinesTop DEF Calls, Above
<1>6. StackLines(Append(stack, g), references)
  BY <1>4, <1>5, LinesTop, TopFacts, LinesAppended DEF Top
<1> QED
  BY <1>1, <1>2, <1>6, LinesStep

LEMMA SublistLines ==
    ASSUME BlocksInv, LinesInv, InList, NEW i \in Nat, There(i), Top.i =< i, Sublist(i)
    PROVE  LinesInv'
<1>1. CASE IsItem(Token(i).text)
  <2> DEFINE c == Top.itemCount + 1
             f == Recounted(Top, c, i)
             g == ListFrame(i)
             u == Top.subTokens
             s == Top.subItemTokens
  <2>1. stack' = Called(stack, Len(stack), f, g) /\ UNCHANGED <<references, outcome>>
    BY <1>1 DEF Sublist, Called, Front, Recounted
  <2>2. Within(i, Top.tgt) /\ Within(Top.i, Top.tgt) /\ StackOK(stack, document)
    BY TopFacts DEF Within, There
  <2> HIDE DEF c
  <2>3. ListIs(f, Top, i, u, s)
    BY ListIsList, ListFields
  <2>4. /\ Good(u) /\ Good(s) /\ Above(LinesOf(u), LinesOf(s))
        /\ LinesOf(u) \cup LinesOf(s) = GotLines(Top)
    BY ListIsList
  <2> HIDE DEF f, u, s
  <2>5. FrameLines(f) /\ All(f) \subseteq All(Top)
    BY <2>2, <2>3, <2>4, LinesTop, ListLines
  <2>6. FrameLines(g) /\ All(g) \subseteq From(Top.tgt, i) /\ g.fn = "list" /\ All(g) \subseteq All(Top)
    BY ListFrameLines
  <2> HIDE DEF g
  <2>7. f.fn = "list" /\ f.tgt = Top.tgt /\ f.i = i /\ GotLines(f) = GotLines(Top)
    BY <2>3, <2>4 DEF ListIs, IsListFrame, GotLines
  <2>8. Calls(f, g)
    BY <2>5, <2>6, <2>7 DEF Calls, FrameLines, Above
  <2>9. Fits(f, stack, Len(stack)) /\ Fits(g, stack, Len(stack))
    BY <2>5, <2>6, LinesTop DEF Fits
  <2>10. f.fn = stack[Len(stack)].fn
    BY <2>7, ListIsList DEF Top
  <2>11. StackLines(Called(stack, Len(stack), f, g), references)
    BY <2>2, <2>8, <2>9, <2>10, LinesTop, LinesCalled
  <2>12. outcome' # "done"
    BY <2>1, InListFacts
  <2> QED
    BY <2>1, <2>11, <2>12, LinesStep
<1>2. CASE ~IsItem(Token(i).text)
  BY <1>2 DEF Sublist, Fail, LinesInv, LinesInOrder
<1> QED
  BY <1>1, <1>2

LEMMA NextItemLines ==
    ASSUME BlocksInv, LinesInv, InList, NEW i \in Nat, There(i), Top.i =< i, NextItem(i)
    PROVE  LinesInv'
<1> DEFINE t == Raw(Content(Token(i).text), Token(i).ns)
           s == <<t>>
           u == Flushed(Top)
           c == Top.itemCount + 1
           j == i + 1
           g == NextStarted(Top, u, c, j, s)
<1>1. stack' = Replaced(stack, Len(stack), g) /\ UNCHANGED <<references, outcome>>
  BY DEF NextItem, Change, Replaced, Front, NextStarted
<1>2. t.ns = Token(i).ns /\ t.sub = << >>
  BY DEF Raw
<1> HIDE DEF t
<1>3. Taken(Top, s, j)
  BY <1>2, TakenFrom
<1>4. Good(u) /\ LinesOf(u) = GotLines(Top)
  BY FlushedLines
<1> HIDE DEF s, u, c, j
<1>5. Above(LinesOf(u), LinesOf(s))
  BY <1>3, <1>4, LinesTop, TopFacts, TakenFacts
<1>6. ListIs(g, Top, j, u, s)
  BY ListIsList, ListFields
<1> HIDE DEF g
<1>7. /\ Within(j, Top.tgt) /\ Top.i =< j /\ Good(s)
      /\ LinesOf(u) \cup LinesOf(s) \subseteq GotLines(Top) \cup Part(Top.tgt, Top.i, j)
  BY <1>3, <1>4 DEF Taken
<1> QED
  BY <1>1, <1>4, <1>5, <1>6, <1>7, ListStays

LEMMA CodeAfterBlankLines == ASSUME BlocksInv, LinesInv, CodeAfterBlank PROVE LinesInv'
<1> DEFINE i == Top.i + 1
           e == ItemCodeEnd(i + 1)
           v == WithText(SubSeq(Top.tgt, i, e - 1))
           t == Leaf("code", Lined(v))
           s == Top.subItemTokens \o <<BlankLine, t>>
           c == Top.itemCount + 1
           g == Coded(Top, c, e, s)
           bad == There(e) /\ IsBlankLine(Token(e)) /\ (~There(e + 1) \/ ~HasText(Token(e + 1)))
<1>1. /\ InList /\ There(i)
      /\ IF bad THEN Fail("undefined")
         ELSE /\ Change([Top EXCEPT !.itemCount = @ + 1, !.i = e,
                            !.subItemTokens = @ \o <<BlankLine, Leaf("code", Lined(v))>>])
              /\ UNCHANGED <<document, pass, references, outcome, tokens>>
  BY DEF CodeAfterBlank, AfterBlank, AtBlank, ListAt, Line
<1> HIDE DEF bad
<1>2. CASE bad
  BY <1>1, <1>2 DEF Fail, LinesInv, LinesInOrder
<1>3. CASE ~bad
  <2>1. stack' = Replaced(stack, Len(stack), g) /\ UNCHANGED <<references, outcome>>
    BY <1>1, <1>3 DEF Change, Replaced, Front, Coded
  <2>2. Len(Top.tgt) \in Nat /\ Top.i \in Nat \ {0} /\ i \in 1 .. Len(Top.tgt)
    BY <1>1, TopFacts DEF There
  <2>3. Within(e, Top.tgt) /\ i + 1 =< e
    <3>1. i + 1 \in 1 .. Len(Top.tgt) + 1
      BY <2>2
    <3>2. e \in i + 1 .. Len(Top.tgt) + 1
      BY <3>1, ItemCodeEnds
    <3> HIDE DEF e
    <3> QED
      BY <2>2, <3>2 DEF Within
  <2> HIDE DEF e
  <2>4. /\ i \in 1 .. Len(Top.tgt) + 1 /\ e - 1 \in 0 .. Len(Top.tgt) /\ (e - 1) + 1 = e
        /\ e \in Nat /\ i \in Nat /\ Top.i \in Nat /\ Top.i =< i /\ i =< e /\ Top.i =< e
    BY <2>2, <2>3 DEF Within
  <2> HIDE DEF i
  <2>5. Increasing(Lined(v)) /\ ToSet(Lined(v)) \subseteq Part(Top.tgt, i, e)
    <3>1. Increasing(Lined(v)) /\ ToSet(Lined(v)) \subseteq Part(Top.tgt, i, (e - 1) + 1)
      BY <2>4, LinesTop, CodeLines
    <3> QED
      BY <2>4, <3>1
  <2>6. Part(Top.tgt, i, e) \subseteq Part(Top.tgt, Top.i, e)
    BY <2>4, LinesTop, PartFacts
  <2>7. t.ns = Lined(v) /\ t.sub = << >>
    BY DEF Leaf
  <2> HIDE DEF v, t
  <2>8. Good(<<t>>) /\ LinesOf(<<t>>) = ToSet(Lined(v))
    BY <2>5, <2>7, GoodLeaf
  <2>9. Good(<<BlankLine, t>>) /\ LinesOf(<<BlankLine, t>>) = LinesOf(<<t>>)
    BY <2>8, BlankBefore
  <2>10. Taken(Top, <<BlankLine, t>>, e)
    BY <2>3, <2>4, <2>5, <2>6, <2>8, <2>9 DEF Taken
  <2>11. ListIs(g, Top, e, Top.subTokens, s)
    <3> HIDE DEF s, c
    <3> QED
      BY <1>1, ListIsList, ListFields
  <2> HIDE DEF g
  <2> QED
    BY <1>1, <2>1, <2>10, <2>11, ItemGrows
<1> QED
  BY <1>2, <1>3

\* The frame below the top.
LEMMA BelowLines ==
    ASSUME BlocksInv, LinesInv, Len(stack) # 1, NEW m, m = Len(stack) - 1
    PROVE  LET below == stack[m]
           IN /\ m \in 1 .. Len(stack) /\ FrameOK(below, document) /\ Over(below, Top)
              /\ StackOK(stack, document) /\ StackLines(stack, references)
              /\ FrameLines(below) /\ Above(GotLines(below), All(Top))
              /\ Top.fn = "items" => Above(All(Top), From(below.tgt, below.i))
              /\ All(below) \subseteq Span(stack, m) /\ All(Top) \subseteq Span(stack, m)
              /\ Len(stack) - 2 = m - 1
<1> DEFINE below == stack[m]
<1>1. m \in 1 .. Len(stack) /\ FrameOK(below, document) /\ Over(below, Top) /\ StackOK(stack, document)
  BY BelowFacts
<1>2. /\ StackLines(stack, references) /\ Len(stack) \in Nat /\ Len(stack) \in 1 .. Len(stack)
      /\ m < Len(stack) /\ m + 1 = Len(stack) /\ Len(stack) - 2 = m - 1
  BY LinesTop
<1>3. /\ FrameLines(below) /\ Above(GotLines(below), All(Top))
      /\ Top.fn = "items" => Above(All(Top), From(below.tgt, below.i))
  <2> DEFINE n == Len(stack)
  <2>1. Top = stack[n] /\ n \in 1 .. Len(stack) /\ m < n /\ m + 1 = n
    BY <1>2 DEF Top
  <2> HIDE DEF n
  <2> QED
    BY <1>1, <1>2, <2>1 DEF StackLines
<1>4. All(below) \subseteq Span(stack, m)
  BY <1>1, <1>2, SpanFacts
<1>5. All(Top) \subseteq Span(stack, m)
  <2>1. Len(stack) \in 1 .. Len(stack) /\ m =< Len(stack)
    BY <1>2
  <2> QED
    BY <2>1, AllNat DEF Span, Top
<1> QED
  BY <1>1, <1>2, <1>3, <1>4, <1>5

LEMMA ListHasBelow == ASSUME BlocksInv, InList PROVE Len(stack) # 1
<1>1. stack[1].fn = "items"
  BY TopFacts, StackFacts
<1> QED
  BY <1>1, InListFacts DEF Top

LEMMA ItemsFields ==
    ASSUME NEW doc, NEW f, FrameOK(f, doc), f.fn = "items", NEW j, NEW p
    PROVE  /\ Moved(f, j).fn = "items" /\ Moved(f, j).tgt = f.tgt /\ Moved(f, j).i = j
           /\ Moved(f, j).processed = f.processed
           /\ Processed(f, p).fn = "items" /\ Processed(f, p).tgt = f.tgt
           /\ Processed(f, p).i = f.i /\ Processed(f, p).processed = p
<1>1. IsItemsFrame(f)
  BY DEF FrameOK, IsListFrame
<1>2. /\ Moved(f, j).fn = "items" /\ Moved(f, j).tgt = f.tgt /\ Moved(f, j).i = j
      /\ Moved(f, j).processed = f.processed
  BY <1>1 DEF IsItemsFrame, Moved
<1>3. /\ Processed(f, p).fn = "items" /\ Processed(f, p).tgt = f.tgt
      /\ Processed(f, p).i = f.i /\ Processed(f, p).processed = p
  BY <1>1 DEF IsItemsFrame, Processed
<1> QED
  BY <1>2, <1>3

\* parseListBlock has ended at i: what is above j is not yet made tokens of.
LEMMA ListLeft ==
    ASSUME BlocksInv, LinesInv, NEW i, Within(i, Top.tgt), Top.i =< i, NEW j, j \in {i, After(i)}
    PROVE  /\ From(Top.tgt, j) \subseteq From(Top.tgt, Top.i) /\ From(Top.tgt, j) \subseteq All(Top)
           /\ Within(j, Top.tgt) /\ Above(GotLines(Top), From(Top.tgt, j))
<1>1. Within(j, Top.tgt) /\ j \in Nat /\ Top.i \in Nat /\ Top.i =< j
  <2>1. /\ Within(After(i), Top.tgt) /\ i \in Nat /\ After(i) \in Nat /\ i =< After(i)
        /\ Top.i \in Nat
    BY AfterFacts, TopFacts
  <2> HIDE DEF After
  <2> QED
    BY <2>1
<1>2. From(Top.tgt, j) \subseteq From(Top.tgt, Top.i)
  BY <1>1, LinesTop, PartFacts
<1> QED
  BY <1>1, <1>2, LinesTop DEF Above, All

LEMMA EndListLines ==
    ASSUME BlocksInv, LinesInv, InList, \E i : Within(i, Top.tgt) /\ Top.i =< i /\ EndList(i)
    PROVE  LinesInv'
<1>1. PICK i : Within(i, Top.tgt) /\ Top.i =< i /\ EndList(i)
  OBVIOUS
<1> DEFINE m == Len(stack) - 1
           below == stack[m]
           rest == SubSeq(stack, 1, Len(stack) - 2)
           list == Container("list", Flushed(Top))
<1>2. UNCHANGED <<references, outcome>> /\ outcome' # "done"
  BY <1>1, InListFacts DEF EndList
<1>3. Len(stack) # 1
  BY ListHasBelow
<1>4. /\ m \in 1 .. Len(stack) /\ FrameOK(below, document) /\ Over(below, Top)
      /\ StackOK(stack, document) /\ StackLines(stack, references)
      /\ FrameLines(below) /\ Above(GotLines(below), All(Top))
      /\ All(below) \subseteq Span(stack, m) /\ All(Top) \subseteq Span(stack, m)
      /\ Len(stack) - 2 = m - 1
  BY <1>3, BelowLines
<1>5. below.tgt = Top.tgt /\ (below.fn = "items" => below.i =< Len(below.tgt))
  BY <1>4, InListFacts DEF Over
<1>6. /\ list.sub = Flushed(Top) /\ Good(list.sub) /\ LinesOf(list.sub) = GotLines(Top)
      /\ Good(<<list>>) /\ LinesOf(<<list>>) = GotLines(Top)
  <2>1. Good(Flushed(Top)) /\ LinesOf(Flushed(Top)) = GotLines(Top)
    BY FlushedLines
  <2> QED
    BY <2>1, ContainerLines
<1>7. /\ Above(GotLines(below), GotLines(Top)) /\ Good(Top.tgt)
      /\ \A j \in {i, After(i)} :
           /\ From(Top.tgt, j) \subseteq All(Top)
           /\ Within(j, Top.tgt) /\ Above(GotLines(Top), From(Top.tgt, j))
           /\ Above(GotLines(below), From(Top.tgt, j))
  <2>1. GotLines(Top) \subseteq All(Top) /\ Good(Top.tgt)
    BY LinesTop DEF All
  <2>2. \A j \in {i, After(i)} :
           /\ From(Top.tgt, j) \subseteq All(Top)
           /\ Within(j, Top.tgt) /\ Above(GotLines(Top), From(Top.tgt, j))
    BY <1>1, ListLeft
  <2> QED
    BY <1>4, <2>1, <2>2 DEF Above
<1>8. ASSUME NEW f, f.fn = below.fn, Fits(f, stack, m), stack' = Append(rest, f)
      PROVE  LinesInv'
  <2>1. stack' = Replaced(stack, m, f)
    BY <1>4, <1>8 DEF Replaced
  <2> HIDE DEF m
  <2>2. StackLines(Replaced(stack, m, f), references)
    BY <1>4, <1>8, LinesReplaced
  <2> QED
    BY <1>2, <2>1, <2>2, LinesStep
<1>9. CASE below.fn = "list"
  <2> DEFINE v == below.subItemTokens
             s == Append(v, list)
             f == Grown(below, s, i)
             u == below.subTokens
  <2>1. stack' = Append(rest, f)
    BY <1>1, <1>9 DEF EndList, Grown
  <2>2. IsListFrame(below)
    <3>1. ~IsItemsFrame(below)
      BY <1>9 DEF IsItemsFrame
    <3> QED
      BY <1>4, <3>1 DEF FrameOK
  <2>3. /\ Good(u) /\ Good(v) /\ GotLines(below) = LinesOf(u) \cup LinesOf(v)
        /\ Above(LinesOf(u), LinesOf(v))
    BY <1>4, <1>9 DEF FrameLines, GotGood, GotLines
  <2> HIDE DEF list, m, u, v
  <2>4. Good(s) /\ LinesOf(s) = LinesOf(v) \cup GotLines(Top)
    <3>1. Above(LinesOf(v), LinesOf(<<list>>))
      BY <1>6, <1>7, <2>3 DEF Above
    <3> QED
      BY <1>6, <2>3, <3>1, AppendLines
  <2> HIDE DEF s
  <2>5. ListIs(f, below, i, u, s)
    BY <2>2, ListFields DEF u
  <2> HIDE DEF f
  <2>6. f.fn = "list" /\ f.tgt = Top.tgt /\ f.i = i /\ f.subTokens = u /\ f.subItemTokens = s
    BY <1>5, <2>5 DEF ListIs, IsListFrame
  <2>7. GotLines(f) = GotLines(below) \cup GotLines(Top) /\ GotGood(f)
    BY <1>7, <2>3, <2>4, <2>6 DEF GotLines, GotGood, Above
  <2>8. FrameLines(f)
    BY <1>7, <2>6, <2>7 DEF FrameLines, Above
  <2>9. All(f) \subseteq All(below) \cup All(Top)
    BY <1>7, <2>6, <2>7 DEF All
  <2>10. Fits(f, stack, m)
    BY <1>4, <2>8, <2>9 DEF Fits
  <2> QED
    BY <1>8, <1>9, <2>1, <2>6, <2>10
<1>10. CASE below.fn # "list"
  <2>0. below.fn = "items"
    <3>1. IsItemsFrame(below) \/ IsListFrame(below)
      BY <1>4 DEF FrameOK
    <3> QED
      BY <1>10, <3>1 DEF IsItemsFrame, IsListFrame
  <2>1. CASE Top.itemCount > 1 \/ Top.indent # 0
    <3> DEFINE j == After(i)
               f == Moved(below, j)
               g == Items(list, list.sub)
    <3>1. stack' = rest \o <<f, g>>
      BY <1>1, <1>10, <2>1 DEF EndList, Moved
    <3>2. stack' = Called(stack, m, f, g)
      BY <1>4, <3>1 DEF Called
    <3> HIDE DEF m, list
    <3>3. f.fn = "items" /\ f.tgt = Top.tgt /\ f.i = j /\ f.processed = below.processed
      BY <1>4, <1>5, <2>0, ItemsFields
    <3>4. FrameLines(g) /\ All(g) \subseteq GotLines(Top) /\ g.fn = "items"
      BY <1>6, ItemsLines
    <3>5. /\ From(Top.tgt, j) \subseteq All(Top) /\ Above(GotLines(Top), From(Top.tgt, j))
          /\ Above(GotLines(below), From(Top.tgt, j))
      BY <1>7
    <3> HIDE DEF f, g, j
    <3>6. GotLines(f) = GotLines(below) /\ GotGood(f)
      BY <1>4, <2>0, <3>3 DEF FrameLines, GotLines, GotGood
    <3>7. FrameLines(f)
      BY <1>7, <3>3, <3>5, <3>6 DEF FrameLines
    <3>8. Fits(f, stack, m)
      <4>1. All(f) \subseteq All(below) \cup All(Top)
        BY <3>3, <3>5, <3>6 DEF All
      <4> QED
        BY <1>4, <3>7, <4>1 DEF Fits
    <3>9. Fits(g, stack, m)
      <4>1. All(g) \subseteq All(Top)
        BY <3>4 DEF All
      <4> QED
        BY <1>4, <3>4, <4>1 DEF Fits
    <3>10. Calls(f, g)
      BY <1>7, <3>3, <3>4, <3>5, <3>6 DEF Calls, Above
    <3>11. StackLines(Called(stack, m, f, g), references)
      BY <1>4, <2>0, <3>3, <3>8, <3>9, <3>10, LinesCalled
    <3> QED
      BY <1>2, <3>2, <3>11, LinesStep
  <2>2. CASE ~(Top.itemCount > 1 \/ Top.indent # 0)
    <3> DEFINE k == below.i
               t == below.tgt[k]
               o == <<t>>
               p == Append(below.processed, t)
               j == below.i + 1
               f == Pushed(below, p, j)
    <3>1. stack' = Append(rest, f)
      BY <1>1, <1>10, <2>2 DEF EndList, FalseAlarm, Pushed
    <3>2. Within(k, below.tgt) /\ k =< Len(below.tgt) /\ Good(below.tgt) /\ Good(below.processed)
      BY <1>4, <1>5, <2>0 DEF FrameOK, FrameLines, GotGood
    <3> HIDE DEF m
    <3>3. k \in 1 .. Len(below.tgt) /\ Within(j, below.tgt) /\ k =< j
      <4>1. Len(below.tgt) \in Nat
        BY <3>2, GoodType
      <4> QED
        BY <3>2, <4>1 DEF Within
    <3>4. Taken(below, o, j)
      <4>1. Good(o) /\ LinesOf(o) = ToSet(t.ns)
        BY <3>2, <3>3, GoodOne
      <4>2. ToSet(t.ns) \subseteq Part(below.tgt, k, k + 1)
        BY <3>2, <3>3, PartAt
      <4> QED
        BY <3>3, <4>1, <4>2 DEF Taken
    <3>5. p = below.processed \o o
      <4>1. PICK S : below.processed \in Seq(S)
        BY <3>2, GoodType
      <4> DEFINE V == S \cup {t}
      <4>2. below.processed \in Seq(V) /\ t \in V
        BY <4>1
      <4> HIDE DEF V
      <4> QED
        BY <4>2, AppendIsConcat
    <3> HIDE DEF t, o, p, j
    <3>6. FrameLines(f) /\ All(f) \subseteq All(below)
      <4>1. FrameLines(Pushed(below, below.processed \o o, j))
            /\ All(Pushed(below, below.processed \o o, j)) \subseteq All(below)
        BY <1>4, <2>0, <3>4, PushedLines
      <4> QED
        BY <3>5, <4>1
    <3>7. f.fn = below.fn
      <4>1. StaysOn(f, below, j)
        BY <1>4, <2>0, <3>3, ItemsGoOn
      <4> QED
        BY <4>1 DEF StaysOn
    <3> HIDE DEF f
    <3>8. Fits(f, stack, m)
      BY <1>4, <3>6 DEF Fits
    <3> QED
      BY <1>8, <3>1, <3>7, <3>8
  <2> QED
    BY <2>1, <2>2
<1> QED
  BY <1>9, <1>10

LEMMA OutOfContainerLines == ASSUME BlocksInv, LinesInv, OutOfContainer PROVE LinesInv'
<1>1. outcome = "running" /\ Top.fn = "items" /\ UNCHANGED references
  BY DEF OutOfContainer, Running
<1>2. Good(Top.processed) /\ GotLines(Top) = LinesOf(Top.processed)
  BY <1>1, LinesTop DEF GotGood, GotLines
<1>3. CASE Len(stack) = 1
  <2>1. tokens' = Top.processed /\ UNCHANGED stack
    BY <1>3 DEF OutOfContainer
  <2> DEFINE a == Lined(Top.processed)
  <2>2. Kept' = a
    BY <2>1 DEF Kept
  <2>3. Increasing(a) /\ ToSet(a) = GotLines(Top)
    BY <1>2, GoodLined
  <2> HIDE DEF a
  <2>4. GotLines(Top) \cap references = {}
    BY LinesTop DEF All
  <2>5. \A k, l \in DOMAIN a : k < l => a[k] < a[l]
    <3>1. DOMAIN a = 1 .. Len(a)
      BY <2>3 DEF Increasing
    <3> QED
      BY <2>3, <3>1 DEF Increasing
  <2>6. LinesInOrder'
    BY <1>1, <2>2, <2>3, <2>4, <2>5 DEF LinesInOrder
  <2> QED
    BY <1>1, <2>1, <2>6, LinesTop DEF LinesInv
<1>4. CASE Len(stack) # 1
  <2> DEFINE m == Len(stack) - 1
             below == stack[m]
             made == Container(Top.of.kind, Top.processed)
             p == Append(below.processed, made)
             f == Processed(below, p)
  <2>1. UNCHANGED outcome /\ stack' = Append(SubSeq(stack, 1, Len(stack) - 2), f)
    BY <1>4 DEF OutOfContainer, Processed
  <2>2. /\ m \in 1 .. Len(stack) /\ FrameOK(below, document) /\ Over(below, Top)
        /\ StackOK(stack, document) /\ StackLines(stack, references)
        /\ FrameLines(below) /\ Above(GotLines(below), All(Top))
        /\ Above(All(Top), From(below.tgt, below.i))
        /\ All(below) \subseteq Span(stack, m) /\ All(Top) \subseteq Span(stack, m)
        /\ Len(stack) - 2 = m - 1
    BY <1>1, <1>4, BelowLines
  <2>3. below.fn = "items"
    BY <1>1, <2>2 DEF Over
  <2>4. stack' = Replaced(stack, m, f)
    BY <2>1, <2>2 DEF Replaced
  <2>5. Good(<<made>>) /\ LinesOf(<<made>>) = GotLines(Top)
    BY <1>2, ContainerLines
  <2> HIDE DEF m, made
  <2>6. Good(below.processed) /\ GotLines(below) = LinesOf(below.processed) /\ Good(below.tgt)
        /\ GotLines(Top) \subseteq All(Top)
    BY <2>2, <2>3 DEF FrameLines, GotGood, GotLines, All
  <2>7. Good(p) /\ LinesOf(p) = GotLines(below) \cup GotLines(Top)
    <3>1. Above(LinesOf(below.processed), LinesOf(<<made>>))
      BY <2>2, <2>5, <2>6 DEF Above
    <3> QED
      BY <2>5, <2>6, <3>1, AppendLines
  <2> HIDE DEF p
  <2>8. f.fn = "items" /\ f.tgt = below.tgt /\ f.i = below.i /\ f.processed = p
    BY <2>2, <2>3, ItemsFields
  <2> HIDE DEF f
  <2>9. GotLines(f) = GotLines(below) \cup GotLines(Top) /\ GotGood(f)
    BY <2>7, <2>8 DEF GotLines, GotGood
  <2>10. FrameLines(f)
    BY <2>2, <2>6, <2>8, <2>9 DEF FrameLines, Above
  <2>11. Fits(f, stack, m)
    <3>1. All(f) \subseteq All(below) \cup All(Top)
      BY <2>6, <2>8, <2>9 DEF All
    <3> QED
      BY <2>2, <2>10, <3>1 DEF Fits
  <2>12. StackLines(Replaced(stack, m, f), references)
    BY <2>2, <2>3, <2>8, <2>11, LinesReplaced
  <2> QED
    BY <1>1, <2>1, <2>4, <2>12, LinesStep
<1> QED
  BY <1>3, <1>4

LEMMA ListStepLines == ASSUME BlocksInv, LinesInv, ListStep PROVE LinesInv'
<1>1. /\ Top.i \in Nat /\ Len(Top.tgt) \in Nat /\ Top.i + 1 \in Nat /\ Top.i =< Top.i
      /\ Top.i =< Top.i + 1 /\ (Top.i + 1) + 1 = Top.i + 2 /\ Within(Top.i, Top.tgt)
      /\ There(Top.i) => Within(Top.i + 1, Top.tgt)
  BY TopFacts DEF Within, There
<1>2. CASE ListEnds \/ ListStops \/ BlankAtEnd \/ ListEndsAtBlank
  <2>1. InList /\ (EndList(Top.i) \/ (There(Top.i) /\ EndList(Top.i + 1)))
    BY <1>2 DEF ListEnds, ListStops, BlankAtEnd, ListEndsAtBlank, AtBlank, ListAt
  <2> QED
    BY <1>1, <2>1, EndListLines
<1>3. CASE ListLine
  <2>1. InList /\ There(Top.i) /\ (Sublist(Top.i) \/ NextItem(Top.i))
    BY <1>3 DEF ListLine, AtText, ListAt
  <2> QED
    BY <1>1, <2>1, SublistLines, NextItemLines
<1>4. CASE SublistAfterBlank \/ NextItemAfterBlank
  <2> DEFINE i == Top.i + 1
  <2>1. InList /\ There(i) /\ (Sublist(i) \/ NextItem(i))
    BY <1>4 DEF SublistAfterBlank, NextItemAfterBlank, AfterBlank, AtBlank, ListAt
  <2>2. i \in Nat /\ Top.i =< i
    BY <1>1
  <2> HIDE DEF i
  <2> QED
    BY <2>1, <2>2, SublistLines, NextItemLines
<1>5. CASE ListContinues /\ ~IsBlankText(Line(Top.i))
  <2> DEFINE t == Raw(Strip(Token(Top.i).text, 0), Token(Top.i).ns)
  <2>1. InList /\ There(Top.i) /\ Add(<<t>>, Top.i + 1)
    BY <1>5 DEF ListContinues, AtText, ListAt, Line
  <2>2. t.ns = Token(Top.i).ns /\ t.sub = << >>
    BY DEF Raw
  <2> HIDE DEF t
  <2>3. Taken(Top, <<t>>, Top.i + 1)
    BY <1>1, <2>1, <2>2, TakenFrom
  <2> QED
    BY <2>1, <2>3, AddLines
<1>6. CASE ContinuedAfterBlank
  <2> DEFINE i == Top.i + 1
             t == Raw(Strip(Token(i).text, 0), Token(i).ns)
  <2>1. InList /\ There(i) /\ Add(<<BlankLine, t>>, Top.i + 2)
    BY <1>6 DEF ContinuedAfterBlank, AfterBlank, AtBlank, ListAt, Line
  <2>2. t.ns = Token(i).ns /\ t.sub = << >>
    BY DEF Raw
  <2>3. i \in Nat /\ Top.i =< i /\ i + 1 = Top.i + 2
    BY <1>1
  <2> HIDE DEF t, i
  <2>4. Taken(Top, <<BlankLine, t>>, i + 1)
    BY <2>1, <2>2, <2>3, TakenFrom
  <2>5. Add(<<BlankLine, t>>, i + 1)
    BY <2>1, <2>3
  <2> QED
    BY <2>1, <2>4, <2>5, AddLines
<1>7. CASE CodeAfterBlank
  BY <1>7, CodeAfterBlankLines
<1>8. CASE ListContinues /\ IsBlankText(Line(Top.i))
  BY <1>8 DEF ListContinues, Fail, LinesInv, LinesInOrder
<1> QED
  BY <1>2, <1>3, <1>4, <1>5, <1>6, <1>7, <1>8 DEF ListStep
-----------------------------------------------------------------------------
LEMMA LinesInvariant == BlocksSpec => [](BlocksInv /\ LinesInv)
<1>1. BlocksInit => LinesInv
  BY LinesInitially
<1>2. BlocksInv /\ LinesInv /\ [BlocksNext]_blockVars => LinesInv'
  <2> SUFFICES ASSUME BlocksInv, LinesInv, [BlocksNext]_blockVars PROVE LinesInv'
    OBVIOUS
  <2>1. CASE EndOfPass("merge", "html") \/ EndOfPass("html", "blocks")
    BY <2>1, EndOfPassLines
  <2>2. CASE MergeTag \/ HtmlBlock \/ Reference \/ KeepRaw
    BY <2>2, MergeTagLines, HtmlBlockLines, ReferenceLines, KeepRawLines
  <2>3. CASE Header \/ HorizontalRule \/ StartList
    BY <2>3, HeaderLines, HorizontalRuleLines, StartListLines
  <2>4. CASE Quote \/ Code \/ Keep
    BY <2>4, QuoteStepLines, CodeStepLines, KeepLines
  <2>5. CASE IntoContainer \/ OutOfContainer \/ ListStep
    BY <2>5, IntoContainerLines, OutOfContainerLines, ListStepLines
  <2>6. CASE UNCHANGED blockVars
    <3>1. stack' = stack /\ references' = references /\ outcome' = outcome /\ tokens' = tokens
      BY <2>6 DEF blockVars
    <3> QED
      BY <3>1 DEF LinesInv, LinesInOrder, Kept
  <2> QED
    BY <2>1, <2>2, <2>3, <2>4, <2>5, <2>6 DEF BlocksNext
<1>3. BlocksSpec => []BlocksInv
  BY BlocksInvariant
<1> QED
  BY <1>1, <1>2, <1>3, PTL DEF BlocksSpec

\* Whatever the document, no line of it is written twice or before a line that
\* was above it, however deep lists and quotes nest, and none that went into
\* the table of references is written: at every depth of the recursion of
\* _processBlocksItems and parseListBlock, what has been made tokens of stands
\* above what is still to be looked at.
THEOREM KeepsOrder == BlocksSpec => []LinesInOrder
<1>1. LinesInv => LinesInOrder
  BY DEF LinesInv
<1> QED
  BY <1>1, LinesInvariant, PTL
=============================================================================
