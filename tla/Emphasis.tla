------------------------------ MODULE Emphasis ------------------------------
(***************************************************************************)
(* Bold and italic in the markdown library: how                            *)
(* RawText::_processBoldAndItalicSpans (markdown-tokens.cpp) pairs the     *)
(* markers of a text, which it has found, with those that close them.  The *)
(* text between the markers plays no part.                                 *)
(*                                                                         *)
(* Bounds: MaxMarkers, the markers of a text, and MaxTokens, the length    *)
(* that the list may grow to.                                              *)
(***************************************************************************)
EXTENDS Integers, SequencesExt

CONSTANTS
    Characters, \* "*" and "_"
    MaxMarkers, MaxTokens   \* bounds

ASSUME BoundsAssumption == MaxMarkers \in Nat /\ MaxTokens \in Nat

Sizes == 1 .. 3

\* A BoldOrItalicMarker.  markers never loses one, so that its index serves as
\* a pointer; match is such a pointer, or 0.
Marker(open, c, size) ==
    [openMarker |-> open, tokenCharacter |-> c, size |-> size, match |-> 0,
     cannotMatch |-> FALSE, disabled |-> FALSE, id |-> -1]

VARIABLES
    text,       \* the markers of the text, as they were found
    markers,    \* all that were ever made
    tgt,        \* the list: pointers
    ii, iii,    \* positions in tgt
    id,         \* the number of the next match
    openMatches,\* the stack of the second pass, top last
    phase       \* "match", "search" (the inner loop), "unmatch" or "done"

emphasisVars == <<text, markers, tgt, ii, iii, id, openMatches, phase>>

Texts == BoundedSeq([open : BOOLEAN, c : Characters, size : Sizes], MaxMarkers)

EmphasisInit ==
    /\ text \in Texts
    /\ markers = [k \in DOMAIN text |-> Marker(text[k].open, text[k].c, text[k].size)]
    /\ tgt = [k \in DOMAIN text |-> k]
    /\ ii = 1 /\ iii = 1
    /\ id = 0
    /\ openMatches = << >>
    /\ phase = "match"
-----------------------------------------------------------------------------
At(i) == markers[tgt[i]]

IsUnmatchedOpenMarker(m) == m.openMarker /\ m.match = 0 /\ ~m.cannotMatch
IsUnmatchedCloseMarker(m) == ~m.openMarker /\ m.match = 0 /\ ~m.cannotMatch

NextOpenMarker ==
    /\ phase = "match"
    /\ ii =< Len(tgt)
    /\ IF IsUnmatchedOpenMarker(At(ii))
       THEN phase' = "search" /\ iii' = ii + 1 /\ UNCHANGED ii
       ELSE ii' = ii + 1 /\ UNCHANGED <<iii, phase>>
    /\ UNCHANGED <<text, markers, tgt, id, openMatches>>

\* Wrong: the marker that was split stays in the text.
SplitKept(i, size) ==
    LET k == tgt[i]
        new(s) == Marker(markers[k].openMarker, markers[k].tokenCharacter, s)
    IN /\ Len(tgt) + 2 =< MaxTokens                 \* bound
       /\ markers' = [markers EXCEPT ![k].cannotMatch = TRUE]
                         \o <<new(markers[k].size - size), new(size)>>
       /\ tgt' = InsertAt(InsertAt(tgt, i + 1, Len(markers) + 2), i + 1, Len(markers) + 1)

\* disable, and splice two of its kind behind it: what is left over first.
Split(i, size) ==
    LET k == tgt[i]
        new(s) == Marker(markers[k].openMarker, markers[k].tokenCharacter, s)
    IN /\ Len(tgt) + 2 =< MaxTokens                 \* bound
       /\ markers' = [markers EXCEPT ![k].cannotMatch = TRUE, ![k].disabled = TRUE]
                         \o <<new(markers[k].size - size), new(size)>>
       /\ tgt' = InsertAt(InsertAt(tgt, i + 1, Len(markers) + 2), i + 1, Len(markers) + 1)

Opener == At(ii)
Closer == At(iii)

\* Wrong: also for an open-marker of three.
SplitsCloseAlways == Closer.size = 3

SplitsClose == Closer.size = 3 /\ Opener.size # 3
Matches == Closer.tokenCharacter = Opener.tokenCharacter /\ Closer.size = Opener.size

Searching == phase = "search" /\ iii =< Len(tgt)

NoCloseMarker ==
    /\ phase = "search"
    /\ iii > Len(tgt)
    /\ phase' = "match" /\ ii' = ii + 1
    /\ UNCHANGED <<text, markers, tgt, iii, id, openMatches>>

PassOver ==
    /\ Searching
    /\ \/ ~IsUnmatchedCloseMarker(Closer)
       \/ ~SplitsClose /\ ~Matches /\ Opener.size # 3
    /\ iii' = iii + 1
    /\ UNCHANGED <<text, markers, tgt, ii, id, openMatches, phase>>

SplitClose ==
    /\ Searching
    /\ IsUnmatchedCloseMarker(Closer)
    /\ SplitsClose
    /\ Split(iii, Opener.size)
    /\ iii' = iii + 1
    /\ UNCHANGED <<text, ii, id, openMatches, phase>>

Match ==
    /\ Searching
    /\ IsUnmatchedCloseMarker(Closer)
    /\ ~SplitsClose
    /\ Matches
    /\ markers' = [markers EXCEPT ![tgt[ii]].match = tgt[iii], ![tgt[ii]].id = id,
                                  ![tgt[iii]].match = tgt[ii], ![tgt[iii]].id = id]
    /\ id' = id + 1
    /\ phase' = "match" /\ ii' = ii + 1
    /\ UNCHANGED <<text, tgt, iii, openMatches>>

\* Wrong: goes on behind what is left over.
SplitOpenSkips ==
    /\ Searching
    /\ IsUnmatchedCloseMarker(Closer)
    /\ ~SplitsClose /\ ~Matches
    /\ Opener.size = 3
    /\ Split(ii, Closer.size)
    /\ phase' = "match" /\ ii' = ii + 2
    /\ UNCHANGED <<text, iii, id, openMatches>>

SplitOpen ==
    /\ Searching
    /\ IsUnmatchedCloseMarker(Closer)
    /\ ~SplitsClose /\ ~Matches
    /\ Opener.size = 3
    /\ Split(ii, Closer.size)
    /\ phase' = "match" /\ ii' = ii + 1
    /\ UNCHANGED <<text, iii, id, openMatches>>

StartUnmatching ==
    /\ phase = "match"
    /\ ii > Len(tgt)
    /\ phase' = "unmatch" /\ ii' = 1
    /\ UNCHANGED <<text, markers, tgt, iii, id, openMatches>>
-----------------------------------------------------------------------------
\* Wrong: everything.
PoppedAll(stack) == << >>

\* pop, and pop again while the open-marker on top is no longer matched.
Popped(stack) ==
    LET left == {k \in 1 .. Len(stack) - 1 : markers[stack[k]].match # 0}
    IN SubSeq(stack, 1, Max(left \cup {0}))

Unmatching == phase = "unmatch" /\ ii =< Len(tgt)
MatchedClose(m) == ~m.openMarker /\ m.match # 0

PushOpen ==
    /\ Unmatching
    /\ At(ii).openMarker /\ At(ii).match # 0
    /\ openMatches' = Append(openMatches, tgt[ii])
    /\ ii' = ii + 1
    /\ UNCHANGED <<text, markers, tgt, iii, id, phase>>

PopMatch ==
    /\ Unmatching
    /\ MatchedClose(At(ii))
    /\ At(ii).id = markers[Last(openMatches)].id
    /\ openMatches' = Popped(openMatches)
    /\ ii' = ii + 1
    /\ UNCHANGED <<text, markers, tgt, iii, id, phase>>

\* Wrong: only the close-marker.
UnmatchClose ==
    /\ Unmatching
    /\ MatchedClose(At(ii))
    /\ At(ii).id # markers[Last(openMatches)].id
    /\ markers' = [markers EXCEPT ![tgt[ii]].match = 0, ![tgt[ii]].id = -1]
    /\ ii' = ii + 1
    /\ UNCHANGED <<text, tgt, iii, id, openMatches, phase>>

\* matched(0) also sets the id to -1, of both.
Unmatch ==
    /\ Unmatching
    /\ MatchedClose(At(ii))
    /\ At(ii).id # markers[Last(openMatches)].id
    /\ LET k == tgt[ii]
           l == At(ii).match
       IN markers' = [markers EXCEPT ![k].match = 0, ![k].id = -1,
                                     ![l].match = 0, ![l].id = -1]
    /\ ii' = ii + 1
    /\ UNCHANGED <<text, tgt, iii, id, openMatches, phase>>

SkipUnmatched ==
    /\ Unmatching
    /\ At(ii).match = 0
    /\ ii' = ii + 1
    /\ UNCHANGED <<text, markers, tgt, iii, id, openMatches, phase>>

Finish ==
    /\ phase = "unmatch"
    /\ ii > Len(tgt)
    /\ phase' = "done"
    /\ UNCHANGED <<text, markers, tgt, ii, iii, id, openMatches>>

EmphasisNext ==
    \/ NextOpenMarker \/ NoCloseMarker \/ PassOver \/ SplitClose \/ Match \/ SplitOpen
    \/ StartUnmatching \/ PushOpen \/ PopMatch \/ Unmatch \/ SkipUnmatched \/ Finish

\* A single thread that is not stopped.
EmphasisSpec == EmphasisInit /\ [][EmphasisNext]_emphasisVars /\ WF_emphasisVars(EmphasisNext)
-----------------------------------------------------------------------------
\* "***a b___": an open-marker of three and a later close-marker of three of the
\* other character.
Clash ==
    \E i, j \in DOMAIN text :
        /\ i < j /\ text[i].open /\ ~text[j].open
        /\ text[i].size = 3 /\ text[j].size = 3 /\ text[i].c # text[j].c

\* The types.  markdown-tokens.h:367 says of a size "1=italics, 2=bold, 3=both":
\* there is no other, unless two triples clash.
EmphasisTypeOK ==
    /\ text \in Texts
    /\ \A k \in DOMAIN markers :
         /\ markers[k].size \in IF Clash THEN 0 .. 3 ELSE Sizes
         /\ markers[k].tokenCharacter \in Characters
         /\ markers[k].match \in 0 .. Len(markers)
         /\ markers[k].id \in -1 .. Len(markers)
    /\ Len(tgt) = Len(markers) /\ ToSet(tgt) = DOMAIN markers
    /\ ii \in 1 .. Len(tgt) + 1 /\ iii \in 1 .. Len(tgt) + 1
    /\ phase \in {"match", "search", "unmatch", "done"}

\* top() is never called on an empty stack: the open-marker of a close-marker
\* that is still matched has been pushed and is still there.
TopIsThere ==
    Unmatching /\ MatchedClose(At(ii)) =>
        \E k \in DOMAIN openMatches : openMatches[k] = At(ii).match

Pairs == {p \in (DOMAIN tgt) \X (DOMAIN tgt) :
             p[1] < p[2] /\ At(p[1]).match = tgt[p[2]] /\ At(p[2]).match = tgt[p[1]]}

\* What is written is well nested: a matched marker has one partner, of its
\* own character and size, an open-marker before a close-marker, and no two
\* pairs cross.
WritesNestedTags ==
    phase = "done" =>
        /\ \A i \in DOMAIN tgt : At(i).match # 0 =>
              \E p \in Pairs : i \in {p[1], p[2]} /\ ~At(i).disabled
        /\ \A p \in Pairs :
              /\ At(p[1]).openMarker /\ ~At(p[2]).openMarker
              /\ At(p[1]).tokenCharacter = At(p[2]).tokenCharacter
              /\ At(p[1]).size = At(p[2]).size
        /\ \A p, q \in Pairs : ~(p[1] < q[1] /\ q[1] < p[2] /\ p[2] < q[2])

Written(m) == IF m.disabled THEN 0 ELSE m.size

\* Every asterisk and underscore of the text is written once, in its place, as
\* a tag or as itself: splits neither lose nor add any, and make markers of a
\* size that there is.
KeepsTheText ==
    LET Found(k) == [n \in 1 .. text[k].size |-> <<text[k].open, text[k].c>>]
        Kept(i) == [n \in 1 .. Written(At(i)) |-> <<At(i).openMarker, At(i).tokenCharacter>>]
    IN /\ EmphasisTypeOK
       /\ FlattenSeq([i \in DOMAIN tgt |-> Kept(i)]) = FlattenSeq([k \in DOMAIN text |-> Found(k)])

\* After the first pass no open-marker is left that an open close-marker behind
\* it would fit.
AllMatched ==
    phase = "unmatch" /\ ii = 1 =>
        ~ \E i, j \in DOMAIN tgt :
            /\ i < j
            /\ IsUnmatchedOpenMarker(At(i)) /\ IsUnmatchedCloseMarker(At(j))
            /\ At(i).tokenCharacter = At(j).tokenCharacter /\ At(i).size = At(j).size

\* Pairing comes to an end, though the list grows as it is walked, for every
\* text in which no two triples clash.
PairingEnds == ~Clash => <>(phase = "done")
=============================================================================
