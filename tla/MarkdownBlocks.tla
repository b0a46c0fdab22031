--------------------------- MODULE MarkdownBlocks ---------------------------
(***************************************************************************)
(* How the markdown library (markdown.cpp) divides the lines of a document *)
(* into HTML, references, headers, rules, lists, quotes and code: the      *)
(* passes of Document::_process up to _processBlocksItems, with its        *)
(* recursion and that of parseListBlock as a stack of frames.              *)
(*                                                                         *)
(* A text is the sequence of what stands between its spaces, each with the *)
(* number of spaces before it: "  * x" is <<[sp |-> 2, m |-> "*"],         *)
(* [sp |-> 1, m |-> "x"]>>, and an empty line is << >>.  Spaces at the end *)
(* have nothing behind them: only the last may be [sp |-> n, m |-> ""].    *)
(***************************************************************************)
EXTENDS Integers, SequencesExt

CONSTANT
    Documents   \* the documents that are read, sequences of texts

ASSUME DocumentsAssumption == Documents \subseteq Seq(Seq([sp : Nat, m : STRING]))

VARIABLES
    document,   \* the lines
    pass,       \* "merge", "html" or "blocks"
    stack,      \* the frames, the innermost last
    references, \* the lines that went into the table of references
    outcome,    \* "running", "done", "assert" (a failed one) or "undefined"
    tokens      \* the tokens in the end

blockVars == <<document, pass, stack, references, outcome, tokens>>

\* Tokens: ns are the numbers of the lines that are in it, in order.
Raw(text, ns) == [kind |-> "raw", text |-> text, ns |-> ns, sub |-> << >>]
Leaf(kind, ns) == [kind |-> kind, text |-> <<[sp |-> 0, m |-> "x"]>>, ns |-> ns, sub |-> << >>]
Blank(text, ns) == [kind |-> "blank", text |-> text, ns |-> ns, sub |-> << >>]
BlankLine == Blank(<< >>, << >>)
Lined(toks) == FlattenSeq([k \in DOMAIN toks |-> toks[k].ns])
Container(kind, toks) == [kind |-> kind, text |-> << >>, ns |-> Lined(toks), sub |-> toks]

\* isBlankLine() is also true of an InlineHtmlBlock, text() is none for it and
\* for the other containers, and a CodeBlock has text but no markup.
IsBlankLine(tok) == tok.kind \in {"blank", "html"}
HasText(tok) == tok.kind \in {"raw", "blank", "code", "header", "hr"}
HasMarkup(tok) == tok.kind \in {"raw", "header"}

\* In a block of code what is not code, HTML too, becomes a blank line.
WithMarkup(toks) == [k \in DOMAIN toks |-> IF HasMarkup(toks[k]) THEN toks[k] ELSE BlankLine]
WithText(toks) == [k \in DOMAIN toks |-> IF HasText(toks[k]) THEN toks[k] ELSE BlankLine]

IsBlankText(text) == \A k \in DOMAIN text : text[k].m = ""

Items(of, toks) == [fn |-> "items", of |-> of, tgt |-> toks, i |-> 1, processed |-> << >>]

BlocksInit ==
    /\ document \in Documents
    /\ pass = "merge"
    /\ stack = <<Items(BlankLine, [n \in DOMAIN document |->
                    IF IsBlankText(document[n]) THEN Blank(document[n], << >>)
                    ELSE Raw(document[n], <<n>>)])>>
    /\ references = {}
    /\ outcome = "running"
    /\ tokens = << >>
-----------------------------------------------------------------------------
Top == stack[Len(stack)]
Change(f) == stack' = Append(Front(stack), f)
Token(i) == Top.tgt[i]
There(i) == i =< Len(Top.tgt)

\* The frame goes on at i, with these tokens processed.
Push(toks, i) == Change([Top EXCEPT !.processed = @ \o toks, !.i = i])

Running(p) == outcome = "running" /\ pass = p

\* Wrong: the first pass runs again after the second.
EndOfPassAgain(p, q) ==
    /\ Running(p)
    /\ ~There(Top.i)
    /\ pass' = IF p = "html" THEN "merge" ELSE q
    /\ stack' = <<Items(BlankLine, Top.processed)>>
    /\ UNCHANGED <<document, references, outcome, tokens>>

EndOfPass(p, q) ==
    /\ Running(p)
    /\ ~There(Top.i)
    /\ pass' = q
    /\ stack' = <<Items(BlankLine, Top.processed)>>
    /\ UNCHANGED <<document, references, outcome, tokens>>

Alone(text, m) == Len(text) = 1 /\ text[1].m = m
AloneOrSpaced(text, m) ==
    text # << >> /\ text[1].m = m /\ \A k \in 2 .. Len(text) : text[k].m = ""

\* _mergeMultilineHtmlTags: a tag that starts on one line and ends on the next.
MergeTag ==
    /\ Running("merge")
    /\ There(Top.i)
    /\ LET i == Top.i
           text == Token(i).text
           starts == Token(i).kind = "raw" /\ AloneOrSpaced(text, "<p") /\ text[1].sp = 0
       IN IF starts /\ There(i + 1) /\ Alone(Token(i + 1).text, "p>")
          THEN Push(<<Raw(<<[sp |-> 0, m |-> "<p>"]>>, Token(i).ns \o Token(i + 1).ns)>>, i + 2)
          ELSE Push(<<Token(i)>>, i + 1)
    /\ UNCHANGED <<document, pass, references, outcome, tokens>>

\* What isValidTag says of the tags that appear: "<ins>" is in both its tables.
StartsWith(text, ms) == text # << >> /\ text[1].sp = 0 /\ text[1].m \in ms
BlockTags == {"<p>", "<ins>"}

\* The last line of the HTML that starts at i: a first line before a blank one,
\* or a line that is nothing but a tag (or ends a comment) before a blank one.
HtmlEnd(i, Ends(_)) ==
    LET ends == {j \in i .. Len(Top.tgt) - 1 :
                    IsBlankLine(Token(j + 1)) /\ (j = i \/ Ends(Token(j).text))}
    IN IF ends = {} THEN Len(Top.tgt) ELSE Min(ends)

AloneTag(text) == Len(text) = 1 /\ StartsWith(text, BlockTags)
EndsComment(text) == text # << >> /\ text[Len(text)].m = "-->"

\* parseInlineHtml: the last line, or 0 for none.  One line is enough only for
\* a tag that is no span tag as well.
InlineHtml(i) ==
    LET text == Token(i).text
        afterBlank == Top.processed = << >> \/ IsBlankLine(Top.processed[Len(Top.processed)])
    IN IF afterBlank /\ StartsWith(text, BlockTags)
       THEN LET e == HtmlEnd(i, AloneTag)
            IN IF e > i \/ text[1].m = "<p>" THEN e ELSE 0
       ELSE IF afterBlank /\ StartsWith(text, {"<!--"}) THEN HtmlEnd(i, EndsComment) ELSE 0

HtmlBlock ==
    /\ Running("html")
    /\ There(Top.i)
    /\ InlineHtml(Top.i) # 0
    /\ LET e == InlineHtml(Top.i)
       IN Push(<<Leaf("html", Lined(SubSeq(Top.tgt, Top.i, e)))>>, e + 1)
    /\ UNCHANGED <<document, pass, references, outcome, tokens>>

\* parseReference: the title may be on the next line.
IsReference(text) == Alone(text, "[r]:") /\ text[1].sp =< 3

Reference ==
    /\ Running("html")
    /\ There(Top.i)
    /\ InlineHtml(Top.i) = 0
    /\ IsReference(Token(Top.i).text)
    /\ LET i == Top.i
           e == IF There(i + 1) /\ AloneOrSpaced(Token(i + 1).text, "(t)") THEN i + 1 ELSE i
       IN /\ references' = references \cup ToSet(Lined(SubSeq(Top.tgt, i, e)))
          /\ Push(<< >>, e + 1)
    /\ UNCHANGED <<document, pass, outcome, tokens>>

KeepRaw ==
    /\ Running("html")
    /\ There(Top.i)
    /\ InlineHtml(Top.i) = 0 /\ ~IsReference(Token(Top.i).text)
    /\ Push(<<Token(Top.i)>>, Top.i + 1)
    /\ UNCHANGED <<document, pass, references, outcome, tokens>>
-----------------------------------------------------------------------------
\* The expressions that lines are matched with.
Bullets == {"*", "+", "-"}

\* Contents that "[^*-]" refuses: it matches a space that " +" gives back, but
\* not the star of emphasis.
Starred == {"*", "-", "*em*", ""}
Strip(text, sp) == IF text = << >> THEN text ELSE [text EXCEPT ![1].sp = sp]

IsHashHeader(text) == Len(text) > 1 /\ StartsWith(text, {"#"}) /\ text[2].sp > 0
IsUnderline(text) == Len(text) = 1 /\ StartsWith(text, {"=", "-"})
IsRule(text) ==
    /\ Len(text) >= 3 /\ text[3].m # ""
    /\ text[1].sp =< 3 /\ \A k \in DOMAIN text : text[k].m \in {"*", "-", ""}

IsUnordered(text) ==
    /\ Len(text) > 1 /\ text[1].m \in Bullets
    /\ text[2].sp > (IF text[2].m \in Starred THEN 1 ELSE 0)
IsOrdered(text) == Len(text) > 1 /\ text[1].m = "1." /\ text[2].sp > 0
IsItem(text) == IsUnordered(text) \/ IsOrdered(text)

Content(text) ==
    Strip(Tail(text), IF IsUnordered(text) /\ text[2].m \in Starred THEN 1 ELSE 0)

\* Wrong: the space behind the bullet is not looked at.
StartsSublistTight(text, indent) ==
    /\ Len(text) > 1 /\ text[1].m \in Bullets \cup {"1."}
    /\ text[1].sp > indent

StartsSublist(text, indent) ==
    /\ Len(text) > 1 /\ text[1].m \in Bullets \cup {"1."}
    /\ text[1].sp > indent /\ text[2].sp > 0

IsNextItem(f, text) == IsItem(text) /\ text[1] = [sp |-> f.indent, m |-> f.mark]

IsCode(tok, indent) == tok.text # << >> /\ tok.text[1].sp >= indent

\* The number of ">" of a line that starts a quote: a space must follow them.
QuoteLevel(text) ==
    Max({0} \cup {k \in 1 .. Len(text) - 1 :
                     /\ \A l \in 1 .. k : text[l].m = ">" /\ text[l].sp =< 3
                     /\ text[k + 1].sp > 0})
Continues(text, level) ==
    Len(text) >= level /\ \A l \in 1 .. level : text[l].m = ">" /\ text[l].sp =< 3
Unquoted(text, level) ==
    LET rest == SubSeq(text, level + 1, Len(text))
    IN IF rest = << >> THEN rest ELSE Strip(rest, Max({0, rest[1].sp - 1}))
-----------------------------------------------------------------------------
\* _processBlocksItems.
AtItem == Running("blocks") /\ Top.fn = "items" /\ There(Top.i)
Markup(i) == There(i) /\ HasMarkup(Token(i))
Text == Token(Top.i).text

\* Wrong: also at the end.
AfterAlways(i) == i + 1

\* A list, a quote or a code block leaves ii at the first token behind it, and
\* unless that is the end, the loop of the caller passes over it.
After(i) == IF There(i) THEN i + 1 ELSE i

IsHeader(i) ==
    /\ Markup(i)
    /\ IsHashHeader(Token(i).text) \/ (Markup(i + 1) /\ IsUnderline(Token(i + 1).text))

Header ==
    /\ AtItem /\ IsHeader(Top.i)
    /\ LET i == Top.i
           e == IF IsHashHeader(Text) THEN i ELSE i + 1
       IN Push(<<Leaf("header", Lined(SubSeq(Top.tgt, i, e)))>>, e + 1)
    /\ UNCHANGED <<document, pass, references, outcome, tokens>>

HorizontalRule ==
    /\ AtItem /\ Markup(Top.i) /\ ~IsHeader(Top.i)
    /\ IsRule(Text)
    /\ Push(<<Leaf("hr", Token(Top.i).ns)>>, Top.i + 1)
    /\ UNCHANGED <<document, pass, references, outcome, tokens>>

Undecided == AtItem /\ Markup(Top.i) /\ ~IsHeader(Top.i) /\ ~IsRule(Text)

ListFrame(i) ==
    LET text == Top.tgt[i].text
    IN [fn |-> "list", tgt |-> Top.tgt, i |-> i + 1, indent |-> text[1].sp,
        mark |-> text[1].m, subTokens |-> << >>,
        subItemTokens |-> <<Raw(Content(text), Top.tgt[i].ns)>>, itemCount |-> 1]

StartList ==
    /\ Undecided
    /\ IsItem(Text) /\ Text[1].sp < 4
    /\ stack' = Append(stack, ListFrame(Top.i))
    /\ UNCHANGED <<document, pass, references, outcome, tokens>>

\* _processBlocksItems of a container: a frame of its own.
Descend(f, tok) == stack' = Front(stack) \o <<f, Items(tok, tok.sub)>>

\* Where the quote from j on ends, what is in it, and whether it meets a token
\* that has no text.
QuoteFrom(level) ==
    LET toks == Top.tgt
        cont(k) == Continues(toks[k].text, level)
        raw(k) == Raw(Unquoted(toks[k].text, level), toks[k].ns)
        line(k) == IF IsBlankText(raw(k).text) THEN Blank(raw(k).text, raw(k).ns) ELSE raw(k)
        stop(k) == [end |-> k, sub |-> << >>, none |-> FALSE]
        none(k) == [stop(k) EXCEPT !.none = TRUE]
        with(sub, q) == [q EXCEPT !.sub = sub \o @]
        q[k \in 1 .. Len(toks) + 1] ==
            IF k > Len(toks) THEN stop(k)
            ELSE IF IsBlankLine(toks[k])
            THEN IF k = Len(toks) THEN stop(k + 1)
                 ELSE IF ~HasText(toks[k + 1]) THEN none(k)
                 ELSE IF cont(k + 1) THEN with(<<BlankLine, raw(k + 1)>>, q[k + 2])
                 ELSE stop(k)
            ELSE IF ~HasText(toks[k]) THEN none(k)
            ELSE IF cont(k) THEN with(<<line(k)>>, q[k + 1]) ELSE stop(k)
    IN q

Fail(how) ==
    /\ outcome' = how
    /\ UNCHANGED <<document, pass, stack, references, tokens>>

Quote ==
    LET level == QuoteLevel(Text)
        q == QuoteFrom(level)[Top.i + 1]
        first == Raw(Unquoted(Text, level), Token(Top.i).ns)
    IN /\ Undecided /\ ~IsItem(Text)
       /\ level > 0
       /\ IF q.none
          THEN Fail("undefined")
          ELSE /\ Descend([Top EXCEPT !.i = After(q.end)], Container("quote", <<first>> \o q.sub))
               /\ UNCHANGED <<document, pass, references, outcome, tokens>>

\* The code from i on: to the last line of code that only code and blank lines
\* separate from the first.
CodeEnd(i) ==
    Max({k \in i .. Len(Top.tgt) :
            /\ Markup(k) /\ IsCode(Token(k), 4)
            /\ \A l \in i .. k : IsBlankLine(Token(l)) \/ (Markup(l) /\ IsCode(Token(l), 4))})

Code ==
    /\ Undecided /\ IsCode(Token(Top.i), 4)
    /\ LET e == CodeEnd(Top.i)
           lines == WithMarkup(SubSeq(Top.tgt, Top.i, e))
       IN Push(<<Leaf("code", Lined(lines))>>, After(e + 1))
    /\ UNCHANGED <<document, pass, references, outcome, tokens>>

IsPlain(text) == ~IsItem(text) /\ QuoteLevel(text) = 0 /\ (text # << >> => text[1].sp < 4)

\* Text that is none of these, and HTML.
Keep ==
    /\ AtItem
    /\ \/ Undecided /\ IsPlain(Text)
       \/ HasText(Token(Top.i)) /\ ~HasMarkup(Token(Top.i))
       \/ Token(Top.i).kind = "html"
    /\ Push(<<Token(Top.i)>>, Top.i + 1)
    /\ UNCHANGED <<document, pass, references, outcome, tokens>>

IntoContainer ==
    /\ AtItem /\ Token(Top.i).kind \in {"list", "item", "quote"}
    /\ Descend([Top EXCEPT !.i = @ + 1], Token(Top.i))
    /\ UNCHANGED <<document, pass, references, outcome, tokens>>

\* The container gets its processed tokens, and its caller pushes it back.
OutOfContainer ==
    /\ Running("blocks") /\ Top.fn = "items" /\ ~There(Top.i)
    /\ IF Len(stack) = 1
       THEN /\ tokens' = Top.processed
            /\ outcome' = "done"
            /\ UNCHANGED stack
       ELSE /\ LET below == stack[Len(stack) - 1]
                   made == Container(Top.of.kind, Top.processed)
               IN stack' = Append(SubSeq(stack, 1, Len(stack) - 2),
                                  [below EXCEPT !.processed = Append(@, made)])
            /\ UNCHANGED <<tokens, outcome>>
    /\ UNCHANGED <<document, pass, references>>
-----------------------------------------------------------------------------
\* parseListBlock, one step for each turn of its loop.
InList == Running("blocks") /\ Top.fn = "list"
ListAt(i) == InList /\ There(i)

\* Wrong: the items from the last to the first.
FlushedBefore(f) ==
    IF f.subItemTokens = << >> THEN f.subTokens
    ELSE <<Container("item", f.subItemTokens)>> \o f.subTokens

Flushed(f) ==
    IF f.subItemTokens = << >> THEN f.subTokens
    ELSE Append(f.subTokens, Container("item", f.subItemTokens))

\* Wrong: goes on where the list that was none ended.
FalseAlarmBehind(f, i) == [f EXCEPT !.processed = Append(@, f.tgt[f.i]), !.i = i]

\* It looked like a list: its first line is kept as it is.
FalseAlarm(f, i) == [f EXCEPT !.processed = Append(@, f.tgt[f.i]), !.i = @ + 1]

\* The list ends at i: it goes to the list it is a sublist of, or is processed;
\* one item that is not indented was no list.
EndList(i) ==
    LET below == stack[Len(stack) - 1]
        rest == SubSeq(stack, 1, Len(stack) - 2)
        list == Container("list", Flushed(Top))
    IN /\ IF below.fn = "list"
          THEN stack' = Append(rest, [below EXCEPT !.subItemTokens = Append(@, list), !.i = i])
          ELSE IF Top.itemCount > 1 \/ Top.indent # 0
          THEN stack' = rest \o <<[below EXCEPT !.i = After(i)], Items(list, list.sub)>>
          ELSE stack' = Append(rest, FalseAlarm(below, i))
       /\ UNCHANGED <<document, pass, references, outcome, tokens>>

Add(toks, i) ==
    /\ Change([Top EXCEPT !.subItemTokens = @ \o toks, !.i = i])
    /\ UNCHANGED <<document, pass, references, outcome, tokens>>

NextItem(i) ==
    /\ Change([Top EXCEPT !.subTokens = Flushed(Top), !.itemCount = @ + 1, !.i = i + 1,
                          !.subItemTokens = <<Raw(Content(Token(i).text), Token(i).ns)>>])
    /\ UNCHANGED <<document, pass, references, outcome, tokens>>

\* A line that starts a sublist need not be an item: the assertion that
\* parseListBlock has found a list then fails.
Sublist(i) ==
    IF IsItem(Token(i).text)
    THEN /\ stack' = Front(stack) \o <<[Top EXCEPT !.itemCount = @ + 1, !.i = i], ListFrame(i)>>
         /\ UNCHANGED <<document, pass, references, outcome, tokens>>
    ELSE Fail("assert")

ListEnds == InList /\ ~There(Top.i) /\ EndList(Top.i)

Line(i) == Token(i).text
AtText == ListAt(Top.i) /\ ~IsBlankLine(Token(Top.i)) /\ HasText(Token(Top.i))

ListLine ==
    /\ AtText
    /\ LET i == Top.i
       IN \/ StartsSublist(Line(i), Top.indent) /\ Sublist(i)
          \/ ~StartsSublist(Line(i), Top.indent) /\ IsNextItem(Top, Line(i)) /\ NextItem(i)

\* Only spaces are no continuation, which is asserted.
ListContinues ==
    /\ AtText
    /\ ~StartsSublist(Line(Top.i), Top.indent) /\ ~IsItem(Line(Top.i))
    /\ IF IsBlankText(Line(Top.i))
       THEN Fail("assert")
       ELSE Add(<<Raw(Strip(Line(Top.i), 0), Token(Top.i).ns)>>, Top.i + 1)

\* An item of another list, or a token without text.
ListStops ==
    /\ ListAt(Top.i) /\ ~IsBlankLine(Token(Top.i))
    /\ HasText(Token(Top.i)) =>
         /\ IsItem(Line(Top.i)) /\ ~StartsSublist(Line(Top.i), Top.indent)
         /\ ~IsNextItem(Top, Line(Top.i))
    /\ EndList(Top.i)

AtBlank == ListAt(Top.i) /\ IsBlankLine(Token(Top.i))

BlankAtEnd == AtBlank /\ ~There(Top.i + 1) /\ EndList(Top.i + 1)

AfterBlank(P(_)) == AtBlank /\ There(Top.i + 1) /\ HasText(Token(Top.i + 1)) /\ P(Line(Top.i + 1))

SublistAfterBlank ==
    LET starts(text) == StartsSublist(text, Top.indent)
    IN AfterBlank(starts) /\ Sublist(Top.i + 1)

NextItemAfterBlank ==
    LET next(text) == ~StartsSublist(text, Top.indent) /\ IsNextItem(Top, text)
    IN AfterBlank(next) /\ NextItem(Top.i + 1)

IsContinuation(text, indent) == ~IsBlankText(text) /\ text[1].sp = indent + 4

ContinuedAfterBlank ==
    LET continued(text) ==
            ~StartsSublist(text, Top.indent) /\ IsContinuation(text, Top.indent)
    IN /\ AfterBlank(continued)
       /\ Add(<<BlankLine, Raw(Strip(Line(Top.i + 1), 0), Token(Top.i + 1).ns)>>, Top.i + 2)

\* Code in an item goes on with a line that is indented so far, and with a
\* blank line and the one behind it, if that is (spaces may be enough); but when
\* the blank line is the last, or something without text follows it, what is
\* behind it is used.
CodeInItem(text) ==
    ~StartsSublist(text, Top.indent) /\ text # << >> /\ text[1].sp >= Top.indent + 8

CodeGoesOn(k) ==
    LET far(l) == There(l) /\ HasText(Token(l)) /\ IsCode(Token(l), Top.indent + 8)
    IN IF There(k) /\ IsBlankLine(Token(k)) THEN IF far(k + 1) THEN k + 2 ELSE k
       ELSE IF far(k) THEN k + 1 ELSE k

ItemCodeEnd(i) ==
    LET end[k \in 1 .. Len(Top.tgt) + 1] == IF CodeGoesOn(k) = k THEN k ELSE end[CodeGoesOn(k)]
    IN end[i]

CodeAfterBlank ==
    LET i == Top.i + 1
        e == ItemCodeEnd(i + 1)
        lines == WithText(SubSeq(Top.tgt, i, e - 1))
    IN /\ AfterBlank(CodeInItem)
       /\ IF There(e) /\ IsBlankLine(Token(e)) /\ (~There(e + 1) \/ ~HasText(Token(e + 1)))
          THEN Fail("undefined")
          ELSE /\ Change([Top EXCEPT !.itemCount = @ + 1, !.i = e,
                            !.subItemTokens = @ \o <<BlankLine, Leaf("code", Lined(lines))>>])
               /\ UNCHANGED <<document, pass, references, outcome, tokens>>

\* Another paragraph, another list, another blank line, or a token without
\* text.  The list ends at the blank line.
ListEndsAtBlank ==
    /\ AtBlank /\ There(Top.i + 1)
    /\ HasText(Token(Top.i + 1)) =>
         LET text == Line(Top.i + 1)
         IN /\ ~StartsSublist(text, Top.indent) /\ ~IsNextItem(Top, text)
            /\ ~IsContinuation(text, Top.indent)
            /\ text # << >> => text[1].sp < Top.indent + 8
    /\ EndList(Top.i)

ListStep ==
    \/ ListEnds \/ ListLine \/ ListContinues \/ ListStops \/ BlankAtEnd \/ SublistAfterBlank
    \/ NextItemAfterBlank \/ ContinuedAfterBlank \/ CodeAfterBlank \/ ListEndsAtBlank

BlocksNext ==
    \/ EndOfPass("merge", "html") \/ EndOfPass("html", "blocks")
    \/ MergeTag \/ HtmlBlock \/ Reference \/ KeepRaw
    \/ Header \/ HorizontalRule \/ StartList \/ Quote \/ Code \/ Keep
    \/ IntoContainer \/ OutOfContainer \/ ListStep

\* A single thread that is not stopped.
BlocksSpec == BlocksInit /\ [][BlocksNext]_blockVars /\ WF_blockVars(BlocksNext)
-----------------------------------------------------------------------------
\* The iterators of all loops stay in their lists or at their ends.
BlocksTypeOK ==
    /\ document \in Documents
    /\ pass \in {"merge", "html", "blocks"}
    /\ outcome \in {"running", "done", "assert", "undefined"}
    /\ references \subseteq DOMAIN document
    /\ \A k \in DOMAIN stack : stack[k].i \in 1 .. Len(stack[k].tgt) + 1

Kept == Lined(tokens)

IsHtml(text) == StartsWith(text, BlockTags \cup {"<p", "<!--"})
Html(n) == IsHtml(document[n])

\* Whatever the lines, none of them is written twice or before one that was
\* above it, and none is both a reference and text.
LinesInOrder ==
    outcome = "done" =>
        /\ \A k, l \in DOMAIN Kept : k < l => Kept[k] < Kept[l]
        /\ ToSet(Kept) \cap references = {}

\* A line of text that stands behind a blank one, or first, is in what is
\* written, or is a reference: a list, a quote or a code block in front of the
\* blank line leaves it to _processBlocksItems, and a list that was none is read
\* again.  HTML, which swallows lines and counts as blank, is not above it.
\* (A plain line directly behind a quote is lost, though the comment at
\* markdown.cpp:254 counts it as a continuation of the quote.)
KeepsBehindBlanks ==
    outcome = "done" =>
        \A n \in DOMAIN document :
            /\ ~IsBlankText(document[n]) /\ (n > 1 => IsBlankText(document[n - 1]))
            /\ \A m \in 1 .. n : ~Html(m)
            => n \in ToSet(Kept) \cup references

\* A bullet that starts a sublist but is no item: only spaces follow it, or one
\* space and then a star or a dash.  It may fail assert(p) (markdown.cpp:381, 431).
NoItem(text) ==
    \E k \in 1 .. Len(text) - 1 :
        /\ text[k].m \in Bullets \cup {"1."}
        /\ text[k + 1].m = "" \/ (text[k + 1].m \in Starred /\ text[k + 1].sp = 1)

\* No such bullet, no list or HTML beside a quote, and no line that is indented
\* far beside a list.
Ordinary ==
    LET has(P(_)) == \E n \in DOMAIN document : P(document[n])
        quote(text) == \E k \in DOMAIN text : text[k].m = ">"
        item(text) == \E k \in DOMAIN text : text[k].m \in Bullets \cup {"1."}
        far(text) == \E k \in DOMAIN text : text[k].sp >= 8
    IN /\ ~has(NoItem)
       /\ ~(has(quote) /\ (has(IsHtml) \/ has(item)))
       /\ ~(has(item) /\ has(far))

\* Such a document is rendered: no assertion fails, and no text is taken of a
\* token without any or of the end of the list, however its lines are mixed.
RendersOrdinary == Ordinary => outcome \in {"running", "done"}

\* The passes end for every document.
ProcessingEnds == <>(outcome # "running")
=============================================================================
