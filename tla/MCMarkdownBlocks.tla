-------------------------- MODULE MCMarkdownBlocks --------------------------
(* Lines of every kind the blocks of a document start, go on and end with,    *)
(* for TLC.                                                                   *)
EXTENDS MarkdownBlocks

Of(sp, m) == <<[sp |-> sp, m |-> m]>>

Item == Of(0, "*") \o Of(1, "x")
Subitem == Of(2, "*") \o Of(1, "x")

Plain == {<< >>, Of(0, "x"), Of(4, "x"), Of(8, "x")}
ItemLines == {Item, Subitem, Of(0, "1.") \o Of(1, "x")}
Odd == {Of(2, "*") \o Of(1, "*") \o Of(1, "x"), Of(0, "*") \o Of(1, ">") \o Of(1, "x"),
        Of(2, "*") \o Of(0, "x")}
Quotes == {Of(0, ">") \o Of(1, "x"), Of(0, ">")}
Headers == {Of(0, "#") \o Of(1, "x"), Of(0, "="), Of(0, "*") \o Of(1, "*") \o Of(1, "*")}
HtmlLines == {Of(0, "<p>"), Of(0, "<ins>"), Of(0, "<p"), Of(0, "p>"), Of(0, "<!--"), Of(0, "-->")}
Refs == {Of(0, "[r]:"), Of(0, "(t)")}

\* What makes blocks, and what makes HTML and references among some of it.
BlockLines == Plain \cup ItemLines \cup Odd \cup Quotes \cup Headers
MarkupLines == HtmlLines \cup Refs \cup {<< >>, Item, Of(0, "x"), Of(0, ">") \o Of(1, "x")}

\* Lines that end with spaces, or are only spaces, and bullets of emphasis.
Spaced == {Of(8, ""), Of(0, ">") \o Of(9, ""), Of(2, "*") \o Of(1, "*em*"),
           Of(0, "*") \o Of(2, "*em*"), Of(2, "*") \o Of(1, ""), Of(0, "*") \o Of(2, ""),
           Of(0, "1.") \o Of(1, ""), Of(0, "<p") \o Of(1, "")}

\* Longer documents of the lines that matter for what follows a blank line.
Few == {<< >>, Item, Of(8, "x")}
More == Few \cup {Of(0, "x"), Subitem, Of(0, ">") \o Of(1, "x"), Of(0, "<p>")}

\* A tag on two lines, behind a quote, and a list in a quote.
Merged == {<< >>, Of(0, ">") \o Of(1, "x"), Of(0, "<p"), Of(0, "p>")}
Inner == {<< >>, Of(0, ">") \o Of(1, "*") \o Of(1, "x"), Of(0, ">"), Of(0, ">") \o Of(9, "")}

MCDocuments ==
    BoundedSeq(BlockLines, 3) \cup BoundedSeq(MarkupLines, 3)
        \cup BoundedSeq(BlockLines \cup MarkupLines \cup Spaced, 2)
        \cup BoundedSeq(Spaced \cup {<< >>, Item, Of(0, "x"), Of(0, "p>")}, 3)
        \cup BoundedSeq(More, 4) \cup BoundedSeq(Few \cup {Of(8, "")}, 5) \cup BoundedSeq(Few, 6)
        \cup BoundedSeq(Merged, 4) \cup BoundedSeq(Inner, 5)
=============================================================================
