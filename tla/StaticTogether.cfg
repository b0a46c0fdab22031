\* Two threads serve and render files while these change.
SPECIFICATION StaticSpec
CONSTANTS
    t1 = t1
    t2 = t2
    Threads <- MCThreads
    Tags = {"em", "ins", "hr"}
    otherTagInit <- MCOther
    blockTagInit <- MCBlock
    Names = {"a.md", "b.png"}
    Markdown = {"a.md"}
    Elsewhere <- MCElsewhere
    RootSlash = FALSE
    MaxCalls = 3
    MaxChanges = 1
SYMMETRY Symmetry
INVARIANTS RightOnceFilled AsItWas ThrowsOnlyInVain
CHECK_DEADLOCK FALSE
