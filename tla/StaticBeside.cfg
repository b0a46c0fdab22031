\* A uri without a slash behind the prefix, as the prefix "/" leaves it.
SPECIFICATION StaticSpec
CONSTANTS
    t1 = t1
    t2 = t2
    Threads <- MCThreads
    Tags = {"em", "ins", "hr"}
    otherTagInit <- MCOther
    blockTagInit <- MCBlock
    Names = {"a.md", "b.png"}
    Markdown = {"a.md"}
    Elsewhere <- MCElsewhere
    RootSlash = FALSE
    MaxCalls = 1
    MaxChanges = 0
SYMMETRY Symmetry
INVARIANT ServesFromTheRoot
CHECK_DEADLOCK FALSE
