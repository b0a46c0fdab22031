----------------------------- MODULE MCMarkdown -----------------------------
(* A document is divided into blocks, or the emphasis of a text is paired,   *)
(* for TLC.  They share nothing, so that each is looked at with the other    *)
(* over, as it is for a document or a text of nothing.                       *)
EXTENDS MCMarkdownBlocks, Emphasis

BlocksOver ==
    /\ document = << >> /\ pass = "blocks" /\ stack = <<Items(BlankLine, << >>)>>
    /\ references = {} /\ outcome = "done" /\ tokens = << >>

SpansOver ==
    /\ text = << >> /\ markers = << >> /\ tgt = << >> /\ ii = 1 /\ iii = 1 /\ id = 0
    /\ openMatches = << >> /\ phase = "done"

RenderInit == (BlocksInit /\ SpansOver) \/ (BlocksOver /\ EmphasisInit)

Blocks == BlocksNext /\ UNCHANGED emphasisVars
Spans == EmphasisNext /\ UNCHANGED blockVars

RenderVars == <<blockVars, emphasisVars>>

RenderSpec ==
    /\ RenderInit
    /\ [][Blocks \/ Spans]_RenderVars
    /\ WF_blockVars(BlocksNext) /\ WF_emphasisVars(EmphasisNext)
=============================================================================
