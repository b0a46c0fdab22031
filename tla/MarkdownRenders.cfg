\* Documents of up to three lines of 15 and of 12 others, of up to two of 31, of
\* up to three of 12, of up to four of 7 and of 4, of up to five of 4 and of 4,
\* and of up to six of 3; and every text of up to four markers.
SPECIFICATION RenderSpec
CONSTANTS
    Documents <- MCDocuments
    Characters = {"*", "_"}
    MaxMarkers = 4
    MaxTokens = 16
INVARIANTS BlocksTypeOK LinesInOrder KeepsBehindBlanks RendersOrdinary
INVARIANTS TopIsThere WritesNestedTags KeepsTheText AllMatched
PROPERTIES ProcessingEnds PairingEnds
CHECK_DEADLOCK FALSE
