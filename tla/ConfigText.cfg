\* Every file of up to six characters of every kind of token, parsed, written
\* and parsed again.
SPECIFICATION RoundTripSpec
CONSTANTS
    Chars = {"x", ";", "{", "}", "#", "dquote", "space", "nl"}
    MaxLen = 6
INVARIANTS ConfigIsTree AcceptsTheGrammar NothingLeftOut WritesWhatItRead
