--------------------------- MODULE ConfigRoundTrip --------------------------
(***************************************************************************)
(* What config_parser_main.cc is for: a config is parsed, written with     *)
(* NginxConfig::ToString, and what was written is parsed again.            *)
(***************************************************************************)
EXTENDS ConfigParser, SequencesExt

VARIABLE
    first   \* the statements of the first file, once it has been written

roundTripVars == <<parserVars, first>>

NotYet == << <<>> >>

Indent(d) == [i \in 1 .. 2 * (d - 1) |-> "space"]

Joined(tokens) == FlattenSeq(<<Head(tokens)>> \o
                      [i \in 1 .. Len(tokens) - 1 |-> <<"space">> \o tokens[i + 1]])

\* Wrong: one "}" less.
ClosingOne(inner, outer) ==
    IF inner > outer THEN Indent(outer) \o <<"}", "nl">> ELSE << >>

\* The "}" of the blocks between two depths, innermost first.
Closing(inner, outer) ==
    FlattenSeq([i \in 1 .. inner - outer |-> Indent(inner - i) \o <<"}", "nl">>])

StatementText(sts, i) ==
    LET s == sts[i]
        next == IF i = Len(sts) THEN 1 ELSE sts[i + 1].depth
    IN Indent(s.depth) \o Joined(s.tokens)
         \o IF s.block
            THEN <<"space", "{", "nl">> \o Closing(s.depth + 1, next)
            ELSE <<";", "nl">> \o Closing(s.depth, next)

ToText(sts) == FlattenSeq([i \in 1 .. Len(sts) |-> StatementText(sts, i)])

RoundTripInit == ParserInit /\ first = NotYet

Again ==
    /\ result = "true" /\ first = NotYet
    /\ first' = statements
    /\ file' = ToText(statements)
    /\ pos' = 0
    /\ NextToken
    /\ last_token_type' = "START"
    /\ statements' = << >>
    /\ depth' = 1
    /\ num_open_blocks' = 0
    /\ result' = "none"
    /\ types' = << >>

Finished ==
    /\ result # "none"
    /\ result = "true" => first # NotYet
    /\ UNCHANGED roundTripVars

RoundTripSpec ==
    RoundTripInit /\ [][\/ (ParseToken \/ ParseStep) /\ UNCHANGED first
                        \/ Again \/ Finished]_roundTripVars
-----------------------------------------------------------------------------
\* config_parser_main.cc:14 prints what was parsed: the text of an accepted
\* config, whatever quotes, comments and braces it had, is a config again, and
\* the same one.
WritesWhatItRead ==
    first # NotYet /\ result # "none" => result = "true" /\ statements = first
=============================================================================
