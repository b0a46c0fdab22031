---------------------------- MODULE ConfigParser ----------------------------
(***************************************************************************)
(* NginxConfigParser (config_parser.cc): ParseToken, which cuts a config   *)
(* file into tokens character by character, and Parse, which builds the    *)
(* NginxConfig from them with a stack of the blocks that are open.         *)
(*                                                                         *)
(* The tree of an NginxConfig is kept as the list of its statements in the *)
(* order they are written, each with the depth of its block: the top of    *)
(* config_stack is always the block the last statement is in or has just   *)
(* opened, so the stack itself is its size.                                *)
(***************************************************************************)
EXTENDS Integers, Sequences, FiniteSets

CONSTANTS
    Chars,      \* the characters of config files
    MaxLen      \* bound: how long a file is

\* Every character that ParseToken gives no meaning to is like "x".
Special == {"{", "}", "#", "dquote", "quote", ";", "space", "tab", "nl", "cr"}

ASSUME LengthAssumption == MaxLen \in Nat

VARIABLES
    file,               \* the input stream ...
    pos,                \* ... and how much of it has been read
    state,              \* ParseToken's state
    value,              \* the text of the token so far
    token_type,         \* the token ParseToken returned, to be taken by Parse
    last_token_type,    \* the token before it, comments apart
    statements,         \* the statements of the config so far
    depth,              \* config_stack.size()
    num_open_blocks,
    result,             \* what Parse returned, if it did
    types               \* history: the tokens that Parse has taken

lexVars == <<pos, state, value, token_type>>
parseVars == <<last_token_type, statements, depth, num_open_blocks, result, types>>
parserVars == <<file, lexVars, parseVars>>

States == {"INITIAL_WHITESPACE", "SINGLE_QUOTE", "DOUBLE_QUOTE", "COMMENT", "NORMAL"}

TokenTypes == {"NORMAL", "START_BLOCK", "END_BLOCK", "COMMENT", "STATEMENT_END",
               "EOF", "ERROR"}

ParserInit ==
    /\ file \in UNION {[1 .. n -> Chars] : n \in 0 .. MaxLen}
    /\ pos = 0
    /\ state = "INITIAL_WHITESPACE"
    /\ value = << >>
    /\ token_type = "none"
    /\ last_token_type = "START"
    /\ statements = << >>
    /\ depth = 1
    /\ num_open_blocks = 0
    /\ result = "none"
    /\ types = << >>
-----------------------------------------------------------------------------
(* ParseToken *)

Lexing == token_type = "none" /\ result = "none"

\* Another character c is read in state s.
Reads(s, c) ==
    /\ Lexing
    /\ state = s
    /\ pos < Len(file)
    /\ c = file[pos + 1]
    /\ pos' = pos + 1
    /\ UNCHANGED <<file, parseVars>>

Enter(s, v) == state' = s /\ value' = v /\ UNCHANGED token_type
Return(type, v) == token_type' = type /\ value' = v /\ UNCHANGED state

SkipWhitespace(c) ==
    /\ Reads("INITIAL_WHITESPACE", c)
    /\ c \in {"space", "tab", "nl", "cr"}
    /\ UNCHANGED <<state, value, token_type>>

Punctuation(c) ==
    /\ Reads("INITIAL_WHITESPACE", c)
    /\ \/ c = "{" /\ Return("START_BLOCK", <<c>>)
       \/ c = "}" /\ Return("END_BLOCK", <<c>>)
       \/ c = ";" /\ Return("STATEMENT_END", <<c>>)

StartToken(c) ==
    /\ Reads("INITIAL_WHITESPACE", c)
    /\ \/ c = "#" /\ Enter("COMMENT", <<c>>)
       \/ c = "dquote" /\ Enter("DOUBLE_QUOTE", <<c>>)
       \/ c = "quote" /\ Enter("SINGLE_QUOTE", <<c>>)
       \/ c \notin Special /\ Enter("NORMAL", <<c>>)

QuoteOf(s) == IF s = "SINGLE_QUOTE" THEN "quote" ELSE "dquote"

InQuotes(c) ==
    /\ \E s \in {"SINGLE_QUOTE", "DOUBLE_QUOTE"} :
         /\ Reads(s, c)
         /\ IF c = QuoteOf(s) THEN Return("NORMAL", Append(value, c))
                              ELSE Enter(s, Append(value, c))

InComment(c) ==
    /\ Reads("COMMENT", c)
    /\ IF c \in {"nl", "cr"} THEN Return("COMMENT", value)
                             ELSE Enter("COMMENT", Append(value, c))

\* "\r" does not end a word.
EndsWord == {"space", "tab", "nl", ";", "{", "}"}

InWord(c) ==
    /\ Reads("NORMAL", c)
    /\ c \notin EndsWord
    /\ Enter("NORMAL", Append(value, c))

\* Wrong: the character is not put back.
EndWordLoses ==
    /\ Lexing
    /\ state = "NORMAL"
    /\ pos < Len(file)
    /\ file[pos + 1] \in EndsWord
    /\ Return("NORMAL", value)
    /\ pos' = pos + 1
    /\ UNCHANGED <<file, parseVars>>

\* The character that ends the word is read, and put back with unget.
EndWord ==
    /\ Lexing
    /\ state = "NORMAL"
    /\ pos < Len(file)
    /\ file[pos + 1] \in EndsWord
    /\ Return("NORMAL", value)
    /\ UNCHANGED <<file, pos, parseVars>>

\* At the end of the file a quote is an error; a word or comment that was
\* begun is not looked at.
EndOfFile ==
    /\ Lexing
    /\ pos = Len(file)
    /\ Return(IF state \in {"SINGLE_QUOTE", "DOUBLE_QUOTE"} THEN "ERROR" ELSE "EOF", value)
    /\ UNCHANGED <<file, pos, parseVars>>
-----------------------------------------------------------------------------
(* Parse *)

\* The next call of ParseToken begins with an empty token.
NextToken == state' = "INITIAL_WHITESPACE" /\ value' = << >> /\ token_type' = "none"

Takes(type) ==
    /\ result = "none"
    /\ token_type = type
    /\ NextToken
    /\ types' = IF type = "COMMENT" THEN types ELSE Append(types, type)
    /\ UNCHANGED <<file, pos>>

Accept(type) == last_token_type' = type /\ UNCHANGED result

Stop(r) ==
    /\ result' = r
    /\ UNCHANGED <<last_token_type, statements, depth, num_open_blocks>>

\* statements_.back(): the statement that tokens and blocks belong to.
Back == statements[Len(statements)]
ChangeBack(s) == statements' = [statements EXCEPT ![Len(statements)] = s]

Statement(d, tokens) == [depth |-> d, tokens |-> tokens, block |-> FALSE]

SkipComment ==
    /\ Takes("COMMENT")
    /\ UNCHANGED <<last_token_type, statements, depth, num_open_blocks, result>>

\* A word begins a statement in the block on top of the stack.
NewStatement ==
    /\ Takes("NORMAL")
    /\ last_token_type # "NORMAL"
    /\ depth > 0
    /\ statements' = Append(statements, Statement(depth, <<value>>))
    /\ Accept("NORMAL")
    /\ UNCHANGED <<depth, num_open_blocks>>

AddToken ==
    /\ Takes("NORMAL")
    /\ last_token_type = "NORMAL"
    /\ ChangeBack([Back EXCEPT !.tokens = Append(@, value)])
    /\ Accept("NORMAL")
    /\ UNCHANGED <<depth, num_open_blocks>>

\* After one "}" too many, config_stack is empty and has no top.
NoTop ==
    /\ Takes("NORMAL")
    /\ last_token_type # "NORMAL"
    /\ depth = 0
    /\ Stop("undefined")

EndStatement ==
    /\ Takes("STATEMENT_END")
    /\ last_token_type = "NORMAL"
    /\ Accept("STATEMENT_END")
    /\ UNCHANGED <<statements, depth, num_open_blocks>>

\* Wrong: the open block is not counted.
StartBlockUncounted ==
    /\ Takes("START_BLOCK")
    /\ last_token_type = "NORMAL"
    /\ ChangeBack([Back EXCEPT !.block = TRUE])
    /\ depth' = depth + 1
    /\ Accept("START_BLOCK")
    /\ UNCHANGED num_open_blocks

StartBlock ==
    /\ Takes("START_BLOCK")
    /\ last_token_type = "NORMAL"
    /\ ChangeBack([Back EXCEPT !.block = TRUE])
    /\ depth' = depth + 1
    /\ num_open_blocks' = num_open_blocks + 1
    /\ Accept("START_BLOCK")

EndsBlock == last_token_type \in {"STATEMENT_END", "END_BLOCK", "START_BLOCK"}

EndBlock ==
    /\ Takes("END_BLOCK")
    /\ EndsBlock
    /\ depth > 0
    /\ depth' = depth - 1
    /\ num_open_blocks' = num_open_blocks - 1
    /\ Accept("END_BLOCK")
    /\ UNCHANGED statements

\* pop() of an empty stack is undefined as well.
NoBlock ==
    /\ Takes("END_BLOCK")
    /\ EndsBlock
    /\ depth = 0
    /\ Stop("undefined")

\* Wrong: blocks may be left open.
MayEndOpen == last_token_type \in {"STATEMENT_END", "END_BLOCK", "START"}

\* Wrong: a word needs no ";".
MayEndAfterWord == num_open_blocks = 0 /\ last_token_type # "START_BLOCK"

MayEnd == /\ num_open_blocks = 0
          /\ last_token_type \in {"STATEMENT_END", "END_BLOCK", "START"}

ParseTrue ==
    /\ Takes("EOF")
    /\ MayEnd
    /\ Stop("true")

Rejects(type) ==
    \/ type = "ERROR"
    \/ type \in {"STATEMENT_END", "START_BLOCK"} /\ last_token_type # "NORMAL"
    \/ type = "END_BLOCK" /\ ~EndsBlock
    \/ type = "EOF" /\ ~MayEnd

ParseFalse ==
    /\ \E type \in TokenTypes : Takes(type) /\ Rejects(type)
    /\ Stop("false")

ParseToken ==
    \/ \E c \in Chars :
         \/ SkipWhitespace(c) \/ Punctuation(c) \/ StartToken(c)
         \/ InQuotes(c) \/ InComment(c) \/ InWord(c)
    \/ EndWord \/ EndOfFile

ParseStep ==
    \/ SkipComment \/ NewStatement \/ AddToken \/ NoTop \/ EndStatement
    \/ StartBlock \/ EndBlock \/ NoBlock \/ ParseTrue \/ ParseFalse

Parsed == result # "none" /\ UNCHANGED parserVars

ParserSpec == ParserInit /\ [][ParseToken \/ ParseStep \/ Parsed]_parserVars
-----------------------------------------------------------------------------
ParserTypeOK ==
    /\ file \in Seq(Chars)
    /\ pos \in 0 .. Len(file)
    /\ state \in States
    /\ value \in Seq(Chars)
    /\ token_type \in TokenTypes \cup {"none"}
    /\ last_token_type \in {"START", "NORMAL", "STATEMENT_END", "START_BLOCK", "END_BLOCK"}
    /\ statements \in Seq([depth : Nat \ {0}, tokens : Seq(Seq(Chars)), block : BOOLEAN])
    /\ depth \in Nat
    /\ num_open_blocks \in Int
    /\ result \in {"none", "true", "false", "undefined"}
    /\ types \in Seq(TokenTypes)

\* What Parse builds is a tree the server may walk without looking (server.cc
\* reads tokens_[0] of every statement and goes down where there is a
\* child_block_): every statement has a token, a deeper statement comes only
\* under one that has a block, and the stack and the count of open blocks that
\* Parse keeps apart agree, however many "}" a file has too many.
ConfigIsTree ==
    /\ \A i \in 1 .. Len(statements) :
         /\ Len(statements[i].tokens) > 0
         /\ i = 1 => statements[i].depth = 1
         /\ i > 1 /\ statements[i].depth > statements[i - 1].depth =>
              /\ statements[i - 1].block
              /\ statements[i].depth = statements[i - 1].depth + 1
    /\ depth = num_open_blocks + 1

\* The reference: a config is statements; a statement is words and then ";"
\* or a config in braces.
OpenAfter(ts, n) == Cardinality({i \in 1 .. n : ts[i] = "START_BLOCK"})
                    - Cardinality({i \in 1 .. n : ts[i] = "END_BLOCK"})

WellFormed(ts) ==
    \A i \in 1 .. Len(ts) :
        LET afterWord == i > 1 /\ ts[i - 1] = "NORMAL"
        IN /\ ts[i] # "ERROR"
           /\ ts[i] \in {"STATEMENT_END", "START_BLOCK"} => afterWord
           /\ ts[i] \in {"END_BLOCK", "EOF"} => ~afterWord
           /\ OpenAfter(ts, i) >= 0
           /\ ts[i] = "EOF" => OpenAfter(ts, i) = 0

\* config_parser.h:36 "Returns true iff the input config file is valid": Parse
\* looks at two neighbouring tokens and a count, and accepts exactly the token
\* sequences of the grammar; the one exception, a surplus "}", never ends in
\* an acceptance.
AcceptsTheGrammar ==
    /\ ParserTypeOK
    /\ result = "true" => WellFormed(types)
    /\ result \in {"false", "undefined"} => ~WellFormed(types)

\* Of a file without comments and quotes, all that is not white space stands
\* before a ";" or "}", which ends the statement it belongs to.
Unquoted == \A i \in 1 .. Len(file) : file[i] \notin {"#", "quote", "dquote"}

AllInStatements ==
    \A i \in 1 .. Len(file) :
        file[i] \in {"space", "tab", "nl", "cr"}
            \/ \E j \in i .. Len(file) : file[j] \in {";", "}"}

\* A file whose last character ends a word if there is one, as the newline at
\* the end of a text does, is accepted only if nothing that is written in it
\* is left out of its statements, through all the states of ParseToken and the
\* character it puts back.  (A word that the file itself cuts off is lost, though
\* config_parser.h:36 says that Parse accepts valid files only.)
NothingLeftOut ==
    result = "true" /\ Unquoted /\ file # << >> /\ file[Len(file)] \in EndsWord
        => AllInStatements
=============================================================================
