------------------------- MODULE ConfigParserProofs -------------------------
(***************************************************************************)
(* Proofs about ConfigParser, for files of any length over any characters. *)
(***************************************************************************)
EXTENDS ConfigParser, FiniteSetTheorems, TLAPS

(***************************************************************************)
(* ConfigIsTree.  Parse reaches for the last statement after a word, and   *)
(* for the block on top of the stack when a word begins a statement; that  *)
(* both are the right ones depends on the last token: a word is in the     *)
(* last statement, which is in the block on top and has no block yet, and  *)
(* the stack is never deeper than the last statement allows.               *)
(***************************************************************************)
StatementType == [depth : Nat \ {0}, tokens : Seq(Seq(Chars)), block : BOOLEAN]

TreeTypes ==
    /\ file \in Seq(Chars)
    /\ pos \in 0 .. Len(file)
    /\ value \in Seq(Chars)
    /\ statements \in Seq(StatementType)
    /\ depth \in Nat
    /\ num_open_blocks \in Int

Nested(s) ==
    \A i \in 1 .. Len(s) :
         /\ Len(s[i].tokens) > 0
         /\ i = 1 => s[i].depth = 1
         /\ i > 1 /\ s[i].depth > s[i - 1].depth =>
              /\ s[i - 1].block
              /\ s[i].depth = s[i - 1].depth + 1

\* How deep the next statement may be.
DepthFits ==
    /\ statements = << >> => depth =< 1
    /\ statements # << >> => depth =< Back.depth + IF Back.block THEN 1 ELSE 0

WordIsInLast ==
    last_token_type = "NORMAL" =>
        /\ statements # << >>
        /\ depth = Back.depth
        /\ ~Back.block

TreeInv == /\ TreeTypes
           /\ Nested(statements)
           /\ depth = num_open_blocks + 1
           /\ DepthFits
           /\ WordIsInLast

treeVars == <<file, pos, value, statements, depth, num_open_blocks, last_token_type>>

LEMMA NestedAppend ==
    ASSUME NEW s \in Seq(StatementType), Nested(s),
           NEW x \in StatementType, Len(x.tokens) > 0,
           s = << >> => x.depth = 1,
           s # << >> => x.depth =< s[Len(s)].depth + IF s[Len(s)].block THEN 1 ELSE 0
    PROVE  /\ Append(s, x) \in Seq(StatementType)
           /\ Append(s, x) # << >>
           /\ Append(s, x)[Len(Append(s, x))] = x
           /\ Nested(Append(s, x))
<1> DEFINE r == Append(s, x)
<1>1. /\ r \in Seq(StatementType)
      /\ Len(r) = Len(s) + 1
      /\ r[Len(s) + 1] = x
      /\ \A i \in 1 .. Len(s) : r[i] = s[i]
  OBVIOUS
<1>2. r # << >>
  <2>1. Len(s) \in Nat
    OBVIOUS
  <2> HIDE DEF r
  <2>2. Len(r) # 0
    BY <1>1, <2>1
  <2> QED
    BY <2>2
<1>3. ASSUME NEW i \in 1 .. Len(r)
      PROVE  /\ Len(r[i].tokens) > 0
             /\ i = 1 => r[i].depth = 1
             /\ i > 1 /\ r[i].depth > r[i - 1].depth =>
                  r[i - 1].block /\ r[i].depth = r[i - 1].depth + 1
  <2>1. CASE i \in 1 .. Len(s)
    <3>1. r[i] = s[i] /\ (i > 1 => r[i - 1] = s[i - 1])
      BY <1>1, <2>1
    <3> QED
      BY <3>1, <2>1 DEF Nested
  <2>2. CASE i = Len(s) + 1
    <3>1. r[i] = x /\ (i > 1 => r[i - 1] = s[Len(s)] /\ s # << >>)
      BY <1>1, <2>2
    <3>2. i = 1 => s = << >>
      BY <2>2
    <3>3. i > 1 => s[Len(s)] \in StatementType
      BY <2>2
    <3>4. ASSUME i > 1
          PROVE  r[i].depth > r[i - 1].depth =>
                   r[i - 1].block /\ r[i].depth = r[i - 1].depth + 1
      <4> DEFINE last == s[Len(s)]
      <4>1. r[i] = x /\ r[i - 1] = last /\ last \in StatementType
            /\ x.depth =< last.depth + IF last.block THEN 1 ELSE 0
        BY <3>1, <3>3, <3>4
      <4> HIDE DEF r, last
      <4>2. last.depth \in Nat /\ last.block \in BOOLEAN /\ x.depth \in Nat
        BY <4>1 DEF StatementType
      <4> QED
        BY <4>1, <4>2, SMTT(30)
    <3> QED
      BY <3>1, <3>2, <3>4
  <2> QED
    BY <1>1, <1>3, <2>1, <2>2
<1> QED
  BY <1>1, <1>2, <1>3 DEF Nested

LEMMA NestedChange ==
    ASSUME NEW s \in Seq(StatementType), Nested(s), s # << >>,
           NEW x \in StatementType, Len(x.tokens) > 0, x.depth = s[Len(s)].depth
    PROVE  LET r == [s EXCEPT ![Len(s)] = x]
           IN /\ r \in Seq(StatementType)
              /\ r # << >>
              /\ Len(r) = Len(s)
              /\ r[Len(s)] = x
              /\ Nested(r)
<1> DEFINE n == Len(s)
           r == [s EXCEPT ![n] = x]
<1>1. /\ n \in Nat \ {0}
      /\ r \in Seq(StatementType)
      /\ Len(r) = n
      /\ r[n] = x
      /\ r # << >>
      /\ \A i \in 1 .. n - 1 : r[i] = s[i]
  OBVIOUS
<1>2. ASSUME NEW i \in 1 .. n
      PROVE  /\ Len(r[i].tokens) > 0
             /\ i = 1 => r[i].depth = 1
             /\ i > 1 /\ r[i].depth > r[i - 1].depth =>
                  r[i - 1].block /\ r[i].depth = r[i - 1].depth + 1
  <2>1. r[i].depth = s[i].depth /\ Len(r[i].tokens) > 0
    <3>1. CASE i = n
      BY <1>1, <3>1, SMTT(30)
    <3>2. CASE i \in 1 .. n - 1
      BY <1>1, <3>2 DEF Nested
    <3> QED
      BY <1>1, <3>1, <3>2
  <2>2. i > 1 => r[i - 1] = s[i - 1]
    BY <1>1
  <2> QED
    BY <2>1, <2>2 DEF Nested
<1> QED
  BY <1>1, <1>2 DEF Nested

LEMMA TreeInit == ParserInit => TreeInv
<1> SUFFICES ASSUME ParserInit PROVE TreeInv
  OBVIOUS
<1>1. file \in Seq(Chars)
  BY LengthAssumption DEF ParserInit
<1> QED
  BY <1>1 DEF ParserInit, TreeInv, TreeTypes, Nested, DepthFits, WordIsInLast

\* ParseToken reads characters and changes nothing that Parse has.
LEMMA LexStep ==
    ASSUME TreeTypes, ParseToken
    PROVE  /\ UNCHANGED <<file, parseVars>>
           /\ pos' \in 0 .. Len(file)
           /\ value' \in Seq(Chars)
<1> DEFINE Moves == /\ UNCHANGED <<file, parseVars>>
                    /\ pos' \in 0 .. Len(file)
           Texts(c) == {value, <<c>>, Append(value, c)}
<1>1. ASSUME NEW s, NEW c, Reads(s, c) PROVE Moves
  BY <1>1 DEF Reads, TreeTypes
<1>2. ASSUME NEW c \in Chars PROVE <<c>> \in Seq(Chars) /\ Append(value, c) \in Seq(Chars)
  BY <1>2 DEF TreeTypes
<1>3. CASE \E c \in Chars : SkipWhitespace(c) \/ Punctuation(c) \/ StartToken(c)
                              \/ InQuotes(c) \/ InComment(c) \/ InWord(c)
  <2>1. PICK c \in Chars : SkipWhitespace(c) \/ Punctuation(c) \/ StartToken(c)
                             \/ InQuotes(c) \/ InComment(c) \/ InWord(c)
    BY <1>3
  <2>2. \E s : Reads(s, c)
    BY <2>1 DEF SkipWhitespace, Punctuation, StartToken, InQuotes, InComment, InWord
  <2>3. value' \in Texts(c)
    BY <2>1, Zenon DEF SkipWhitespace, Punctuation, StartToken, InQuotes, InComment,
                       InWord, Enter, Return
  <2> QED
    BY <1>1, <1>2, <2>2, <2>3 DEF TreeTypes
<1>4. CASE EndWord \/ EndOfFile
  BY <1>4 DEF EndWord, EndOfFile, Return, TreeTypes
<1> QED
  BY <1>3, <1>4 DEF ParseToken

LEMMA LastOf ==
    ASSUME NEW s \in Seq(StatementType), Nested(s), s # << >>
    PROVE  s[Len(s)] \in StatementType /\ Len(s[Len(s)].tokens) > 0
<1>1. Len(s) \in 1 .. Len(s)
  OBVIOUS
<1> QED
  BY <1>1 DEF Nested

LEMMA MoreTokens ==
    ASSUME NEW r \in StatementType, NEW v \in Seq(Chars)
    PROVE  LET s == [r EXCEPT !.tokens = Append(@, v)]
           IN /\ s \in StatementType
              /\ Len(s.tokens) > 0
              /\ s.depth = r.depth
              /\ s.block = r.block
<1>1. /\ r.tokens \in Seq(Seq(Chars))
      /\ Append(r.tokens, v) \in Seq(Seq(Chars))
      /\ Len(Append(r.tokens, v)) > 0
  BY DEF StatementType
<1> QED
  BY <1>1 DEF StatementType

LEMMA TreeStep ==
    TreeInv /\ [ParseToken \/ ParseStep \/ Parsed]_parserVars => TreeInv'
<1> SUFFICES ASSUME TreeInv, [ParseToken \/ ParseStep \/ Parsed]_parserVars
             PROVE  TreeInv'
  OBVIOUS
<1> USE DEF TreeInv
<1> DEFINE Kept == UNCHANGED <<statements, depth, num_open_blocks, last_token_type>>
           Text == file' \in Seq(Chars) /\ pos' \in 0 .. Len(file') /\ value' \in Seq(Chars)
<1>1. ASSUME NEW type, Takes(type) PROVE Text
  BY <1>1 DEF Takes, NextToken, TreeTypes
<1>2. ASSUME Text, Kept PROVE TreeInv'
  BY <1>2 DEF TreeTypes, DepthFits, WordIsInLast, Back, Nested
<1>3. CASE ParseToken
  <2>1. Text /\ Kept
    BY <1>3, LexStep DEF TreeTypes, parseVars
  <2> QED
    BY <1>2, <2>1
<1>4. CASE UNCHANGED parserVars \/ Parsed
  <2>1. Text /\ Kept
    BY <1>4 DEF Parsed, TreeTypes, parserVars, lexVars, parseVars
  <2> QED
    BY <1>2, <2>1
<1>5. CASE SkipComment \/ NoTop \/ NoBlock \/ ParseTrue \/ ParseFalse
  <2>1. Text
    BY <1>1, <1>5 DEF SkipComment, NoTop, NoBlock, ParseTrue, ParseFalse
  <2>2. Kept
    BY <1>5 DEF SkipComment, NoTop, NoBlock, ParseTrue, ParseFalse, Stop
  <2> QED
    BY <1>2, <2>1, <2>2
<1>6. CASE NewStatement
  <2> DEFINE s == Statement(depth, <<value>>)
  <2>1. /\ Text
        /\ statements' = Append(statements, s)
        /\ depth > 0
        /\ UNCHANGED <<depth, num_open_blocks>>
    BY <1>1, <1>6 DEF NewStatement
  <2>2. s \in StatementType /\ Len(s.tokens) > 0
    BY <2>1 DEF Statement, StatementType, TreeTypes
  <2>3. s.depth = depth /\ s.block = FALSE
    BY DEF Statement
  <2> HIDE DEF s
  <2>4. s.depth > 0 /\ (statements = << >> => s.depth = 1)
    BY <2>1, <2>3 DEF TreeTypes, DepthFits
  <2>5. /\ statements' \in Seq(StatementType)
        /\ statements' # << >>
        /\ Back' = s
        /\ Nested(statements')
    BY <2>1, <2>2, <2>3, <2>4, NestedAppend DEF TreeTypes, DepthFits, Back
  <2> QED
    BY <2>1, <2>3, <2>5, SMTT(30) DEF TreeTypes, DepthFits, WordIsInLast, Nested
<1>7. CASE AddToken
  <2> DEFINE s == [Back EXCEPT !.tokens = Append(@, value)]
  <2>1. /\ Text
        /\ statements' = [statements EXCEPT ![Len(statements)] = s]
        /\ statements # << >>
        /\ UNCHANGED <<depth, num_open_blocks, last_token_type>>
    BY <1>1, <1>7 DEF AddToken, ChangeBack, Accept, WordIsInLast
  <2>2. Back \in StatementType /\ Len(Back.tokens) > 0
    BY <2>1, LastOf DEF Back, TreeTypes
  <2>3. /\ s \in StatementType
        /\ Len(s.tokens) > 0
        /\ s.depth = Back.depth
        /\ s.block = Back.block
    BY <2>2, MoreTokens DEF TreeTypes
  <2> HIDE DEF s
  <2>4. /\ statements' \in Seq(StatementType)
        /\ Nested(statements')
        /\ statements' # << >>
        /\ Back' = s
    BY <2>1, <2>3, NestedChange DEF TreeTypes, Back
  <2> QED
    BY <2>1, <2>3, <2>4 DEF TreeTypes, DepthFits, WordIsInLast, Nested
<1>8. CASE StartBlock
  <2> DEFINE s == [Back EXCEPT !.block = TRUE]
  <2>1. /\ Text
        /\ statements' = [statements EXCEPT ![Len(statements)] = s]
        /\ statements # << >>
        /\ depth = Back.depth
        /\ depth' = depth + 1
        /\ num_open_blocks' = num_open_blocks + 1
        /\ last_token_type' = "START_BLOCK"
    BY <1>1, <1>8 DEF StartBlock, ChangeBack, Accept, WordIsInLast
  <2>2. Back \in StatementType /\ Len(Back.tokens) > 0
    BY <2>1, LastOf DEF Back, TreeTypes
  <2>3. /\ s \in StatementType
        /\ Len(s.tokens) > 0
        /\ s.depth = Back.depth
        /\ s.block
    BY <2>2 DEF StatementType
  <2> HIDE DEF s
  <2>4. /\ statements' \in Seq(StatementType)
        /\ Nested(statements')
        /\ statements' # << >>
        /\ Back' = s
    BY <2>1, <2>3, NestedChange DEF TreeTypes, Back
  <2> QED
    BY <2>1, <2>3, <2>4 DEF TreeTypes, DepthFits, WordIsInLast, Nested
<1>9. CASE EndStatement
  <2>1. /\ Text
        /\ UNCHANGED <<statements, depth, num_open_blocks>>
        /\ last_token_type' = "STATEMENT_END"
    BY <1>1, <1>9 DEF EndStatement, Accept
  <2> QED
    BY <2>1 DEF TreeTypes, DepthFits, WordIsInLast, Back, Nested
<1>10. CASE EndBlock
  <2>1. /\ Text
        /\ UNCHANGED statements
        /\ depth > 0
        /\ depth' = depth - 1
        /\ num_open_blocks' = num_open_blocks - 1
        /\ last_token_type' = "END_BLOCK"
    BY <1>1, <1>10 DEF EndBlock, Accept
  <2>2. statements # << >> => Back \in StatementType
    BY DEF Back, TreeTypes
  <2> QED
    BY <2>1, <2>2, SMTT(30) DEF TreeTypes, DepthFits, WordIsInLast, Back, Nested, StatementType
<1> QED
  BY <1>3, <1>4, <1>5, <1>6, <1>7, <1>8, <1>9, <1>10 DEF ParseStep
-----------------------------------------------------------------------------
(***************************************************************************)
(* AcceptsTheGrammar.  Parse keeps the last token and a count of the whole *)
(* sequence of tokens it has taken; as long as it goes on these are what   *)
(* the grammar needs to know of the sequence, and no token of it but the   *)
(* last, a surplus "}", can break a rule.                                  *)
(***************************************************************************)
Plain == {"NORMAL", "STATEMENT_END", "START_BLOCK", "END_BLOCK"}

\* The rule for one token, its blocks apart.
Follows(ts, i) ==
    LET afterWord == i > 1 /\ ts[i - 1] = "NORMAL"
    IN /\ ts[i] # "ERROR"
       /\ ts[i] \in {"STATEMENT_END", "START_BLOCK"} => afterWord
       /\ ts[i] \in {"END_BLOCK", "EOF"} => ~afterWord

LexTypes ==
    /\ state \in States
    /\ token_type \in TokenTypes \cup {"none"}
    /\ last_token_type \in {"START"} \cup Plain
    /\ result \in {"none", "true", "false", "undefined"}
    /\ types \in Seq(TokenTypes)

SoFar ==
    LET n == Len(types)
    IN /\ last_token_type = IF n = 0 THEN "START" ELSE types[n]
       /\ num_open_blocks = OpenAfter(types, n)
       /\ \A i \in 1 .. n :
            /\ types[i] \in Plain /\ Follows(types, i)
            /\ i < n => OpenAfter(types, i) >= 0
       /\ depth = 0 => last_token_type = "END_BLOCK"
       /\ last_token_type = "START_BLOCK" => num_open_blocks > 0

GrammarInv ==
    /\ LexTypes
    /\ result = "none" => SoFar
    /\ result = "true" => WellFormed(types)
    /\ result \in {"false", "undefined"} => ~WellFormed(types)

Change(x) == CASE x = "START_BLOCK" -> 1 [] x = "END_BLOCK" -> -1 [] OTHER -> 0

\* Where the first m tokens are x.
Where(s, m, x) == {i \in 1 .. m : s[i] = x}

\* How many of the first tokens are x; a token more is one more or none.
LEMMA CountAppend ==
    ASSUME NEW ts \in Seq(TokenTypes), NEW y \in TokenTypes, NEW x
    PROVE  LET r == Append(ts, y)
               k == Len(ts)
           IN /\ \A n \in 0 .. k : /\ Where(r, n, x) = Where(ts, n, x)
                                   /\ Cardinality(Where(ts, n, x)) \in Nat
              /\ Cardinality(Where(r, k + 1, x)) =
                   IF y = x THEN Cardinality(Where(ts, k, x)) + 1 ELSE Cardinality(Where(ts, k, x))
<1> DEFINE r == Append(ts, y)
           k == Len(ts)
<1>1. k \in Nat /\ r[k + 1] = y /\ \A i \in 1 .. k : r[i] = ts[i]
  OBVIOUS
<1> HIDE DEF r, k
<1>2. \A m \in 0 .. k : Where(r, m, x) = Where(ts, m, x)
  BY <1>1 DEF Where
<1>3. ASSUME NEW m \in Nat
      PROVE  IsFiniteSet(Where(ts, m, x)) /\ Cardinality(Where(ts, m, x)) \in Nat
  <2>1. IsFiniteSet(1 .. m) /\ Where(ts, m, x) \subseteq 1 .. m
    BY FS_Interval DEF Where
  <2> QED
    BY <2>1, FS_Subset, FS_CardinalityType
<1>4. Where(r, k + 1, x) = IF y = x THEN Where(ts, k, x) \cup {k + 1} ELSE Where(ts, k, x)
  BY <1>1 DEF Where
<1>5. k + 1 \notin Where(ts, k, x)
  BY <1>1 DEF Where
<1>6. Cardinality(Where(ts, k, x) \cup {k + 1}) = Cardinality(Where(ts, k, x)) + 1
  BY <1>1, <1>3, <1>5, FS_AddElement
<1>7. /\ \A n \in 0 .. k : /\ Where(r, n, x) = Where(ts, n, x)
                           /\ Cardinality(Where(ts, n, x)) \in Nat
      /\ Cardinality(Where(r, k + 1, x)) =
           IF y = x THEN Cardinality(Where(ts, k, x)) + 1 ELSE Cardinality(Where(ts, k, x))
  <2>1. \A n \in 0 .. k : n \in Nat
    BY <1>1
  <2>2. CASE y = x
    BY <1>2, <1>3, <1>4, <1>6, <2>1, <2>2
  <2>3. CASE y # x
    BY <1>2, <1>3, <1>4, <2>1, <2>3
  <2> QED
    BY <2>2, <2>3
<1> QED
  BY <1>7 DEF r, k

\* What a token more does to the count of open blocks.
LEMMA OpenAppend ==
    ASSUME NEW ts \in Seq(TokenTypes), NEW y \in TokenTypes
    PROVE  /\ \A i \in 0 .. Len(ts) :
                OpenAfter(ts, i) \in Int /\ OpenAfter(Append(ts, y), i) = OpenAfter(ts, i)
           /\ OpenAfter(Append(ts, y), Len(ts) + 1) = OpenAfter(ts, Len(ts)) + Change(y)
<1> DEFINE r == Append(ts, y)
           k == Len(ts)
<1>1. \A s, m : OpenAfter(s, m) = Cardinality(Where(s, m, "START_BLOCK"))
                                    - Cardinality(Where(s, m, "END_BLOCK"))
  BY DEF OpenAfter, Where
<1>2. ASSUME NEW x
      PROVE  /\ \A n \in 0 .. k : /\ Where(r, n, x) = Where(ts, n, x)
                                  /\ Cardinality(Where(ts, n, x)) \in Nat
             /\ Cardinality(Where(r, k + 1, x)) =
                  IF y = x THEN Cardinality(Where(ts, k, x)) + 1 ELSE Cardinality(Where(ts, k, x))
  BY CountAppend, SMTT(30)
<1>3. k \in 0 .. k
  OBVIOUS
<1> HIDE DEF k, r
<1>4. ASSUME NEW n \in 0 .. k
      PROVE  OpenAfter(ts, n) \in Int /\ OpenAfter(r, n) = OpenAfter(ts, n)
  <2> DEFINE a == Cardinality(Where(ts, n, "START_BLOCK"))
             b == Cardinality(Where(ts, n, "END_BLOCK"))
  <2>1. /\ a \in Nat /\ b \in Nat
        /\ a = Cardinality(Where(r, n, "START_BLOCK")) /\ b = Cardinality(Where(r, n, "END_BLOCK"))
    BY <1>2
  <2>2. OpenAfter(r, n) = Cardinality(Where(r, n, "START_BLOCK"))
                            - Cardinality(Where(r, n, "END_BLOCK"))
        /\ OpenAfter(ts, n) = a - b
    BY <1>1
  <2> HIDE DEF a, b
  <2> QED
    BY <2>1, <2>2
<1>5. OpenAfter(r, k + 1) = OpenAfter(ts, k) + Change(y)
  <2> DEFINE a == Cardinality(Where(ts, k, "START_BLOCK"))
             b == Cardinality(Where(ts, k, "END_BLOCK"))
             c == Cardinality(Where(r, k + 1, "START_BLOCK"))
             d == Cardinality(Where(r, k + 1, "END_BLOCK"))
  <2>1. /\ a \in Nat /\ b \in Nat
        /\ c = IF y = "START_BLOCK" THEN a + 1 ELSE a
        /\ d = IF y = "END_BLOCK" THEN b + 1 ELSE b
    BY <1>2, <1>3
  <2>2. OpenAfter(r, k + 1) = c - d /\ OpenAfter(ts, k) = a - b
    BY <1>1
  <2> HIDE DEF a, b, c, d
  <2> QED
    BY <2>1, <2>2 DEF Change
<1> QED
  BY <1>4, <1>5 DEF k, r

\* The rules for a sequence with a token more.
LEMMA RulesAppend ==
    ASSUME NEW ts \in Seq(TokenTypes), NEW y \in TokenTypes
    PROVE  LET r == Append(ts, y)
               n == Len(ts)
           IN /\ r \in Seq(TokenTypes) /\ Len(r) = n + 1 /\ n \in Nat /\ r[n + 1] = y
              /\ n > 0 => r[n] = ts[n]
              /\ \A i \in 1 .. n : r[i] = ts[i] /\ (Follows(r, i) <=> Follows(ts, i))
              /\ Follows(r, n + 1) <=>
                   LET afterWord == n > 0 /\ ts[n] = "NORMAL"
                   IN /\ y # "ERROR"
                      /\ y \in {"STATEMENT_END", "START_BLOCK"} => afterWord
                      /\ y \in {"END_BLOCK", "EOF"} => ~afterWord
<1> DEFINE r == Append(ts, y)
           n == Len(ts)
<1>1. /\ r \in Seq(TokenTypes) /\ Len(r) = n + 1 /\ n \in Nat /\ r[n + 1] = y
      /\ \A i \in 1 .. n : r[i] = ts[i]
  OBVIOUS
<1> HIDE DEF r, n
<1>2. ASSUME NEW i \in 1 .. n PROVE Follows(r, i) <=> Follows(ts, i)
  <2>1. r[i] = ts[i] /\ (i > 1 => r[i - 1] = ts[i - 1])
    BY <1>1
  <2> QED
    BY <2>1 DEF Follows
<1>3. n > 0 => r[n] = ts[n] /\ (n + 1) - 1 = n
  BY <1>1
<1>4. n + 1 > 1 <=> n > 0
  BY <1>1
<1> QED
  BY <1>1, <1>2, <1>3, <1>4 DEF Follows, r, n

\* WellFormed by its parts.
LEMMA WellFormedParts ==
    ASSUME NEW ts
    PROVE  WellFormed(ts) <=> \A i \in 1 .. Len(ts) :
              /\ Follows(ts, i)
              /\ OpenAfter(ts, i) >= 0
              /\ ts[i] = "EOF" => OpenAfter(ts, i) = 0
BY DEF WellFormed, Follows

LEMMA GrammarInit == ParserInit => GrammarInv
<1> SUFFICES ASSUME ParserInit PROVE GrammarInv
  OBVIOUS
<1>1. OpenAfter(<< >>, 0) = 0
  <2>1. \A x : {i \in 1 .. 0 : << >>[i] = x} = {}
    OBVIOUS
  <2> QED
    BY <2>1, FS_EmptySet DEF OpenAfter
<1> QED
  BY <1>1 DEF ParserInit, GrammarInv, LexTypes, SoFar, States, Plain

\* What a token must follow.
Rule(type) ==
    /\ type # "ERROR"
    /\ type \in {"STATEMENT_END", "START_BLOCK"} => last_token_type = "NORMAL"
    /\ type \in {"END_BLOCK", "EOF"} => last_token_type # "NORMAL"

\* What Parse keeps of the tokens so far is enough to tell if one more breaks
\* the grammar.
LEMMA OneMore ==
    ASSUME LexTypes, SoFar, depth \in Nat, num_open_blocks \in Int,
           depth = num_open_blocks + 1,
           NEW type \in TokenTypes, types' = Append(types, type)
    PROVE  /\ WellFormed(types') <=>
                /\ depth > 0 /\ Rule(type)
                /\ num_open_blocks + Change(type) >= 0
                /\ type = "EOF" => num_open_blocks = 0
           /\ (/\ depth > 0 /\ Rule(type) /\ type \in Plain /\ last_token_type' = type
               /\ num_open_blocks' = num_open_blocks + Change(type)
               /\ depth' = num_open_blocks' + 1
              ) => SoFar'
<1> DEFINE r == Append(types, type)
           n == Len(types)
<1>1. /\ r \in Seq(TokenTypes) /\ Len(r) = n + 1 /\ n \in Nat /\ r[n + 1] = type
      /\ n > 0 => r[n] = types[n]
      /\ \A i \in 1 .. n : r[i] = types[i] /\ (Follows(r, i) <=> Follows(types, i))
      /\ Follows(r, n + 1) <=>
           LET afterWord == n > 0 /\ types[n] = "NORMAL"
           IN /\ type # "ERROR"
              /\ type \in {"STATEMENT_END", "START_BLOCK"} => afterWord
              /\ type \in {"END_BLOCK", "EOF"} => ~afterWord
  BY RulesAppend DEF LexTypes
<1>2. /\ \A i \in 0 .. n : OpenAfter(types, i) \in Int /\ OpenAfter(r, i) = OpenAfter(types, i)
      /\ OpenAfter(r, n + 1) = OpenAfter(types, n) + Change(type)
  BY OpenAppend DEF LexTypes
<1>3. /\ last_token_type = IF n = 0 THEN "START" ELSE types[n]
      /\ num_open_blocks = OpenAfter(types, n)
      /\ \A i \in 1 .. n :
            /\ types[i] \in Plain /\ Follows(types, i)
            /\ i < n => OpenAfter(types, i) >= 0
      /\ depth = 0 => last_token_type = "END_BLOCK"
  BY DEF SoFar
<1> HIDE DEF n, r
<1>4. Follows(r, n + 1) <=> Rule(type)
  <2>1. (n > 0 /\ types[n] = "NORMAL") <=> last_token_type = "NORMAL"
    BY <1>1, <1>3
  <2> QED
    BY <1>1, <2>1 DEF Rule
<1>5. \A i \in 1 .. n : Follows(r, i) /\ r[i] \in Plain /\ (i < n => OpenAfter(r, i) >= 0)
  <2>1. \A i \in 1 .. n : i \in 0 .. n
    BY <1>1
  <2> QED
    BY <1>1, <1>2, <1>3, <2>1
<1>6. OpenAfter(r, n) = num_open_blocks /\ OpenAfter(r, n + 1) = num_open_blocks + Change(type)
  <2>1. n \in 0 .. n
    BY <1>1
  <2> QED
    BY <1>2, <1>3, <2>1
<1>7. n = 0 => depth > 0
  BY <1>3
<1>8. depth > 0 <=> OpenAfter(r, n) >= 0
  BY <1>6
<1>9. (\A i \in 1 .. n : OpenAfter(r, i) >= 0) <=> depth > 0
  <2>1. ASSUME depth > 0, NEW i \in 1 .. n PROVE OpenAfter(r, i) >= 0
    BY <1>1, <1>5, <1>8, <2>1
  <2>2. ASSUME \A i \in 1 .. n : OpenAfter(r, i) >= 0 PROVE depth > 0
    <3>1. n = 0 \/ n \in 1 .. n
      BY <1>1
    <3> QED
      BY <1>7, <1>8, <2>2, <3>1
  <2> QED
    BY <2>1, <2>2
<1>10. WellFormed(r) <=>
         /\ depth > 0 /\ Rule(type)
         /\ num_open_blocks + Change(type) >= 0
         /\ type = "EOF" => num_open_blocks = 0
  <2>1. \A i : i \in 1 .. n + 1 <=> i \in 1 .. n \/ i = n + 1
    BY <1>1
  <2>2. WellFormed(r) <=> \A i \in 1 .. n + 1 :
           /\ Follows(r, i)
           /\ OpenAfter(r, i) >= 0
           /\ r[i] = "EOF" => OpenAfter(r, i) = 0
    BY <1>1, WellFormedParts
  <2>3. \A i \in 1 .. n : r[i] # "EOF"
    BY <1>5 DEF Plain
  <2>4. WellFormed(r) <=>
           /\ \A i \in 1 .. n : OpenAfter(r, i) >= 0
           /\ Follows(r, n + 1)
           /\ OpenAfter(r, n + 1) >= 0
           /\ type = "EOF" => OpenAfter(r, n + 1) = 0
    BY <1>1, <1>5, <2>1, <2>2, <2>3
  <2>5. type = "EOF" => num_open_blocks + Change(type) = num_open_blocks
    BY DEF Change
  <2> QED
    BY <1>4, <1>6, <1>9, <2>4, <2>5
<1>11. ASSUME depth > 0, Rule(type), type \in Plain, last_token_type' = type,
              num_open_blocks' = num_open_blocks + Change(type),
              depth' = num_open_blocks' + 1, types' = r
       PROVE  SoFar'
  <2>1. Len(types') = n + 1 /\ n + 1 # 0 /\ types'[n + 1] = type
    BY <1>1, <1>11
  <2>2. ASSUME NEW i \in 1 .. n + 1
        PROVE  types'[i] \in Plain /\ Follows(types', i) /\ (i < n + 1 => OpenAfter(types', i) >= 0)
    <3>1. i \in 1 .. n \/ i = n + 1
      BY <1>1
    <3>2. ~(n + 1 < n + 1)
      BY <1>1
    <3> QED
      BY <1>1, <1>4, <1>5, <1>9, <1>11, <3>1, <3>2
  <2>3. num_open_blocks' = OpenAfter(types', n + 1)
    BY <1>6, <1>11
  <2>4. depth' = 0 => type = "END_BLOCK"
    BY <1>11 DEF Change
  <2>5. type = "START_BLOCK" => num_open_blocks' > 0
    BY <1>11 DEF Change
  <2> QED
    BY <1>11, <2>1, <2>2, <2>3, <2>4, <2>5 DEF SoFar
<1> QED
  BY <1>10, <1>11 DEF r

\* The types of what ParseToken changes.
LEMMA LexTypesStep ==
    ASSUME LexTypes, ParseToken
    PROVE  LexTypes'
<1>1. state' \in States /\ token_type' \in TokenTypes \cup {"none"}
  BY DEF LexTypes, ParseToken, SkipWhitespace, Punctuation, StartToken, InQuotes, InComment,
      InWord, EndWord, EndOfFile, Enter, Return, States, TokenTypes
<1>2. UNCHANGED parseVars
  BY DEF ParseToken, SkipWhitespace, Punctuation, StartToken, InQuotes, InComment,
      InWord, EndWord, EndOfFile, Reads
<1> QED
  BY <1>1, <1>2 DEF LexTypes, parseVars

LEMMA GrammarStep ==
    TreeInv /\ GrammarInv /\ [ParseToken \/ ParseStep \/ Parsed]_parserVars => GrammarInv'
<1> SUFFICES ASSUME TreeInv, GrammarInv, [ParseToken \/ ParseStep \/ Parsed]_parserVars
             PROVE  GrammarInv'
  OBVIOUS
<1>a. LexTypes /\ (result = "none" => SoFar)
  BY DEF GrammarInv
<1>b. depth \in Nat /\ num_open_blocks \in Int /\ depth = num_open_blocks + 1
  BY DEF TreeInv, TreeTypes
<1>1. ASSUME LexTypes', UNCHANGED parseVars PROVE GrammarInv'
  BY <1>1 DEF GrammarInv, SoFar, parseVars
<1>2. CASE ParseToken
  <2>1. UNCHANGED parseVars
    BY <1>2, LexStep DEF TreeInv
  <2> QED
    BY <1>a, <1>1, <1>2, <2>1, LexTypesStep
<1>3. CASE UNCHANGED parserVars \/ Parsed
  BY <1>a, <1>1, <1>3 DEF Parsed, parserVars, parseVars, lexVars, LexTypes
<1>4. CASE SkipComment
  BY <1>a, <1>1, <1>4 DEF SkipComment, Takes, NextToken, LexTypes, parseVars, States
<1>5. ASSUME NEW type \in TokenTypes \ {"COMMENT"}, Takes(type)
      PROVE  /\ SoFar /\ result = "none"
             /\ state' \in States /\ token_type' = "none" /\ types' \in Seq(TokenTypes)
             /\ WellFormed(types') <=>
                  /\ depth > 0 /\ Rule(type)
                  /\ num_open_blocks + Change(type) >= 0
                  /\ type = "EOF" => num_open_blocks = 0
             /\ (/\ depth > 0 /\ Rule(type) /\ type \in Plain /\ last_token_type' = type
                 /\ num_open_blocks' = num_open_blocks + Change(type)
                 /\ depth' = num_open_blocks' + 1
                ) => SoFar'
  <2>1. /\ SoFar /\ result = "none" /\ types' = Append(types, type)
        /\ state' \in States /\ token_type' = "none"
    BY <1>a, <1>5 DEF Takes, NextToken, States
  <2>2. types' \in Seq(TokenTypes)
    BY <1>a, <2>1 DEF LexTypes
  <2> QED
    BY <1>a, <1>b, <2>1, <2>2, OneMore
<1>6. ASSUME NEW type \in Plain, Takes(type), depth > 0, Rule(type), Accept(type),
             num_open_blocks' = num_open_blocks + Change(type),
             depth' = depth + Change(type)
      PROVE  GrammarInv'
  <2>1. type \in TokenTypes \ {"COMMENT"}
    BY DEF Plain, TokenTypes
  <2>2. depth' = num_open_blocks' + 1
    BY <1>b, <1>6 DEF Change
  <2>3. last_token_type' = type /\ result' = result
    BY <1>6 DEF Accept
  <2> QED
    BY <1>a, <1>5, <1>6, <2>1, <2>2, <2>3 DEF GrammarInv, LexTypes
<1>7. CASE NewStatement \/ AddToken
  <2>1. depth > 0
    BY <1>a, <1>b, <1>7 DEF NewStatement, AddToken, Takes, SoFar
  <2>2. Rule("NORMAL") /\ Change("NORMAL") = 0 /\ "NORMAL" \in Plain
    BY DEF Rule, Change, Plain
  <2> QED
    BY <1>b, <1>6, <1>7, <2>1, <2>2 DEF NewStatement, AddToken
<1>8. CASE EndStatement \/ StartBlock
  <2>1. depth > 0
    BY <1>a, <1>b, <1>8 DEF EndStatement, StartBlock, Takes, SoFar
  <2>2. /\ Rule("STATEMENT_END") /\ Change("STATEMENT_END") = 0 /\ "STATEMENT_END" \in Plain
        /\ Rule("START_BLOCK") /\ Change("START_BLOCK") = 1 /\ "START_BLOCK" \in Plain
    BY <1>8 DEF Rule, Change, Plain, EndStatement, StartBlock
  <2> QED
    BY <1>b, <1>6, <1>8, <2>1, <2>2 DEF EndStatement, StartBlock
<1>9. CASE EndBlock
  <2>1. Rule("END_BLOCK") /\ Change("END_BLOCK") = -1 /\ "END_BLOCK" \in Plain
    BY <1>9 DEF Rule, Change, Plain, EndBlock, EndsBlock
  <2> QED
    BY <1>b, <1>6, <1>9, <2>1 DEF EndBlock
<1>10. CASE NoTop \/ NoBlock
  <2>1. PICK type \in TokenTypes \ {"COMMENT"} : Takes(type) /\ depth = 0 /\ Stop("undefined")
    BY <1>10 DEF NoTop, NoBlock, TokenTypes
  <2>2. ~WellFormed(types')
    BY <1>5, <2>1
  <2> QED
    BY <1>a, <1>5, <2>1, <2>2 DEF GrammarInv, LexTypes, Stop
<1>11. CASE ParseTrue
  <2>1. Takes("EOF") /\ MayEnd /\ Stop("true") /\ "EOF" \in TokenTypes \ {"COMMENT"}
    BY <1>11 DEF ParseTrue, TokenTypes
  <2>2. Rule("EOF") /\ Change("EOF") = 0 /\ num_open_blocks = 0
    BY <2>1 DEF MayEnd, Rule, Change
  <2>3. WellFormed(types')
    BY <1>b, <1>5, <2>1, <2>2
  <2> QED
    BY <1>a, <1>5, <2>1, <2>3 DEF GrammarInv, LexTypes, Stop
<1>12. CASE ParseFalse
  <2>1. PICK type \in TokenTypes : Takes(type) /\ Rejects(type)
    BY <1>12 DEF ParseFalse
  <2>2. type # "COMMENT" /\ Stop("false")
    BY <1>12, <2>1 DEF Rejects, ParseFalse
  <2>3. SoFar
    BY <1>5, <2>1, <2>2
  <2>4. ASSUME depth > 0, Rule(type), num_open_blocks + Change(type) >= 0,
               type = "EOF" => num_open_blocks = 0
        PROVE  FALSE
    <3>1. CASE type = "END_BLOCK"
      <4>1. last_token_type = "START"
        BY <1>a, <2>1, <2>4, <3>1 DEF Rejects, EndsBlock, Rule, LexTypes, Plain
      <4>2. num_open_blocks = 0
        <5>1. Len(types) \in Nat /\ (Len(types) # 0 => Len(types) \in 1 .. Len(types))
          BY <1>a DEF LexTypes
        <5>2. Len(types) = 0
          BY <2>3, <4>1, <5>1 DEF SoFar, Plain
        <5>3. OpenAfter(types, 0) = 0
          <6>1. \A x : {i \in 1 .. 0 : types[i] = x} = {}
            OBVIOUS
          <6> QED
            BY <6>1, FS_EmptySet DEF OpenAfter
        <5> QED
          BY <2>3, <5>2, <5>3 DEF SoFar
      <4> QED
        BY <2>4, <3>1, <4>2 DEF Change
    <3>2. CASE type = "EOF"
      BY <1>a, <2>1, <2>3, <2>4, <3>2 DEF Rejects, MayEnd, Rule, LexTypes, Plain, SoFar
    <3> QED
      BY <2>1, <2>4, <3>1, <3>2 DEF Rejects, Rule
  <2>5. ~WellFormed(types')
    BY <1>5, <2>1, <2>2, <2>4
  <2> QED
    BY <1>a, <1>5, <2>1, <2>2, <2>5 DEF GrammarInv, LexTypes, Stop
<1> QED
  BY <1>2, <1>3, <1>4, <1>7, <1>8, <1>9, <1>10, <1>11, <1>12 DEF ParseStep

-----------------------------------------------------------------------------
(***************************************************************************)
(* NothingLeftOut.  Where the last token taken ends a statement or a       *)
(* block, everything read but the word that has been begun lies before a   *)
(* ";" or "}" or is white space.                                           *)
(***************************************************************************)
Blank == {"space", "tab", "nl", "cr"}
NoQuotes == \A i \in 1 .. Len(file) : file[i] \notin {"#", "quote", "dquote"}

Closers == {";", "}"}

Covered(n) == \A i \in 1 .. n : \/ file[i] \in Blank
                                \/ \E j \in i .. n : file[j] \in Closers

WordIn(s, n) == \A i \in s + 1 .. n : file[i] \notin EndsWord

Ends == {"STATEMENT_END", "END_BLOCK", "START"}

\* The word that has been begun begins after s characters.
BegunAfter(s) == Covered(s) /\ WordIn(s, pos) /\ (state = "INITIAL_WHITESPACE" => s = pos)

CutInv ==
    NoQuotes =>
        /\ result = "none" =>
             /\ state \in {"INITIAL_WHITESPACE", "NORMAL"}
             /\ token_type \in {"none", "EOF"} \cup Plain
             /\ token_type \in {"END_BLOCK", "STATEMENT_END"} => Covered(pos)
             /\ token_type \in {"none", "EOF"} /\ last_token_type \in Ends =>
                  \E s \in 0 .. pos : BegunAfter(s)
             /\ token_type = "EOF" => pos = Len(file)
        /\ result = "true" => \E s \in 0 .. Len(file) : Covered(s) /\ WordIn(s, Len(file))

LEMMA CutInit == ParserInit => CutInv
<1> SUFFICES ASSUME ParserInit PROVE CutInv
  OBVIOUS
<1>1. BegunAfter(0) /\ 0 \in 0 .. pos
  BY DEF ParserInit, BegunAfter, Covered, WordIn
<1> QED
  BY <1>1 DEF ParserInit, CutInv, Plain

\* A statement or block that ends covers all that was read.
LEMMA CoveredByEnd ==
    ASSUME NEW n \in Nat, file[n] \in Closers
    PROVE  Covered(n)
<1>1. ASSUME NEW i \in 1 .. n PROVE n \in i .. n
  OBVIOUS
<1> QED
  BY <1>1 DEF Covered

LEMMA CoveredMore ==
    ASSUME TreeTypes, NEW n \in 0 .. Len(file) - 1, Covered(n), file[n + 1] \in Blank
    PROVE  Covered(n + 1)
<1> SUFFICES ASSUME NEW i \in 1 .. n + 1
             PROVE  file[i] \in Blank \/ \E j \in i .. n + 1 : file[j] \in Closers
  BY DEF Covered
<1>1. Len(file) \in Nat /\ n \in Nat
  BY DEF TreeTypes
<1>2. CASE i = n + 1
  BY <1>2
<1>3. CASE i \in 1 .. n
  <2>1. \A j \in i .. n : j \in i .. n + 1
    BY <1>1
  <2> QED
    BY <1>3, <2>1 DEF Covered
<1>4. i = n + 1 \/ i \in 1 .. n
  BY <1>1
<1> QED
  BY <1>2, <1>3, <1>4

LEMMA CutStep ==
    TreeInv /\ LexTypes /\ CutInv /\ [ParseToken \/ ParseStep \/ Parsed]_parserVars => CutInv'
<1> SUFFICES ASSUME TreeInv, LexTypes, CutInv, [ParseToken \/ ParseStep \/ Parsed]_parserVars,
                    NoQuotes'
             PROVE  CutInv'
  BY DEF CutInv
<1>a. TreeTypes
  BY DEF TreeInv
<1>1. CASE UNCHANGED parserVars \/ Parsed
  BY <1>1 DEF Parsed, parserVars, parseVars, lexVars, CutInv, NoQuotes, Covered, WordIn, BegunAfter
<1>2. CASE ParseToken
  <2>1. UNCHANGED <<file, parseVars>>
    BY <1>a, <1>2, LexStep
  <2>2. Lexing /\ NoQuotes
    BY <1>2, <2>1 DEF NoQuotes, ParseToken, SkipWhitespace, Punctuation, StartToken, InQuotes,
        InComment, InWord, EndWord, EndOfFile, Reads
  <2>3. /\ token_type = "none" /\ result = "none" /\ result' = "none"
        /\ last_token_type' = last_token_type
        /\ state \in {"INITIAL_WHITESPACE", "NORMAL"}
        /\ last_token_type \in Ends => \E s \in 0 .. pos : BegunAfter(s)
    BY <2>1, <2>2 DEF Lexing, CutInv, parseVars
  <2>4. file' = file /\ pos \in 0 .. Len(file)
        /\ \A n : (Covered(n) <=> Covered(n)') /\ \A s : (WordIn(s, n) <=> WordIn(s, n)')
    BY <1>a, <2>1 DEF TreeTypes, Covered, WordIn
  <2>5. ASSUME NEW c, NEW st, Reads(st, c)
        PROVE  pos' = pos + 1 /\ pos + 1 \in 1 .. Len(file) /\ c = file[pos + 1]
               /\ c \notin {"#", "quote", "dquote"} /\ pos \in 0 .. Len(file) - 1
    BY <1>a, <2>2, <2>5 DEF Reads, NoQuotes, TreeTypes
  <2>6. ASSUME NEW c \in Chars, SkipWhitespace(c) PROVE CutInv'
    <3>1. pos' = pos + 1 /\ file[pos + 1] \in Blank /\ UNCHANGED <<state, token_type>>
          /\ state = "INITIAL_WHITESPACE" /\ pos \in 0 .. Len(file) - 1
      BY <2>5, <2>6 DEF SkipWhitespace, Reads, Blank
    <3>2. ASSUME last_token_type \in Ends PROVE \E s \in 0 .. pos' : BegunAfter(s)'
      <4>1. Covered(pos)
        BY <2>3, <3>1, <3>2 DEF BegunAfter
      <4>2. Covered(pos + 1)
        BY <1>a, <3>1, <4>1, CoveredMore
      <4>3. \A s : s = pos + 1 => BegunAfter(s)'
        BY <2>4, <3>1, <4>2 DEF BegunAfter, WordIn
      <4> QED
        BY <3>1, <4>3
    <3> QED
      BY <2>3, <3>1, <3>2 DEF CutInv
  <2>7. ASSUME NEW c \in Chars, Punctuation(c) PROVE CutInv'
    <3>1. pos' = pos + 1 /\ pos + 1 \in 1 .. Len(file) /\ c = file[pos + 1] /\ state' = state
      BY <2>5, <2>7 DEF Punctuation, Return
    <3>2. token_type' \in {"START_BLOCK", "END_BLOCK", "STATEMENT_END"}
          /\ (token_type' \in {"END_BLOCK", "STATEMENT_END"} => c \in Closers)
      BY <2>7, Zenon DEF Punctuation, Return, Closers
    <3>3. token_type' \in {"END_BLOCK", "STATEMENT_END"} => Covered(pos)'
      <4>1. token_type' \in {"END_BLOCK", "STATEMENT_END"} => Covered(pos + 1)
        BY <2>4, <3>1, <3>2, CoveredByEnd
      <4> QED
        BY <2>4, <3>1, <4>1 DEF Covered
    <3> QED
      BY <2>3, <3>1, <3>2, <3>3 DEF CutInv, Plain
  <2>8. ASSUME NEW c \in Chars, StartToken(c) PROVE CutInv'
    <3>1. pos' = pos + 1 /\ c = file[pos + 1] /\ state' = "NORMAL" /\ token_type' = token_type
          /\ c \notin EndsWord /\ state = "INITIAL_WHITESPACE" /\ pos \in 0 .. Len(file) - 1
      BY <2>5, <2>8 DEF StartToken, Enter, Reads, Special, EndsWord
    <3>2. ASSUME last_token_type \in Ends PROVE \E s \in 0 .. pos' : BegunAfter(s)'
      <4>1. Covered(pos)
        BY <2>3, <3>1, <3>2 DEF BegunAfter
      <4>2. \A s : s = pos => BegunAfter(s)'
        <5>1. \A i \in pos + 1 .. pos + 1 : i = pos + 1
          BY <3>1
        <5> QED
          BY <2>4, <3>1, <4>1, <5>1 DEF BegunAfter, WordIn
      <4> QED
        BY <3>1, <4>2
    <3> QED
      BY <2>3, <3>1, <3>2 DEF CutInv
  <2>9. ASSUME NEW c \in Chars, InWord(c) PROVE CutInv'
    <3>1. pos' = pos + 1 /\ c = file[pos + 1] /\ state' = "NORMAL" /\ token_type' = token_type
          /\ c \notin EndsWord /\ state = "NORMAL" /\ pos \in 0 .. Len(file) - 1
      BY <2>5, <2>9 DEF InWord, Enter, Reads
    <3>2. ASSUME last_token_type \in Ends PROVE \E s \in 0 .. pos' : BegunAfter(s)'
      <4>1. PICK s \in 0 .. pos : BegunAfter(s)
        BY <2>3, <3>2
      <4>2. \A i \in s + 1 .. pos + 1 : i \in s + 1 .. pos \/ i = pos + 1
        BY <3>1
      <4>3. BegunAfter(s)'
        BY <2>4, <3>1, <4>1, <4>2 DEF BegunAfter, WordIn
      <4> QED
        BY <3>1, <4>3
    <3> QED
      BY <2>3, <3>1, <3>2 DEF CutInv
  <2>10. ASSUME NEW c \in Chars, InQuotes(c) \/ InComment(c) PROVE FALSE
    BY <2>3, <2>10 DEF InQuotes, InComment, Reads
  <2>11. CASE EndWord
    <3>1. token_type' = "NORMAL" /\ state' = state
      BY <2>11 DEF EndWord, Return
    <3> QED
      BY <2>3, <3>1 DEF CutInv, Plain
  <2>12. CASE EndOfFile
    <3>1. token_type' = "EOF" /\ state' = state /\ pos' = pos /\ pos = Len(file)
      BY <2>3, <2>12 DEF EndOfFile, Return
    <3>2. \A s : BegunAfter(s) => BegunAfter(s)'
      BY <2>4, <3>1 DEF BegunAfter
    <3> QED
      BY <2>3, <2>4, <3>1, <3>2 DEF CutInv, Plain
  <2> QED
    BY <1>2, <2>6, <2>7, <2>8, <2>9, <2>10, <2>11, <2>12 DEF ParseToken
<1>3. CASE ParseStep
  <2>1. PICK type \in TokenTypes : Takes(type)
    BY <1>3 DEF ParseStep, SkipComment, NewStatement, AddToken, NoTop, EndStatement, StartBlock,
        EndBlock, NoBlock, ParseTrue, ParseFalse, TokenTypes
  <2>2. /\ result = "none" /\ token_type = type /\ token_type' = "none"
        /\ state' = "INITIAL_WHITESPACE" /\ file' = file /\ pos' = pos /\ pos \in 0 .. Len(file)
    BY <1>a, <2>1 DEF Takes, NextToken, TreeTypes
  <2>3. /\ NoQuotes
        /\ \A n : (Covered(n) <=> Covered(n)') /\ \A s : (WordIn(s, n) <=> WordIn(s, n)')
    BY <2>2 DEF NoQuotes, Covered, WordIn
  <2>4. /\ type \in {"EOF"} \cup Plain
        /\ type \in {"END_BLOCK", "STATEMENT_END"} => Covered(pos)
        /\ type = "EOF" /\ last_token_type \in Ends => \E s \in 0 .. pos : BegunAfter(s)
        /\ type = "EOF" => pos = Len(file)
    BY <2>1, <2>2, <2>3 DEF CutInv, TokenTypes
  <2>5. CASE ParseTrue
    <3>1. type = "EOF" /\ last_token_type \in Ends /\ result' = "true"
      BY <2>2, <2>5 DEF ParseTrue, Takes, MayEnd, Stop, Ends
    <3>2. PICK s \in 0 .. Len(file) : Covered(s) /\ WordIn(s, Len(file))
      BY <2>4, <3>1 DEF BegunAfter
    <3> QED
      BY <2>2, <2>3, <3>1, <3>2 DEF CutInv
  <2>6. CASE NoTop \/ NoBlock \/ ParseFalse
    BY <2>6 DEF NoTop, NoBlock, ParseFalse, Stop, CutInv
  <2>7. CASE NewStatement \/ AddToken \/ EndStatement \/ StartBlock \/ EndBlock
    <3>1. result' = "none" /\ last_token_type' = type
      BY <2>2, <2>7 DEF NewStatement, AddToken, EndStatement, StartBlock, EndBlock, Takes, Accept
    <3>2. type \in Ends => Covered(pos)
      BY <2>1, <2>4 DEF Ends, TokenTypes
    <3>3. Covered(pos) => BegunAfter(pos)'
      BY <2>2, <2>3 DEF BegunAfter, WordIn
    <3> QED
      BY <2>2, <3>1, <3>2, <3>3 DEF CutInv
  <2>8. CASE SkipComment
    BY <2>2, <2>4, <2>8 DEF SkipComment, Takes, Plain
  <2> QED
    BY <1>3, <2>5, <2>6, <2>7, <2>8 DEF ParseStep
<1> QED
  BY <1>1, <1>2, <1>3

-----------------------------------------------------------------------------
\* What Parse (config_parser.cc:151-233) has built is a tree at every moment, for
\* every file: a token never goes to a statement that is not there, and
\* config_stack and num_open_blocks never part.
THEOREM ParseBuildsATree == ParserSpec => []ConfigIsTree
<1>1. TreeInv => ConfigIsTree
  BY DEF TreeInv, Nested, ConfigIsTree
<1> QED
  BY <1>1, TreeInit, TreeStep, PTL DEF ParserSpec

\* config_parser.h:36 "Returns true iff the input config file is valid": Parse
\* accepts the token sequences of the grammar and no others, however long the
\* file is and however deep its blocks are.
THEOREM AcceptsExactly == ParserSpec => []AcceptsTheGrammar
<1>1. TreeInv /\ GrammarInv => AcceptsTheGrammar
  BY DEF TreeInv, TreeTypes, GrammarInv, LexTypes, AcceptsTheGrammar, ParserTypeOK,
      StatementType, Plain
<1> QED
  BY <1>1, TreeInit, TreeStep, GrammarInit, GrammarStep, PTL DEF ParserSpec

\* A file that does not end inside a word is accepted only if all its text is
\* in statements that a ";" or "}" ends: ParseToken drops white space and
\* nothing else.
THEOREM DropsNothing == ParserSpec => []NothingLeftOut
<1>1. TreeInv /\ GrammarInv /\ CutInv => NothingLeftOut
  <2> SUFFICES ASSUME TreeInv, CutInv, result = "true", NoQuotes, file # << >>,
                      file[Len(file)] \in EndsWord, NEW i \in 1 .. Len(file)
               PROVE  file[i] \in Blank \/ \E j \in i .. Len(file) : file[j] \in Closers
    BY Zenon DEF NothingLeftOut, AllInStatements, Unquoted, NoQuotes, Blank, Closers
  <2>1. PICK s \in 0 .. Len(file) : Covered(s) /\ WordIn(s, Len(file))
    BY DEF CutInv
  <2>2. Len(file) \in Nat
    BY DEF TreeInv, TreeTypes
  <2>3. s = Len(file)
    BY <2>1, <2>2 DEF WordIn
  <2> QED
    BY <2>1, <2>3 DEF Covered
<1>2. GrammarInv => LexTypes
  BY DEF GrammarInv
<1> QED
  BY <1>1, <1>2, TreeInit, TreeStep, GrammarInit, GrammarStep, CutInit, CutStep, PTL DEF ParserSpec
=============================================================================
