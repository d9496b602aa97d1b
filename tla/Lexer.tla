------------------------------- MODULE Lexer -------------------------------
(***************************************************************************)
(* The lexer (crates/tsql-lexer): a cursor over the characters of a text,  *)
(* and the tokens it cuts.  A step is one turn of one of its loops, or the *)
(* code between two loops.  The kind of an operator is its text.           *)
(***************************************************************************)
EXTENDS Characters

(* The cursor: index of the current character, and the position it keeps.  *)
Start == [at |-> 1, line |-> 1, column |-> 1, offset |-> 0]

AtEnd(t, c) == c.at > Len(t)
Current(t, c) == IF AtEnd(t, c) THEN "EOF" ELSE t[c.at]
Peek(t, c) == IF c.at + 1 > Len(t) THEN "EOF" ELSE t[c.at + 1]

ColumnAfter(column, ch) ==
  CASE ch \in {"CR", "LF"} -> 1
    [] ch = "TAB" -> ((column - 1 + 8) \div 8) * 8 + 1
    [] OTHER -> column + 1

(* Mutant: every character counts one byte.                                *)
BumpCountingCharacters(t, c) ==
  LET ch == Current(t, c)
      broken == ch = "CR" /\ Peek(t, c) = "LF"
  IN IF AtEnd(t, c) THEN c
     ELSE [at     |-> IF broken THEN c.at + 2 ELSE c.at + 1,
           line   |-> IF ch \in {"CR", "LF"} THEN c.line + 1 ELSE c.line,
           column |-> ColumnAfter(c.column, ch),
           offset |-> c.offset + 1]

(* bump(): a line feed after a carriage return goes with it, but the       *)
(* offset is that of the character after the carriage return.              *)
Bump(t, c) ==
  LET ch == Current(t, c)
      broken == ch = "CR" /\ Peek(t, c) = "LF"
  IN IF AtEnd(t, c) THEN c
     ELSE [at     |-> IF broken THEN c.at + 2 ELSE c.at + 1,
           line   |-> IF ch \in {"CR", "LF"} THEN c.line + 1 ELSE c.line,
           column |-> ColumnAfter(c.column, ch),
           offset |-> BytesBefore(t, c.at) + Bytes(ch)]

Bump2(t, c) == Bump(t, Bump(t, c))
Bump4(t, c) == Bump2(t, Bump2(t, c))
Bump7(t, c) == Bump(t, Bump2(t, Bump4(t, c)))

-----------------------------------------------------------------------------
(* Where a reader stands: the cursor, and the loop it goes on with or the  *)
(* kind of the token it has read.                                          *)
Read(kind, c) == [c |-> c, loop |-> [at |-> "read", kind |-> kind]]
While(chars, kind, c) == [c |-> c, loop |-> [at |-> "while", chars |-> chars, kind |-> kind]]
Closing(quote, kind, c) == [c |-> c, loop |-> [at |-> "closing", quote |-> quote, kind |-> kind]]
Unicode(quote, c) == [c |-> c, loop |-> [at |-> "unicode", quote |-> quote]]
Counting(dot, exponent, c) == [c |-> c, loop |-> [at |-> "counting", dot |-> dot, exponent |-> exponent]]
Nesting(depth, c) == [c |-> c, loop |-> [at |-> "nesting", depth |-> depth]]

(* bump() for as long as the characters are of one set.                    *)
WhileTurn(t, c, loop) ==
  IF Current(t, c) \in loop.chars THEN While(loop.chars, loop.kind, Bump(t, c))
  ELSE Read(loop.kind, c)

(* Strings and quoted identifiers: up to the closing quote, which stands   *)
(* for itself where it is doubled.                                         *)
ClosingTurn(t, c, loop) ==
  IF AtEnd(t, c) THEN Read("Error", c)
  ELSE IF Current(t, c) # loop.quote THEN Closing(loop.quote, loop.kind, Bump(t, c))
  ELSE IF Peek(t, c) = loop.quote THEN Closing(loop.quote, loop.kind, Bump2(t, c))
  ELSE Read(loop.kind, Bump(t, c))

UnicodeTurn(t, c, loop) ==
  LET escaped == Bump(t, c)
      quoted == Current(t, c) = loop.quote
  IN CASE AtEnd(t, c) -> Read("UnicodeString", c)
       [] quoted /\ Peek(t, c) # loop.quote -> Read("UnicodeString", Bump(t, c))
       [] quoted /\ Peek(t, c) = loop.quote -> Unicode(loop.quote, Bump2(t, c))
       [] Current(t, c) = "\\" /\ Current(t, escaped) = "+" -> Unicode(loop.quote, Bump7(t, escaped))
       [] Current(t, c) = "\\" /\ Current(t, escaped) # "+" -> Unicode(loop.quote, Bump4(t, escaped))
       [] OTHER -> Unicode(loop.quote, Bump(t, c))

(* Digits, one dot, one exponent; a dot that no digit follows ends it.     *)
CountingTurn(t, c, loop) ==
  LET next == Bump(t, c)
      signed == Current(t, next) \in {"+", "-"}
  IN CASE Current(t, c) \in Digits -> Counting(loop.dot, loop.exponent, next)
       [] Current(t, c) = "." /\ ~loop.dot ->
            IF Current(t, next) \in Digits THEN Counting(TRUE, loop.exponent, next)
            ELSE Read("FloatLiteral", next)
       [] Current(t, c) = "e" /\ ~loop.exponent ->
            Counting(loop.dot, TRUE, IF signed THEN Bump(t, next) ELSE next)
       [] OTHER -> Read(IF loop.dot \/ loop.exponent THEN "FloatLiteral" ELSE "Number", c)

NestingTurn(t, c, loop) ==
  LET pair == <<Current(t, c), Peek(t, c)>>
  IN CASE loop.depth = 0 -> Read("BlockComment", c)
       [] loop.depth > 0 /\ AtEnd(t, c) -> Read("Error", c)
       [] loop.depth > 0 /\ pair = <<"/", "*">> -> Nesting(loop.depth + 1, Bump2(t, c))
       [] loop.depth > 0 /\ pair = <<"*", "/">> -> Nesting(loop.depth - 1, Bump2(t, c))
       [] OTHER -> Nesting(loop.depth, Bump(t, c))

ReaderTurn(t, c, loop) ==
  CASE loop.at = "while" -> WhileTurn(t, c, loop)
    [] loop.at = "closing" -> ClosingTurn(t, c, loop)
    [] loop.at = "unicode" -> UnicodeTurn(t, c, loop)
    [] loop.at = "counting" -> CountingTurn(t, c, loop)
    [] loop.at = "nesting" -> NestingTurn(t, c, loop)

-----------------------------------------------------------------------------
(* What a reader does before its loop.                                     *)
ReadString(t, c) == Closing("'", "String", Bump(t, c))
ReadQuotedIdent(t, c) == Closing("\"", "QuotedIdent", Bump(t, c))

(* The loop starts at the opening quote, and takes it for the closing one. *)
ReadNationalString(t, c) == Closing("'", "NString", Bump(t, c))

ReadBracketIdent(t, c) ==
  IF Peek(t, c) \in {"EOF", "]"} THEN Read("[", Bump(t, c))
  ELSE Closing("]", "QuotedIdent", Bump(t, c))

ReadUnicodeString(t, c) ==
  LET quote == Bump2(t, c)
  IN IF Current(t, quote) \in {"'", "\""} THEN Unicode(Current(t, quote), Bump(t, quote))
     ELSE Read("Error", quote)

ReadNumber(t, c) ==
  IF Current(t, c) = "0" /\ Peek(t, c) = "x"
  THEN While(Digits \cup {"a", "e"}, "HexString", Bump2(t, c))
  ELSE Counting(FALSE, FALSE, c)

ReadBlockComment(t, c) == Nesting(1, Bump2(t, c))

(* A line comment ends before a line feed only; bump() leaves none where a *)
(* carriage return precedes it.                                            *)
ReadLineComment(t, c) == While(Chars \ {"LF"}, "LineComment", Bump2(t, c))

(* Variables and temporary tables: one prefix character or two.            *)
ReadPrefixed(t, c, one, two) ==
  LET first == Bump(t, c)
  IN IF Current(t, first) = Current(t, c) THEN While(IdentPart, two, Bump(t, first))
     ELSE While(IdentPart, one, first)

ReadOperator(t, c) ==
  LET next == Bump(t, c)
  IN CASE Current(t, next) \in Longer[Current(t, c)] ->
            Read(Current(t, c) \o Current(t, next), Bump(t, next))
       [] Current(t, c) = "!" /\ Current(t, next) \notin Longer["!"] -> Read("Error", next)
       [] OTHER -> Read(Current(t, c), next)

ReadIdentOrKeyword(t, c) == While(IdentPart, "Ident", c)

(* The reader for what starts at the cursor.                               *)
ReadToken(t, c) ==
  LET ch == Current(t, c)
      next == Peek(t, c)
  IN CASE ch = "/" /\ next = "*" -> ReadBlockComment(t, c)
       [] ch = "-" /\ next = "-" -> ReadLineComment(t, c)
       [] ch = "@" -> ReadPrefixed(t, c, "LocalVar", "GlobalVar")
       [] ch = "#" -> ReadPrefixed(t, c, "TempTable", "GlobalTempTable")
       [] ch = "[" -> ReadBracketIdent(t, c)
       [] ch = "\"" -> ReadQuotedIdent(t, c)
       [] ch = "'" -> ReadString(t, c)
       [] ch \in Digits -> ReadNumber(t, c)
       [] ch \in DOMAIN Longer /\ ~(ch = "/" /\ next = "*") /\ ~(ch = "-" /\ next = "-") ->
            ReadOperator(t, c)
       [] ch = "U" /\ next = "&" -> ReadUnicodeString(t, c)
       [] ch = "N" /\ next = "'" -> ReadNationalString(t, c)
       [] ch \in IdentStart /\ ~(ch = "U" /\ next = "&") /\ ~(ch = "N" /\ next = "'") ->
            ReadIdentOrKeyword(t, c)
       [] OTHER -> Read("Error", c)

-----------------------------------------------------------------------------
(* A token.                                                                *)
Keywords == [word \in {<<"S">>} |-> "Select"]
FromIdent(word) == IF word \in DOMAIN Keywords THEN Keywords[word] ELSE "Ident"

(* The texts of operators are constants, all others are cut by offset.     *)
TextOf(t, start, kind, c) ==
  LET literal == kind = "[" \/ (Current(t, start) \in DOMAIN Longer /\ kind \notin {"BlockComment", "LineComment"})
  IN IF kind = "Error" THEN <<>>
     ELSE IF literal THEN SubSeq(t, start.at, c.at - 1)
     ELSE Slice(t, start.offset, c.offset)

KindOf(kind, word) ==
  CASE kind = "Error" -> "Unknown"
    [] kind = "Ident" -> FromIdent(word)
    [] OTHER -> kind

Token(t, start, kind, c) ==
  LET piece == TextOf(t, start, kind, c)
  IN [kind  |-> KindOf(kind, piece),
      text  |-> piece,
      line  |-> start.line,
      start |-> start.offset,
      end   |-> start.offset + Size(piece)]

-----------------------------------------------------------------------------
(* The lexer: where it stands in a text, where the token it reads starts,  *)
(* and the tokens it has given; comments are among them or skipped.        *)
Between == [at |-> "between"]
Synchronizing == [at |-> "synchronizing"]

LexerNew(preserve) ==
  [c |-> Start, start |-> Start, loop |-> Between, tokens |-> <<>>, preserve |-> preserve]

Finished(t, m) == m.loop.at = "between" /\ AtEnd(t, m.c)

SkipBlank(t, m) == [m EXCEPT !.c = Bump(t, m.c)]

Begin(t, m) ==
  LET r == ReadToken(t, m.c)
  IN [m EXCEPT !.start = m.c, !.c = r.c, !.loop = r.loop]

ReadOn(t, m) ==
  LET r == ReaderTurn(t, m.c, m.loop)
  IN [m EXCEPT !.c = r.c, !.loop = r.loop]

(* After an error the character at the cursor is skipped.                  *)
Give(t, m) ==
  LET kind == m.loop.kind
      token == Token(t, m.start, kind, m.c)
  IN IF kind \in {"BlockComment", "LineComment"} /\ ~m.preserve THEN [m EXCEPT !.loop = Between]
     ELSE IF kind = "Error"
     THEN [m EXCEPT !.tokens = Append(m.tokens, token), !.c = Bump(t, m.c), !.loop = Synchronizing]
     ELSE [m EXCEPT !.tokens = Append(m.tokens, token), !.loop = Between]

(* synchronize(): to after the next semicolon, or to the next letter.      *)
Synchronize(t, m) ==
  LET ch == Current(t, m.c)
  IN CASE AtEnd(t, m.c) \/ ch \in AsciiLetters \cup {"_"} -> [m EXCEPT !.loop = Between]
       [] ch = ";" -> [m EXCEPT !.c = Bump(t, m.c), !.loop = Between]
       [] OTHER -> [m EXCEPT !.c = Bump(t, m.c)]

Turn(t, m) ==
  CASE m.loop.at = "between" -> IF Current(t, m.c) \in Blank THEN SkipBlank(t, m) ELSE Begin(t, m)
    [] m.loop.at = "read" -> Give(t, m)
    [] m.loop.at = "synchronizing" -> Synchronize(t, m)
    [] OTHER -> ReadOn(t, m)

VARIABLES
  text,   \* the text that is read
  lexer   \* the lexer on it

lexVars == <<text, lexer>>

LexInit == text \in Seq(Chars) /\ lexer \in {LexerNew(preserve) : preserve \in BOOLEAN}

LexTurn ==
  /\ ~Finished(text, lexer)
  /\ lexer' = Turn(text, lexer)
  /\ UNCHANGED text

LexSpec == LexInit /\ [][LexTurn]_lexVars

-----------------------------------------------------------------------------
(* The lexer, which counts lines as it goes, and the line index agree, and *)
(* a position the server sends for a token comes back as that token.       *)
PositionsComeBack ==
  (\A i \in DOMAIN text : text[i] # "CR") =>
    \A k \in DOMAIN lexer.tokens :
      LET token == lexer.tokens[k]
          position == OffsetToPosition(text, token.start)
      IN position.line = token.line - 1 /\ PositionToOffset(text, position) = token.start

=============================================================================
