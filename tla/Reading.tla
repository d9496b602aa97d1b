------------------------------ MODULE Reading ------------------------------
(***************************************************************************)
(* A document from the editor to the parser: the server cuts the text of   *)
(* its copy into tokens (Lexer) and the parser takes them through its      *)
(* buffer (TokenBuffer, whose input is what the lexer yields) while the    *)
(* editor goes on changing the document (DocumentCopy).                    *)
(***************************************************************************)
EXTENDS TokenBuffer, Lexer, DocumentCopy

(* All tokens of a text: the lexer's turns to their end.                   *)
RECURSIVE TokensFrom(_, _)
TokensFrom(t, m) == IF Finished(t, m) THEN m.tokens ELSE TokensFrom(t, Turn(t, m))

Lex(t, preserve) == TokensFrom(t, LexerNew(preserve))

(* A document and what the parser's lexer, which skips comments, yields.   *)
ReadingOf(d) ==
  LET tokens == Lex(d.text, FALSE)
  IN [document |-> d, kinds |-> [k \in DOMAIN tokens |-> tokens[k].kind]]

Readings == {ReadingOf(d) : d \in Documents}

(* The buffer on the tokens of one text.                                   *)
Ring(kinds) == INSTANCE TokenBuffer WITH Inputs <- {kinds}

ReadInit ==
  \E r \in Readings :
    text = r.document.text /\ LexInit /\ Ring(r.kinds)!Init /\ Open(r.document)

(* A document is read to its end before the next notification is handled.  *)
ReadNext ==
  \/ LexTurn /\ UNCHANGED <<vars, copyVars>>
  \/ Finished(text, lexer) /\ Next /\ UNCHANGED <<copyVars, lexVars>>
  \/ Finished(text, lexer) /\ ChangeText /\ UNCHANGED <<vars, lexVars>>

ReadSpec == ReadInit /\ [][ReadNext]_<<vars, copyVars, lexVars>>

-----------------------------------------------------------------------------
JustRead == Finished(text, lexer) /\ taken = Nothing
Breaks(t) == {i \in DOMAIN t : i < Len(t) /\ t[i] = "CR" /\ t[i + 1] = "LF"}

(* Every token is a piece of the text and stands for it: its span cuts its *)
(* text out of the source, spans do not overlap, and the text read alone   *)
(* is the same one token.  Token text is what the formatter writes and     *)
(* what every feature compares.  Tokens after a CR LF and national strings *)
(* are the exceptions the code makes.                                      *)
TokensStandAlone ==
  JustRead /\ Breaks(text) = {} =>
    \A k \in DOMAIN lexer.tokens :
      LET token == lexer.tokens[k]
          alone == Lex(token.text, lexer.preserve)
      IN \/ token.kind = "NString"
         \/ token.kind = "Unknown" /\ token.text = <<>> /\ token.start < Size(text)
         \/ /\ token.text = Slice(text, token.start, token.end)
            /\ k < Len(lexer.tokens) => token.end <= lexer.tokens[k + 1].start
            /\ Len(alone) = 1 /\ alone[1].kind = token.kind /\ alone[1].text = token.text

=============================================================================
