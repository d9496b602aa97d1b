----------------------------- MODULE Characters -----------------------------
(***************************************************************************)
(* Texts, for the lexer and the document's copy: sequences of characters.  *)
(* CR, LF and TAB are characters, W is a letter of three bytes, "?" one    *)
(* that starts no token, S the only keyword.  The second part has the      *)
(* lines of a text (line_index.rs) and what one change does to it          *)
(* (incremental.rs).  Lines end at line feeds; offsets, and the characters *)
(* of a position, count bytes, as in the code.                             *)
(***************************************************************************)
EXTENDS Integers, Sequences, FiniteSets

Digits == {"0", "1"}
AsciiLetters == {"S", "a", "e", "x", "N", "U"}
IdentStart == AsciiLetters \cup {"W", "_"}
IdentPart == IdentStart \cup Digits \cup {"$"}
Blank == {" ", "TAB", "LF", "CR"}
Single == {"%", "=", "&", "^", "~", "(", ")", "{", "}", "]", ",", ";", ":"}

(* What may follow the first character of an operator.                     *)
Longer ==
  [c \in Single \cup {"+", "-", "*", "/", "<", ">", "!", "|", "."} |->
     CASE c \in {"+", "-", "*", "/", ">"} -> {"="}
       [] c = "<" -> {"=", ">"}
       [] c = "!" -> {"=", "<", ">"}
       [] c \in {"|", "."} -> {c}
       [] OTHER -> {}]

Chars == IdentPart \cup Blank \cup DOMAIN Longer \cup {"@", "#", "[", "'", "\"", "\\", "?"}

Bytes(c) == IF c = "W" THEN 3 ELSE 1
BytesBefore(t, i) == (i - 1) + 2 * Cardinality({k \in 1 .. i - 1 : t[k] = "W"})

(* The bytes of a text between two offsets.                                *)
Slice(t, start, end) ==
  LET within == {i \in 1 .. Len(t) : BytesBefore(t, i) >= start /\ BytesBefore(t, i) < end}
  IN IF within = {} THEN <<>>
     ELSE SubSeq(t, CHOOSE i \in within : \A j \in within : i <= j,
                    CHOOSE i \in within : \A j \in within : i >= j)

------------------------------------------------------------------------------
(* Lines, offsets and positions.                                          *)
Size(t) == BytesBefore(t, Len(t) + 1)

LineFeeds(t) == {i \in DOMAIN t : t[i] = "LF"}

(* The member of a set of numbers that has n members below it.             *)
Ranked(S, n) == CHOOSE i \in S : Cardinality({j \in S : j < i}) = n

(* LineIndex::new(): where each line starts.                               *)
LineOffsets(t) ==
  [k \in 1 .. Cardinality(LineFeeds(t)) + 1 |->
     IF k = 1 THEN 0 ELSE 1 + BytesBefore(t, Ranked(LineFeeds(t), k - 2))]

(* Mutant: a line starts after its first byte.                             *)
LineNumberStrict(t, offset) ==
  LET before == {k \in DOMAIN LineOffsets(t) : LineOffsets(t)[k] < offset}
  IN IF before = {} THEN 0 ELSE Cardinality(before) - 1

LineNumber(t, offset) ==
  LET before == {k \in DOMAIN LineOffsets(t) : LineOffsets(t)[k] <= offset}
  IN IF before = {} THEN 0 ELSE Cardinality(before) - 1

OffsetToPosition(t, offset) ==
  LET line == LineNumber(t, offset)
  IN [line |-> line, character |-> offset - LineOffsets(t)[line + 1]]

(* The first character boundary at or after an offset, in the lines that   *)
(* follow where the line is shorter.                                       *)
BoundaryFrom(t, offset) ==
  LET beyond == {i \in DOMAIN t : BytesBefore(t, i) >= offset}
  IN IF beyond = {} THEN Size(t) ELSE BytesBefore(t, CHOOSE i \in beyond : \A j \in beyond : i <= j)

(* Mutant: one character too far.                                          *)
PositionToOffsetBeyond(t, p) ==
  IF p.line >= Len(LineOffsets(t)) THEN Size(t)
  ELSE BoundaryFrom(t, LineOffsets(t)[p.line + 1] + p.character + 1)

PositionToOffset(t, p) ==
  IF p.line >= Len(LineOffsets(t)) THEN Size(t)
  ELSE BoundaryFrom(t, LineOffsets(t)[p.line + 1] + p.character)

(* apply_content_change(): what PositionToOffset gives is a character      *)
(* boundary of the text already.                                           *)
ApplyContentChange(t, change) ==
  LET start == PositionToOffset(t, change.from)
      end == PositionToOffset(t, change.to)
      first == IF start > end THEN end ELSE start
  IN IF change.whole THEN change.text
     ELSE Slice(t, 0, first) \o change.text \o Slice(t, end, Size(t))

=============================================================================
