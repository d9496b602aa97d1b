---------------------------- MODULE TokenBuffer ----------------------------
(***************************************************************************)
(* The parser's token buffer (crates/tsql-parser/src/buffer.rs): a ring of *)
(* three slots between the lexer and the parser.  cursor and filled count  *)
(* tokens, not slots, from the last renumbering on: slot n % 3 holds token *)
(* n for cursor <= n < filled.  When the cursor passes the ring's end the  *)
(* window is moved to the front and both counters are reduced.             *)
(***************************************************************************)
EXTENDS Integers, Sequences

CONSTANTS
  Tokens,   \* tokens other than end-of-file
  Inputs,   \* inputs, as sequences of tokens
  Eof,      \* the end-of-file token
  Nothing   \* an empty slot (None)

ASSUME TokensAssumption == Eof \notin Tokens /\ Nothing \notin Tokens

ASSUME InputsAssumption == Inputs \subseteq Seq(Tokens)

VARIABLES
  input,        \* tokens the lexer still has
  buffer,       \* the ring
  cursor,       \* number of the current token
  filled,       \* number of tokens loaded
  eof_reached,  \* the lexer has given its end-of-file token
  taken         \* what consume() returned last

vars == <<input, buffer, cursor, filled, eof_reached, taken>>

Slot == 0 .. 2

Least(a, b) == IF a < b THEN a ELSE b

(* new(): the first three tokens, or all there are.                        *)
Init ==
  \E s \in Inputs :
    LET k == Least(Len(s), 3)
    IN /\ buffer = [i \in Slot |-> IF i < k THEN s[i + 1] ELSE Nothing]
       /\ cursor = 0
       /\ filled = k
       /\ eof_reached = (Len(s) < 3)
       /\ input = SubSeq(s, k + 1, Len(s))
       /\ taken = Nothing

peek(n) == IF cursor + n < filled THEN buffer[(cursor + n) % 3] ELSE Eof

(* The loop of refill_buffer() with the cursor at c: k tokens go into the  *)
(* slots after the last one filled.                                        *)
Loaded(b, k) ==
  [j \in Slot |->
     LET new == {i \in 1 .. k : (filled + i - 1) % 3 = j}
     IN IF new = {} THEN b[j] ELSE input[CHOOSE i \in new : TRUE]]

(* The window of a ring b with f tokens loaded, moved to the front.        *)
Shifted(b, c, f) ==
  [i \in Slot |-> IF c + i < f THEN b[(c + i) % 3] ELSE Nothing]

(* Mutant: filled is not reduced with the cursor.                          *)
RefillKeepingFilled(b, c) ==
  LET room   == 3 - (filled - c)
      k      == IF eof_reached THEN 0 ELSE Least(room, Len(input))
      loaded == Loaded(b, k)
      shift  == (c \div 3) * 3
  IN /\ input' = SubSeq(input, k + 1, Len(input))
     /\ eof_reached' = (eof_reached \/ Len(input) < room)
     /\ buffer' = IF c >= 3 THEN Shifted(loaded, c, filled + k) ELSE loaded
     /\ filled' = filled + k
     /\ cursor' = c - shift

(* Mutant: the ring is refilled only when the cursor passes its end.       *)
RefillAtWrap(b, c) ==
  LET room   == IF c >= 3 THEN 3 - (filled - c) ELSE 0
      k      == IF eof_reached THEN 0 ELSE Least(room, Len(input))
      loaded == Loaded(b, k)
      shift  == (c \div 3) * 3
  IN /\ input' = SubSeq(input, k + 1, Len(input))
     /\ eof_reached' = (eof_reached \/ Len(input) < room)
     /\ buffer' = IF c >= 3 THEN Shifted(loaded, c, filled + k) ELSE loaded
     /\ filled' = filled + k - shift
     /\ cursor' = c - shift

(* Mutant: the last token of the input is taken for its end.               *)
RefillLosingLast(b, c) ==
  LET room   == 3 - (filled - c)
      k      == IF eof_reached \/ Len(input) <= room THEN 0 ELSE room
      loaded == Loaded(b, k)
      shift  == (c \div 3) * 3
  IN /\ input' = IF k = 0 THEN <<>> ELSE SubSeq(input, k + 1, Len(input))
     /\ eof_reached' = (eof_reached \/ Len(input) <= room)
     /\ buffer' = IF c >= 3 THEN Shifted(loaded, c, filled + k) ELSE loaded
     /\ filled' = filled + k - shift
     /\ cursor' = c - shift

(* refill_buffer() with ring b and the cursor at c.                        *)
Refill(b, c) ==
  LET room   == 3 - (filled - c)
      k      == IF eof_reached THEN 0 ELSE Least(room, Len(input))
      loaded == Loaded(b, k)
      shift  == (c \div 3) * 3
  IN /\ input' = SubSeq(input, k + 1, Len(input))
     /\ eof_reached' = (eof_reached \/ Len(input) < room)
     /\ buffer' = IF c >= 3 THEN Shifted(loaded, c, filled + k) ELSE loaded
     /\ filled' = filled + k - shift
     /\ cursor' = c - shift

(* consume(): an empty slot would be an error (SlotsFilled).               *)
consume ==
  \/ /\ cursor < filled
     /\ buffer[cursor % 3] # Nothing
     /\ taken' = buffer[cursor % 3]
     /\ Refill([buffer EXCEPT ![cursor % 3] = Nothing], cursor + 1)
  \/ /\ cursor >= filled
     /\ taken' = Eof
     /\ UNCHANGED <<input, buffer, cursor, filled, eof_reached>>

(* consume_if(); when the token is another one, nothing changes.           *)
consume_if(kind) == peek(0) = kind /\ consume

Next == consume \/ \E kind \in Tokens \cup {Eof} : consume_if(kind)

Spec == Init /\ [][Next]_vars

-----------------------------------------------------------------------------
(* Types; the counters stay within a ring and a lookahead.                 *)
TypeOK ==
  /\ input \in Seq(Tokens)
  /\ buffer \in [Slot -> Tokens \cup {Nothing}]
  /\ cursor \in Slot
  /\ filled \in 0 .. 5
  /\ eof_reached \in BOOLEAN
  /\ taken \in Tokens \cup {Eof, Nothing}

(* No slot between cursor and filled is empty: peek() and consume() return *)
(* a token, never the error they have for an empty slot.                   *)
SlotsFilled ==
  \A i \in Slot : cursor + i < filled => buffer[(cursor + i) % 3] \in Tokens

(* The tokens not taken yet: those in the window, then the lexer's.        *)
Window == filled - cursor

Rest ==
  [i \in 1 .. (Window + Len(input)) |->
     IF i <= Window THEN buffer[(cursor + i - 1) % 3] ELSE input[i - Window]]

Stream == INSTANCE TokenStream WITH rest <- Rest

(* peek() shows the next three tokens, and end-of-file only where the      *)
(* input has ended: the window is never short while the lexer has tokens.  *)
PeekExact == \A n \in Slot : peek(n) = Stream!Peek(n)

(* The ring implements the stream: over any number of renumberings no      *)
(* token is lost, repeated or reordered, and after the last comes Eof.     *)
StreamSpec == Stream!Spec

=============================================================================
