---------------------------- MODULE TokenStream ----------------------------
(***************************************************************************)
(* What the parser's token buffer promises: the tokens of the input come   *)
(* in order, each once, then end-of-file for ever, and up to Lookahead     *)
(* tokens can be seen before they are taken.                               *)
(***************************************************************************)
EXTENDS Naturals, Sequences

CONSTANTS
  Inputs,   \* inputs, as sequences of tokens
  Eof,      \* the end-of-file token
  Nothing   \* no token was taken yet

VARIABLES
  rest,   \* tokens not taken yet
  taken   \* the token taken last

vars == <<rest, taken>>

Lookahead == 3

Peek(n) == IF n < Lookahead /\ n < Len(rest) THEN rest[n + 1] ELSE Eof

Init == rest \in Inputs /\ taken = Nothing

Consume ==
  /\ taken' = Peek(0)
  /\ rest' = IF rest = <<>> THEN rest ELSE Tail(rest)

Spec == Init /\ [][Consume]_vars

=============================================================================
