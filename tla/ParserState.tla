----------------------------- MODULE ParserState -----------------------------
(***************************************************************************)
(* The state of a tsql-parser::Parser and the helpers that move it: looking*)
(* at tokens, consuming them, and finding the next statement after an      *)
(* error.                                                                  *)
(*                                                                         *)
(* A token is the name of its kind; a word of IdentWords, VarWords,        *)
(* TempWords or NumberWords is a token of kind Ident, LocalVar, TempTable  *)
(* or Number with a text of its own.                                       *)
(***************************************************************************)
EXTENDS Naturals, Sequences

IdentWords == {"ADD", "COLUMN", "FOR", "TRUE", "FALSE", "UNKNOWN", "a", "b", "c", "f",
               "p", "r", "t", "A", "T"}
VarWords == {"@a", "@A", "@b"}
TempWords == {"#a", "#A"}
NumberWords == {"HugeNumber"}   \* does not fit the u32 or u8 of a type length

------------------------------------------------------------------------------
(* The parser's state: its input and position in it, the mode, the depth   *)
(* counters of the statement and the expression parser, the pending error, *)
(* the errors collected, and the stack of nodes built so far.  hung marks  *)
(* a loop of the code that never ends.                                     *)
NewParser(input, batch) ==
  [inp |-> input, pos |-> 1, batch |-> batch, depth |-> 0, xd |-> 0,
   ok |-> TRUE, hung |-> FALSE, errs |-> <<>>, vals |-> <<>>]

TokenAt(s, n) == IF s.pos + n <= Len(s.inp) THEN s.inp[s.pos + n] ELSE "Eof"
KindOf(t) ==
  CASE t \in IdentWords -> "Ident" [] t \in VarWords -> "LocalVar" [] t \in TempWords -> "TempTable"
    [] t \in NumberWords -> "Number" [] OTHER -> t
Current(s) == KindOf(TokenAt(s, 0))
Check(s, K) == TokenAt(s, 0) \in K \/ Current(s) \in K
Consume(s) == IF Current(s) = "Eof" THEN s ELSE [s EXCEPT !.pos = @ + 1]
ConsumeIf(s, K) == IF Check(s, K) THEN Consume(s) ELSE s
Error(s) == [s EXCEPT !.ok = FALSE]

------------------------------------------------------------------------------
(* Where error recovery resumes (helpers.rs). *)
(* Mutant: recovery stops at ELSE.                                         *)
StatementStartAndElse == {"Select", "Break", "Else", "End", "Go"}
StatementStart == {"Select", "Insert", "Update", "Delete", "Create", "Alter", "Declare", "Set", "If",
  "While", "Begin", "Break", "Continue", "Return", "Commit", "Rollback", "Save", "Throw",
  "Raiserror", "Exec", "Execute", "Go", "End"}
IsAtEof(s) == Current(s) = "Eof"
Synchronize(s) ==
  LET Stops == {i \in s.pos .. Len(s.inp) : KindOf(s.inp[i]) \in StatementStart \cup {"Semicolon"}}
  IN [s EXCEPT !.pos = IF Stops = {} THEN Len(s.inp) + 1 ELSE CHOOSE i \in Stops : \A j \in Stops : i <= j]

(* What every caller that recovers does with a statement that failed.      *)
(* Mutants: the error stays pending, is not recorded, or the nodes of the *)
(* failed statement stay.                                                  *)
CollectPending(before, s) == Synchronize([s EXCEPT !.errs = Append(@, s.pos), !.vals = before.vals])
CollectSilently(before, s) == Synchronize([s EXCEPT !.ok = TRUE, !.vals = before.vals])
CollectKeepingNodes(before, s) == Synchronize([s EXCEPT !.ok = TRUE, !.errs = Append(@, s.pos)])
Collect(before, s) ==
  Synchronize([s EXCEPT !.ok = TRUE, !.errs = Append(@, s.pos), !.vals = before.vals])

------------------------------------------------------------------------------
(* A turn of the loops over a whole input, from the parser s before        *)
(* parse_statement and r after it.                                         *)
Parsing(s) == ~s.hung /\ ~IsAtEof(s)
Separator(s) == ConsumeIf(s, {"Semicolon"})
Returned(s, r) == IF r.hung THEN [s EXCEPT !.hung = TRUE] ELSE r
SkipIfStuck(s) == IF Check(s, StatementStart) THEN s ELSE Consume(s)
Recovered(s, r) == Separator(IF r.ok THEN r ELSE SkipIfStuck(Collect(s, r)))
==============================================================================
