---------------------------- MODULE ParserLoops ----------------------------
(***************************************************************************)
(* The two ways tsql-parser reads a whole input: Parser::parse, which      *)
(* answers with the statements or the first error, and                     *)
(* Parser::parse_with_errors, which keeps what it could recover.  One step *)
(* is one turn of their loops.  What parse_statement does in a turn is a   *)
(* constant: Parser fills it in with the grammar.                          *)
(***************************************************************************)
EXTENDS ParserState

CONSTANTS
  Inputs,            \* what is parsed: tokens, and the mode
  MaxErrors,         \* MAX_ERRORS of parse_with_errors, 100 in the code
  RunStatement(_)    \* the state of a parser after parse_statement

ASSUME LoopsAssumption ==
  /\ MaxErrors \in Nat \ {0}
  /\ \A i \in Inputs : /\ i.batch \in BOOLEAN /\ i.tokens \in Seq(STRING)
                       /\ \A k \in DOMAIN i.tokens : KindOf(i.tokens[k]) # "Eof"

VARIABLES
  input,       \* the input of both parsers
  strict,      \* the Parser that runs parse
  lenient      \* the Parser that runs parse_with_errors

vars == <<input, strict, lenient>>

Init ==
  /\ input \in Inputs
  /\ strict = NewParser(input.tokens, input.batch)
  /\ lenient = strict

(* The errors of parse are not limited; the model keeps MaxErrors of them. *)
Capped(s) == IF Len(s.errs) > MaxErrors THEN [s EXCEPT !.errs = SubSeq(@, 1, MaxErrors)] ELSE s

OneStatement(s) == Returned(s, RunStatement(s))

(* Mutant: the error returned is the last one.                             *)
ParseTurnKeepingLastError(s) ==
  LET r == OneStatement(s)
  IN Separator(IF r.ok THEN r ELSE Collect(s, [r EXCEPT !.errs = <<>>]))
ParseTurn(s) ==
  LET r == OneStatement(s) IN Capped(Separator(IF r.ok THEN r ELSE Collect(s, r)))
Parse ==
  /\ Parsing(strict)
  /\ strict' = ParseTurn(strict)
  /\ UNCHANGED <<input, lenient>>

Recovering(s) == Parsing(s) /\ Len(s.errs) < MaxErrors
RecoveryTurn(s) == Recovered(s, OneStatement(s))
ParseWithErrors ==
  /\ Recovering(lenient)
  /\ lenient' = RecoveryTurn(lenient)
  /\ UNCHANGED <<input, strict>>

Next == Parse \/ ParseWithErrors

(* A loop that can take another turn takes it: weak fairness of            *)
(* ParseWithErrors, with its ENABLED spelled out.                          *)
Fairness ==
  <>[](Recovering(lenient) /\ RecoveryTurn(lenient) # lenient) => []<><<ParseWithErrors>>_vars
Spec == Init /\ [][Next]_vars /\ Fairness

------------------------------------------------------------------------------
(* What the loops rely on.  parse_statement moves forward, adds errors and *)
(* takes none away; a statement that it builds spans what it consumed;     *)
(* where it consumes nothing it stands at no statement, or at END, or at   *)
(* GO in SingleStatement mode, the only mode in which it may not return.   *)
IsParser(s) ==
  /\ s \in [inp : Seq(STRING), pos : Nat, batch : BOOLEAN, depth : Nat, xd : Nat,
            ok : BOOLEAN, hung : BOOLEAN, errs : Seq(Nat), vals : {s.vals}]
  /\ s.vals \in Seq({s.vals[k] : k \in DOMAIN s.vals})
Builds(s, r) ==
  \E n \in {r.vals[k] : k \in DOMAIN r.vals} :
    r.vals = Append(s.vals, n) /\ n.from = s.pos /\ n.to = r.pos - 1 /\ s.pos < r.pos
FalseStart(s) ==
  Current(s) \notin StatementStart \/ Current(s) = "End" \/ (Current(s) = "Go" /\ ~s.batch)
Dependable(s) ==
  Parsing(s) =>
    LET r == RunStatement(s)
    IN /\ IsParser(r) /\ r.inp = s.inp /\ r.batch = s.batch /\ r.pos \in s.pos .. Len(s.inp) + 1
       /\ Len(s.errs) <= Len(r.errs) /\ \A k \in DOMAIN s.errs : r.errs[k] = s.errs[k]
       /\ r.hung => ~s.batch
       /\ r.ok /\ ~r.hung => Builds(s, r)
       /\ ~r.ok /\ r.pos = s.pos => FalseStart(s)
StatementsDependable == Dependable(strict) /\ Dependable(lenient)

------------------------------------------------------------------------------
StrictReturned == IsAtEof(strict)
LenientReturned == ~lenient.hung /\ (IsAtEof(lenient) \/ Len(lenient.errs) >= MaxErrors)

(* The two entry points tell the same story: parse fails exactly when      *)
(* parse_with_errors has an error, with the first of its errors, and       *)
(* otherwise both find the same statements.                                *)
Agreement ==
  StrictReturned /\ LenientReturned =>
    IF lenient.errs = <<>> THEN strict.errs = <<>> /\ strict.vals = lenient.vals
    ELSE strict.errs # <<>> /\ strict.errs[1] = lenient.errs[1]

(* Nothing is dropped in silence: between two recovered statements, and    *)
(* between the last one and the end of an input read to the end, stands at *)
(* most one semicolon, or an error was reported.                           *)
NothingDroppedSilently ==
  LET Ends == {0} \cup {lenient.vals[i].to : i \in DOMAIN lenient.vals}
      Starts == {lenient.vals[i].from : i \in DOMAIN lenient.vals}
                  \cup (IF ~lenient.hung /\ IsAtEof(lenient) THEN {Len(lenient.inp) + 1} ELSE {})
      Gap(a, b) == a < b /\ ~\E i \in DOMAIN lenient.vals : a < lenient.vals[i].from /\ lenient.vals[i].from < b
  IN \A a \in Ends, b \in Starts :
       Gap(a, b) => \/ b = a + 1
                    \/ b = a + 2 /\ lenient.inp[a + 1] = "Semicolon"
                    \/ \E e \in DOMAIN lenient.errs : a < lenient.errs[e] /\ lenient.errs[e] <= b

(* parse makes no progress only on a word that stops synchronize and       *)
(* starts no statement: END outside a block, and GO in SingleStatement     *)
(* mode.  There its loop never ends.                                       *)
StallsOnlyAtFalseStarts ==
  [][\/ strict' = strict \/ strict'.pos > strict.pos \/ Current(strict) = "End"
     \/ ~strict.batch /\ (Current(strict) = "Go" \/ strict'.hung)]_vars

(* parse_with_errors ends on every input in batch mode; in SingleStatement *)
(* mode it ends unless GO stands where a block expects a statement.        *)
LenientReturns == <>(LenientReturned \/ (lenient.hung /\ ~lenient.batch))
=============================================================================
