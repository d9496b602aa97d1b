------------------------------ MODULE MCParser ------------------------------
(***************************************************************************)
(* Inputs for the parser: one or two statements, complete or broken, with  *)
(* or without a semicolon between them, and longer scripts in which errors *)
(* and nesting add up.                                                     *)
(***************************************************************************)
EXTENDS Parser

Alternatives(before, middle, after) == {before \o m \o after : m \in middle}

(* Statements a script consists of.                                        *)
Queries == Alternatives(<<"Select">>, {
  <<"Star">>, <<"Distinct", "Top", "Number", "a", "Comma", "b", "As", "c">>,
  <<"a", "From", "b">>,
  <<"LParen", "a", "RParen", "Dot", "Star", "Comma", "LParen", "a", "Plus", "b", "RParen", "Dot", "Star", "As", "c">>,
  <<"Star", "From", "a", "b", "Left", "Outer", "Join", "c", "On", "a", "Eq", "b">>,
  <<"Star", "From", "LParen", "Select", "a", "From", "b", "RParen", "As", "c", "Cross", "Join", "a">>,
  <<"a", "From", "b", "Comma", "c", "Join", "b", "Using", "LParen", "a", "RParen">>,
  <<"Ident", "LParen", "Star", "RParen", "From", "a", "Group", "By", "b", "Having", "c", "Gt", "Number",
    "Order", "By", "b", "Desc", "Comma", "c">>,
  <<"LocalVar", "Eq", "Number", "Comma", "LocalVar", "Eq", "a">>,
  <<"Case", "When", "a", "Then", "b", "Else", "c", "End">>,
  <<"a", "Where", "Exists", "LParen", "Select", "Star", "From", "b", "Where", "c", "Is", "Null", "RParen">>,
  <<"a", "Where", "a", "Not", "In", "LParen", "Number", "Comma", "b", "RParen">>,
  <<"a", "Where", "a", "In", "LParen", "Select", "b", "RParen", "And", "Not", "b">>,
  <<"a", "Where", "a", "Like", "String", "Escape", "String">>,
  <<"a", "Where", "a", "Between", "Number", "And", "Number", "And", "b", "Is", "Not", "TRUE">>}, <<>>)
Modifications == {
  <<"Insert", "Into", "a", "LParen", "b", "Comma", "c", "RParen", "Values",
    "LParen", "Number", "Comma", "Null", "RParen">>,
  <<"Insert", "Into", "a", "Default", "Values">>, <<"Insert", "Into", "a", "Select", "Star", "From", "b">>,
  <<"Update", "a", "Set", "b", "Eq", "Number", "Comma", "c", "Eq", "b", "From", "b", "Where", "c">>,
  <<"Delete", "From", "a", "Where", "b", "Eq", "Number">>, <<"Delete", "a">>}
Procedural == {
  <<"Declare", "LocalVar", "Int", "Eq", "Number", "Comma", "LocalVar", "Varchar", "LParen", "Number", "RParen">>,
  <<"Set", "LocalVar", "Eq", "a">>, <<"Begin", "Tran", "a">>, <<"Commit">>, <<"Rollback", "Tran">>,
  <<"Save", "Transaction", "a">>, <<"Raiserror", "LParen", "String", "Comma", "Number", "RParen">>,
  <<"Exec", "a", "Number", "Comma", "LocalVar", "Eq", "b">>, <<"Execute", "a", "LocalVar">>,
  <<"Break">>, <<"Return", "a">>, <<"Throw", "Number", "Comma", "String", "Comma", "Number">>,
  <<"If", "a", "Continue">>, <<"If", "a", "Break", "Else", "If", "b", "Break">>,
  <<"While", "a", "Lt", "Number", "Begin", "Set", "LocalVar", "Eq", "a", "Semicolon", "Break", "End">>,
  <<"Begin", "Select", "a", "Delete", "b", "End">>,
  <<"Begin", "Try", "Break", "End", "Try", "Begin", "Catch", "Begin", "Break", "End", "End", "Catch">>}
Definitions == {
  <<"Create", "Table", "a", "LParen", "b", "Int", "Not", "Null", "Identity", "Primary", "Key", "Comma",
    "c", "Decimal", "LParen", "Number", "Comma", "Number", "RParen", "Default", "Number", "Comma",
    "Constraint", "a", "Foreign", "Key", "LParen", "c", "RParen", "References", "b", "LParen", "c", "RParen",
    "Comma", "Check", "LParen", "b", "Gt", "Number", "RParen", "RParen">>,
  <<"Create", "Unique", "Index", "a", "On", "b", "LParen", "c", "RParen">>,
  <<"Create", "View", "a", "As", "Select", "b">>,
  <<"Create", "Proc", "a", "LocalVar", "Int", "Eq", "Number", "Comma", "LocalVar", "Char", "Output",
    "As", "Begin", "Select", "b", "End">>,
  <<"Create", "Trigger", "a", "On", "b", "FOR", "Insert", "Comma", "Update", "As", "Delete", "c">>,
  <<"Alter", "Table", "a", "ADD", "b", "Bigint", "Null">>, <<"Alter", "Table", "a", "Drop", "COLUMN", "b">>}
Complete == Queries \cup Modifications \cup Procedural \cup Definitions

(* Statements that take an expression if one follows: see OpenEnded.       *)
Open == {<<"Exec", "a">>, <<"Return">>, <<"Throw">>}

Broken == {
  <<"a">>, <<"End">>, <<"Else", "Break">>, <<"Select", "From", "a">>, <<"Select", "a", "Where", "Comma">>,
  <<"If", "a", "From">>, <<"Begin", "Select", "a">>, <<"Begin", "If", "a", "From", "End">>,
  <<"Begin", "Try", "Break", "Semicolon", "End", "Try">>, <<"Insert", "Into", "a", "Values", "Number">>,
  <<"Create", "Table", "a", "LParen", "b", "Int", "Comma", "Number">>, <<"Case", "When">>,
  <<"Declare", "LocalVar", "Char", "LParen", "HugeNumber", "RParen">>, <<"Select", "LParen", "a">>}

Go == {<<"Go">>, <<"Go", "Number">>}
Pieces == Complete \cup Open \cup Broken \cup Go
Followers == Go \cup Procedural \cup {<<"Alter", "Table", "a", "ADD", "b", "Bigint", "Null">>,
  <<"Select", "a", "From", "b">>, <<"Delete", "a">>, <<"Else", "Break">>, <<"End">>, <<"Begin", "Select", "a">>}
Pairs == {<<p, q>> : p \in Pieces, q \in Followers}
           \cup {<<p, Semicolon, q>> : p \in Broken \cup Open, q \in Followers}

(* Several failed statements with nesting, then a statement that nests.    *)
Leaky == {<<"If", "a", "From">>, <<"While", "a", "Comma">>, <<"Begin", "If", "a", "From", "End">>,
          <<"If", "a", "If", "b", "From">>, <<"Semicolon">>}
Scripts == {<<p, Semicolon, q, Semicolon, r>> : p, q \in Leaky,
  r \in {<<"If", "a", "Break">>, <<"While", "a", "If", "b", "Begin", "Break", "End">>, <<"Delete", "a">>}}

(* GO where the mode makes it an identifier.                               *)
SingleStatements == {<<p, q>> : p \in {<<"Select", "a", "From", "Go">>, <<"Exec", "Go", "Go">>, <<"Break">>},
  q \in Go \cup {<<"Begin", "Go", "Break", "End">>, <<"Begin", "Break", "Go", "End">>, <<"End", "Go">>}}

(* Chains of operators, some with parentheses or a prefix.                 *)
Infixes == {"Or", "And", "Eq", "Plus", "Minus", "Star", "Between", "In"}
Chains == Alternatives(<<"Select", "a">>,
  {<<p, "b", q, "c", r, "a">> : p, q, r \in Infixes \ {"In"}}
  \cup {<<p, "LParen", "b", q, "c", "RParen", r, "a">> : p, q, r \in Infixes \ {"Between"}}
  \cup {<<p, k, "b", q, "c", "Is", "Null", r, "a">> : p, q, r \in {"And", "Eq", "Plus"}, k \in {"Not", "Minus"}},
  <<>>)

(* Errors in a block that the parser completes, up to the limit on errors. *)
Erroneous == <<"Begin", "If", "From", "Semicolon", "Set", "From", "Semicolon", "Delete", "Comma",
               "Semicolon", "Set", "From", "End">>

Input(mode, p) == [batch |-> mode, pieces |-> p, tokens |-> Text(p)]
MCInputs ==
  {Input(TRUE, p) : p \in Pairs \cup Scripts \cup {<<c>> : c \in Chains} \cup {<<Erroneous, <<"Delete", "a">>>>}}
  \cup {Input(FALSE, p) : p \in SingleStatements}

ASSUME SamplesAssumption == \A p \in Complete \cup Open \cup Go : IsStatement(p, TRUE)
=============================================================================
