------------------------------ MODULE MCEditor ------------------------------
(* Documents of one or two statements, alone and next to a file that       *)
(* defines what they name.                                                 *)
EXTENDS Editor

NewNames == {"b", "@b", "#A"}

LF == <<"LF">>
Defines ==
  <<"Create", "Table", "t", "LParen", "a", "Int", "Identity", "Comma", "c", "Int", "RParen">>
TempTable == <<"Create", "Table", "#a", "LParen", "a", "Int", "RParen">>
View == <<"Create", "View", "f", "As", "Select", "Star", "From", "t">>
Unique == <<"Create", "Unique", "Index", "c", "On", "t", "LParen", "a", "RParen">>
Procedure ==
  <<"Create", "Procedure", "p", "@a", "Int", "As", "Begin", "LF", "Declare", "@b", "Int", "LF",
    "Set", "@b", "Eq", "@A", "LF", "End">>
Proc == <<"Create", "Proc", "p", "@a", "Int", "Comma", "@b", "Int", "As", "Select", "@b", "From", "T">>
Trigger == <<"Create", "Trigger", "r", "On", "t", "FOR", "Insert", "As", "Begin", "LF",
             "Select", "Star", "From", "T", "LF", "End">>
Unfinished == <<"Create", "Table", "t", "LParen", "a", "Int", "RParen", "Select", "From">>
Declares == <<"Declare", "@a", "Int", "Comma", "@b", "Int">>
Loading ==
  <<"Create", "Procedure", "p", "LParen", "@A", "Int", "RParen", "As", "Begin", "LF", "Declare", "@b", "Int", "LF",
    "Insert", "Into", "t", "Values", "LParen", "@a", "RParen", "LF", "End">>
Definers == {Defines, TempTable, View, Unique, Procedure, Proc, Loading, Trigger, Unfinished, Declares}

Stars == {<<"Select", "Star", "From", "T">>, <<"Select", "a", "Comma", "Star", "From", "t", "b">>,
          <<"Select", "Star", "From", "LParen", "Select", "Star", "From", "t", "RParen", "a">>,
          <<"Select", "a", "Star", "Number">>}
Uses1 == {<<"Select", "A", "From", "t", "As", "b", "Join", "T", "On", "b", "Dot", "c", "Eq", "t", "Dot">>,
          <<"Update", "t", "Set", "a", "Eq", "@a">>, <<"Delete", "From", "#A">>,
          <<"Exec", "p", "@A", "Comma", "@b">>,
          <<"Select", "f", "LParen", "f", "LParen", "a", "RParen", "Comma", "Number", "RParen">>}
Inserts == {<<"Insert", "Into", "t", "Values", "LParen", "Number", "RParen">>,
            <<"Insert", "Into", "T", "Default", "Values">>, <<"Insert", "Into", "t">>,
            <<"Insert", "Into", "t", "Select", "Star", "From", "#a">>}
Blocks == {<<"Begin", "LF", "Insert", "Into", "t", "Values", "LParen", "Number", "RParen", "LF", "End">>,
           <<"If", "Number", "Eq", "Number", "LF", "Begin", "LF", "Select", "Case", "When", "a", "Eq", "Number",
             "Then", "Number", "End", "LF", "End">>,
           <<"If", "a", "Eq", "Number", "Begin", "LF", "Break", "LF", "End", "LF", "Else", "Begin", "LF",
             "Begin", "LF", "Declare", "@A", "Int", "LF", "End", "LF", "End">>,
           <<"While", "Number", "Eq", "Number", "LF", "Begin", "LF", "Break", "LF", "End">>,
           <<"Begin", "Try", "LF", "Select", "a", "LF", "End", "Try", "LF", "Begin", "Catch", "LF", "Begin", "LF",
             "Return", "LF", "End", "LF", "End", "Catch">>,
           <<"Begin", "LF", "Select">>, <<"Begin", "LF", "Tran", "LF", "End">>}
Marks == {<<"--", "a", "LF">>, <<"/*", "LF", "Select", "*/">>, <<"Colon", "r", "a", "Slash", "b", "LF">>, <<"Go">>}

Bodies == Stars \cup Uses1 \cup Inserts \cup Blocks \cup Marks
(* Two statements on lines of their own, or ended by a semicolon.          *)
Alone == {[u \in {"main"} |-> {x \o y}] :
            <<x, y>> \in ({x \o LF : x \in Definers \cup Marks} \X Bodies)
                         \cup ({x \o <<"Semicolon">> : x \in Uses1 \cup Inserts} \X (Definers \cup Inserts \cup Blocks))
                         \cup ({x \o LF : x \in Blocks} \X (Stars \cup Marks))}
Beside ==
  {[u \in {"main", "lib"} |-> IF u = "main" THEN {x \o <<"Semicolon", "LF">>} ELSE {Defines, Proc \o LF}] :
     x \in {Trigger, View, Procedure} \cup Uses1 \cup Inserts}
MCSessions == Alone \cup Beside
=============================================================================
