----------------------------- MODULE MCReading -----------------------------
(* Texts of up to three fragments, a long one for the ring, and two changes *)
(* of short texts at every position.                                       *)
EXTENDS Reading

CRLF == <<"CR", "LF">>
Fragments ==
  {<<c>> : c \in {"S", "a", "N", "W", "1", ".", "e", "-", "'", "\"", "]", "@", "!", "=", "?", ";", " ", "LF"}}
  \cup {<<"-", "-">>, <<"/", "*">>, <<"*", "/">>, <<"[", "a">>, <<"0", "x">>, <<"U", "&">>, <<"#", "#">>, CRLF}

Middles == {<<>>, <<" ">>, <<"LF">>, CRLF, <<"a">>, <<"W">>, <<"'">>, <<".">>, <<"/", "*">>, <<"*", "/">>}

Long == <<"(", "a", ")", ",", "S", "<", "=", "1", ";", "TAB", "|", "|", ".", ".", "@", "a", "#", "U">>
Escapes == <<"U", "&", "'", "\\", "+", "0", "0", "0", "0", "0", "0", "a", "'", "'", "'", "a">>
MCTexts ==
  {f \o g \o h : f, h \in Fragments, g \in Middles} \cup {Long, Escapes, <<"-", "-", "CR", "a">>}

Edited == {<<>>, <<"a", "LF", "S">>, <<"W", "a", "LF", "1">>, <<"a", "CR", "LF", "S", " ", "1">>, <<"a", "CR", "S">>}
MCReplacements == {<<>>, <<"a">>, <<"LF">>}

MCDocuments == {[text |-> t, changes |-> 0] : t \in MCTexts} \cup {[text |-> t, changes |-> 2] : t \in Edited}

Kinds ==
  {"Unknown", "Select", "Ident", "QuotedIdent", "String", "NString", "UnicodeString", "Number", "FloatLiteral",
   "HexString", "LocalVar", "GlobalVar", "TempTable", "GlobalTempTable", "["}
  \cup {a \o b : a \in DOMAIN Longer, b \in {"", "=", "<", ">", "|", "."}}

MCInputs == {r.kinds : r \in Readings}

=============================================================================
