---------------------------- MODULE DocumentCopy ----------------------------
(***************************************************************************)
(* A document that is open in an editor, and the server's copy of it.  The *)
(* editor sends what it changes, the server makes the same change to its   *)
(* copy.  A step is one turn of the loop of did_change over the changes of *)
(* a notification, each of which refers to the text the one before left.   *)
(***************************************************************************)
EXTENDS Characters

CONSTANTS
  Documents,     \* texts to open, and how often the editor changes each
  Replacements   \* what the editor puts in place of a part of its text

ASSUME DocumentsAssumption ==
  /\ \A d \in Documents : d.text \in Seq(Chars) /\ d.changes \in Nat
  /\ Replacements \subseteq Seq(Chars)

------------------------------------------------------------------------------
VARIABLES
  editor,   \* the editor's text
  server,   \* the server's
  common,   \* every position sent since the whole text was sent meant the same to both
  left      \* the changes still to come

copyVars == <<editor, server, common, left>>

------------------------------------------------------------------------------
(* The editor's side: lines end at LF, CR LF or CR, characters of a line   *)
(* are counted whatever their bytes.                                       *)
EditorLineStarts(t) ==
  {1} \cup {i + 1 : i \in {k \in DOMAIN t : \/ t[k] = "LF"
                                            \/ t[k] = "CR" /\ ~(k < Len(t) /\ t[k + 1] = "LF")}}
EditorIndex(t, p) == Ranked(EditorLineStarts(t), p.line) + p.character
EditorChange(t, change) ==
  IF change.whole THEN change.text
  ELSE SubSeq(t, 1, EditorIndex(t, change.from) - 1) \o change.text
       \o SubSeq(t, EditorIndex(t, change.to), Len(t))

(* The places of a text are before its characters and at its end, each on  *)
(* the line that starts last before it.                                    *)
Place(t, start, i) ==
  [line |-> Cardinality({s \in EditorLineStarts(t) : s < start}), character |-> i - start]
OnLine(t, start, i) == start <= i /\ \A k \in start .. i - 1 : t[k] \notin {"CR", "LF"}
EditorPositions(t) ==
  {Place(t, b[1], b[2]) : b \in {c \in EditorLineStarts(t) \X (1 .. Len(t) + 1) : OnLine(t, c[1], c[2])}}

Origin == [line |-> 0, character |-> 0]
EditorChanges(t) ==
  {[whole |-> TRUE, text |-> r, from |-> Origin, to |-> Origin] : r \in Replacements}
  \cup {[whole |-> FALSE, text |-> r, from |-> b[1], to |-> b[2]] :
           r \in Replacements,
           b \in {c \in EditorPositions(t) \X EditorPositions(t) : EditorIndex(t, c[1]) <= EditorIndex(t, c[2])}}

(* Positions mean the same on both sides: nothing but line feeds, alone or *)
(* after a carriage return, ends lines, and no character before the        *)
(* position in its line has several bytes.                                 *)
SamePlace(t, p) ==
  LET from == Ranked(EditorLineStarts(t), p.line)
  IN /\ \A k \in DOMAIN t : t[k] = "CR" => k < Len(t) /\ t[k + 1] = "LF"
     /\ \A k \in from .. from + p.character - 1 : t[k] # "W"
SameChange(t, change) == SamePlace(t, change.from) /\ SamePlace(t, change.to)

------------------------------------------------------------------------------
(* did_open.                                                               *)
Open(d) == editor = d.text /\ server = d.text /\ common = TRUE /\ left = d.changes
CopyInit == \E d \in Documents : Open(d)

(* did_change.                                                             *)
ChangeText ==
  /\ left > 0 /\ left' = left - 1
  /\ \E change \in EditorChanges(editor) :
       /\ editor' = EditorChange(editor, change)
       /\ server' = ApplyContentChange(server, change)
       /\ common' = (change.whole \/ (common /\ SameChange(editor, change)))

CopySpec == CopyInit /\ [][ChangeText]_copyVars

------------------------------------------------------------------------------
(* The server's copy is the editor's text, however often and wherever it   *)
(* was changed, while all positions meant the same to both; and again once *)
(* the whole text was sent.                                                *)
CopyFollowsEditor == common => server = editor
=============================================================================
