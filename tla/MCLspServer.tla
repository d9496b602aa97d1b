---------------------------- MODULE MCLspServer ----------------------------
(* Small instances of LspServer for TLC: two texts, t0 the empty one, and  *)
(* the edits of them.                                                      *)
EXTENDS LspServer, TLC

CONSTANTS t0, t1

(* An edit that changes every text: two of them applied to the same base   *)
(* are told from two applied one after the other.                          *)
Toggle == (t0 :> t1) @@ (t1 :> t0)

(* Typing and undoing it in one notification: the text does not change.    *)
TypeAndUndo == [t \in Texts |-> t]

ChangingEdits == {Toggle}
AllEdits == {Toggle, TypeAndUndo}
NeutralEdits == {TypeAndUndo}

=============================================================================
