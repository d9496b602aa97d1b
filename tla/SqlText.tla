------------------------------ MODULE SqlText -------------------------------
(***************************************************************************)
(* Text as the emitters write it: a sequence of tokens; quotes around a    *)
(* name are not shown.  A writer that returns Err leaves the token "Error" *)
(* where it stopped, so a text with that token in it is an Err.            *)
(***************************************************************************)
EXTENDS Naturals, SequencesExt

Failed(t) == \E i \in DOMAIN t : t[i] = "Error"

(* What a buffer holds once its writer has stopped.                        *)
Written(t) ==
  IF Failed(t)
  THEN SubSeq(t, 1, (CHOOSE i \in DOMAIN t : t[i] = "Error" /\ \A j \in 1 .. i - 1 : t[j] # "Error") - 1)
  ELSE t
=============================================================================
