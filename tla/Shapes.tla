------------------------------- MODULE Shapes --------------------------------
(***************************************************************************)
(* The fields of the types a tree is built of: a struct, or a variant of   *)
(* an enum, is the sequence of its fields, each with the kinds of node it  *)
(* may hold.                                                               *)
(***************************************************************************)
EXTENDS Naturals, Sequences

Field(kinds) == [of |-> kinds, optional |-> FALSE, many |-> FALSE]
OptionField(kinds) == [Field(kinds) EXCEPT !.optional = TRUE]
VecField(kinds) == [OptionField(kinds) EXCEPT !.many = TRUE]
Unchecked == {}     \* for a token that is taken whatever it is

(* Nodes of these kinds, in this order, fill the fields.                   *)
RECURSIVE Fits(_, _)
Fits(kinds, fields) ==
  IF fields = <<>> THEN kinds = <<>>
  ELSE LET f == fields[1]
       IN \/ f.optional /\ Fits(kinds, Tail(fields))
          \/ /\ kinds # <<>> /\ (f.of = Unchecked \/ kinds[1] \in f.of)
             /\ Fits(Tail(kinds), IF f.many THEN fields ELSE Tail(fields))
===============================================================================
