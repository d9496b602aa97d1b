--------------------------- MODULE MCSymbolStore ---------------------------
(* Names in two letter cases, two kinds of symbol.                         *)
EXTENDS SymbolStore, TLC

CONSTANTS orders, Orders, items

UpperCase == (orders :> "ORDERS") @@ (Orders :> "ORDERS") @@ (items :> "ITEMS")

=============================================================================
