---------------------------- MODULE SymbolIndex ----------------------------
(***************************************************************************)
(* What the cross-file symbol index promises: every document contributes a *)
(* set of symbols, replaced as a whole when the document is analysed again *)
(* and dropped when it is closed, and a lookup finds exactly the           *)
(* contributed symbols whose name matches, letter case aside.  LspServer   *)
(* uses the index in this form (its variable syms).                        *)
(***************************************************************************)
CONSTANTS
  Uris,    \* documents
  Names,   \* symbol names as the source writes them
  Key,     \* the upper-case form of each name
  Kinds,   \* table, procedure, view, index, trigger, variable
  Sources  \* Open, Live, Background

Keys == {Key[n] : n \in Names}

VARIABLE contrib  \* what each document contributes

Entry == [name : Names, kind : Kinds, uri : Uris, source : Sources]

(* A symbol table: one map per kind, so a kind has one name per key.       *)
SymbolTables ==
  {T \in SUBSET (Names \X Kinds) :
     \A s, t \in T : Key[s[1]] = Key[t[1]] /\ s[2] = t[2] => s = t}

(* The entries a document's symbol table becomes.                          *)
EntriesOf(u, T, src) ==
  {[name |-> s[1], kind |-> s[2], uri |-> u, source |-> src] : s \in T}

Init == contrib = [u \in Uris |-> {}]

Upsert(u, T, src) == contrib' = [contrib EXCEPT ![u] = EntriesOf(u, T, src)]

Close(u) == contrib' = [contrib EXCEPT ![u] = {}]

Next ==
  \E u \in Uris :
    \/ \E T \in SymbolTables, src \in Sources : Upsert(u, T, src)
    \/ Close(u)

Spec == Init /\ [][Next]_contrib

Lookup(k) == {e \in UNION {contrib[u] : u \in Uris} : Key[e.name] = k}

=============================================================================
