---------------------------- MODULE SymbolStore ----------------------------
(***************************************************************************)
(* The cross-file symbol index (crates/ase-ls-core/src/symbol_store.rs):   *)
(* a reverse map by_name from upper-case name to the entries that have it, *)
(* and a map by_uri from document to the names it contributes, by which    *)
(* close() finds the entries of a document without scanning by_name.  The  *)
(* two maps must be kept in step by every operation.                       *)
(*                                                                         *)
(* A map is a function whose domain is the set of its keys.  The vectors   *)
(* in the maps are sets here: by_name holds no entry twice (a symbol table *)
(* has one symbol per kind and key), and the keys that by_uri repeats, for *)
(* a name of two kinds, are found gone by close() the second time.         *)
(***************************************************************************)
EXTENDS FiniteSets

CONSTANTS Uris, Names, Key, Kinds, Sources

VARIABLES by_name, by_uri

vars == <<by_name, by_uri>>

(* Every entry of the store, and those a document contributes.             *)
AllEntries == UNION {by_name[k] : k \in DOMAIN by_name}

Contribution == [u \in Uris |-> {e \in AllEntries : e.uri = u}]

Index == INSTANCE SymbolIndex WITH contrib <- Contribution

Keys == Index!Keys
Entry == Index!Entry
SymbolTables == Index!SymbolTables

ASSUME KeyAssumption == Key \in [Names -> Keys]

(* close(): of the names the document contributed, its entries go, and     *)
(* with the last entry of a name goes the name.                            *)
Retained(n, k, u) == {e \in n[k] : e.uri # u}

(* Mutant: an emptied name stays in the map.                                *)
NamesAfterCloseKeepingEmpty(n, us, u) ==
  LET listed == IF u \in DOMAIN us THEN us[u] ELSE {}
  IN [k \in DOMAIN n |-> IF k \in listed THEN Retained(n, k, u) ELSE n[k]]

NamesAfterClose(n, us, u) ==
  LET listed == IF u \in DOMAIN us THEN us[u] ELSE {}
      gone   == {k \in listed \cap DOMAIN n : Retained(n, k, u) = {}}
  IN [k \in DOMAIN n \ gone |-> IF k \in listed THEN Retained(n, k, u) ELSE n[k]]

UrisAfterClose(us, u) == [v \in DOMAIN us \ {u} |-> us[v]]

(* Mutant: a name is filed as the source writes it.                        *)
NamesAfterInsertAsWritten(n, E) ==
  [k \in DOMAIN n \cup {e.name : e \in E} |->
     (IF k \in DOMAIN n THEN n[k] ELSE {}) \cup {e \in E : e.name = k}]

(* Mutant: the entries other documents have under a name are replaced.     *)
NamesAfterInsertReplacing(n, E) ==
  [k \in DOMAIN n \cup {Key[e.name] : e \in E} |->
     IF \E e \in E : Key[e.name] = k THEN {e \in E : Key[e.name] = k} ELSE n[k]]

(* The insertion loop of upsert(), on maps that close() has left.          *)
NamesAfterInsert(n, E) ==
  [k \in DOMAIN n \cup {Key[e.name] : e \in E} |->
     (IF k \in DOMAIN n THEN n[k] ELSE {}) \cup {e \in E : Key[e.name] = k}]

(* Mutant: by_uri lists names as the source writes them.                   *)
UrisAfterInsertAsWritten(us, u, E) ==
  IF E = {} THEN us
  ELSE [v \in DOMAIN us \cup {u} |->
          IF v = u THEN {e.name : e \in E} ELSE us[v]]

UrisAfterInsert(us, u, E) ==
  IF E = {} THEN us
  ELSE [v \in DOMAIN us \cup {u} |->
          IF v = u THEN {Key[e.name] : e \in E} ELSE us[v]]

Init ==
  /\ by_name = [k \in {} |-> {}]
  /\ by_uri = [u \in {} |-> {}]

Upsert(u, T, src) ==
  LET E == Index!EntriesOf(u, T, src)
  IN /\ by_name' = NamesAfterInsert(NamesAfterClose(by_name, by_uri, u), E)
     /\ by_uri' = UrisAfterInsert(UrisAfterClose(by_uri, u), u, E)

Close(u) ==
  /\ by_name' = NamesAfterClose(by_name, by_uri, u)
  /\ by_uri' = UrisAfterClose(by_uri, u)

Next ==
  \E u \in Uris :
    \/ \E T \in SymbolTables, src \in Sources : Upsert(u, T, src)
    \/ Close(u)

Spec == Init /\ [][Next]_vars

lookup(k) == IF k \in DOMAIN by_name THEN by_name[k] ELSE {}

-----------------------------------------------------------------------------
(* Types of the two maps.                                                  *)
TypeOK ==
  /\ DOMAIN by_name \subseteq Keys
  /\ by_name \in [DOMAIN by_name -> SUBSET Entry]
  /\ DOMAIN by_uri \subseteq Uris
  /\ by_uri \in [DOMAIN by_uri -> SUBSET Keys]

(* The maps agree: an entry is filed under its own key, by_uri lists       *)
(* exactly the keys a document has entries under, and neither map keeps a  *)
(* key with nothing in it (len() and is_empty() count keys).               *)
MapsAgree ==
  /\ \A k \in DOMAIN by_name : \A e \in by_name[k] : Key[e.name] = k
  /\ \A u \in DOMAIN by_uri : by_uri[u] = {Key[e.name] : e \in Contribution[u]}
  /\ \A u \in Uris \ DOMAIN by_uri : Contribution[u] = {}
  /\ \A k \in DOMAIN by_name : by_name[k] # {}
  /\ \A u \in DOMAIN by_uri : by_uri[u] # {}

(* lookup() through the reverse map finds what the index promises: every   *)
(* contributed symbol of that name and no other.                           *)
LookupExact == \A k \in Keys : lookup(k) = Index!Lookup(k)

(* The two maps implement the index.                                       *)
IndexSpec == Index!Spec

=============================================================================
