------------------------- MODULE SymbolStoreProofs -------------------------
(***************************************************************************)
(* Theorems about SymbolStore, for any documents, names and kinds.         *)
(*                                                                         *)
(* The argument: the two maps are functions of the set A of entries that   *)
(* are in the store, by_name its grouping by key and by_uri its grouping   *)
(* by document.  close() takes the entries of a document out of A, and the *)
(* loop of upsert() adds entries to A.                                     *)
(***************************************************************************)
EXTENDS SymbolStore, TLAPS

(* What the maps are for a set A of entries.                               *)
KeysOf(A) == {Key[e.name] : e \in A}

Under(A, k) == {e \in A : Key[e.name] = k}

ByName(A) == [k \in KeysOf(A) |-> Under(A, k)]

EntriesIn(A, u) == {e \in A : e.uri = u}

UrisOf(A) == {e.uri : e \in A}

ByUri(A) == [u \in UrisOf(A) |-> KeysOf(EntriesIn(A, u))]

(* Maps n and us hold the entries A and nothing else.                      *)
Grouped(n, us, A) ==
  /\ A \subseteq Entry
  /\ n = ByName(A)
  /\ us = ByUri(A)

(* The inductive invariant.                                                *)
Inv == Grouped(by_name, by_uri, AllEntries)

-----------------------------------------------------------------------------
(* What is grouped is what the maps hold.                                  *)
LEMMA GroupedEntries ==
  ASSUME NEW n, NEW us, NEW A, Grouped(n, us, A)
  PROVE  /\ DOMAIN n = KeysOf(A)
         /\ \A k \in DOMAIN n : n[k] = Under(A, k)
         /\ UNION {n[k] : k \in DOMAIN n} = A
         /\ DOMAIN us = UrisOf(A)
         /\ \A u \in DOMAIN us : us[u] = KeysOf(EntriesIn(A, u))
<1>1. DOMAIN n = KeysOf(A) /\ \A k \in DOMAIN n : n[k] = Under(A, k)
  BY DEF Grouped, ByName
<1>2. UNION {n[k] : k \in DOMAIN n} \subseteq A
  BY <1>1 DEF Under
<1>3. ASSUME NEW e \in A
      PROVE  e \in UNION {n[k] : k \in DOMAIN n}
  <2>1. Key[e.name] \in DOMAIN n /\ e \in n[Key[e.name]]
    BY <1>1 DEF KeysOf, Under
  <2> QED
    BY <2>1
<1>4. DOMAIN us = UrisOf(A) /\ \A u \in DOMAIN us : us[u] = KeysOf(EntriesIn(A, u))
  BY DEF Grouped, ByUri
<1> QED
  BY <1>1, <1>2, <1>3, <1>4

(* close() leaves the entries of the other documents, grouped.             *)
LEMMA CloseGroups ==
  ASSUME NEW n, NEW us, NEW A, Grouped(n, us, A), NEW u \in Uris
  PROVE  Grouped(NamesAfterClose(n, us, u), UrisAfterClose(us, u), {e \in A : e.uri # u})
<1> DEFINE B == {e \in A : e.uri # u}
           listed == IF u \in DOMAIN us THEN us[u] ELSE {}
           gone == {k \in listed \cap DOMAIN n : Retained(n, k, u) = {}}
           closed == NamesAfterClose(n, us, u)
<1>0. /\ DOMAIN n = KeysOf(A)
      /\ \A k \in DOMAIN n : n[k] = Under(A, k)
      /\ DOMAIN us = UrisOf(A)
      /\ \A v \in DOMAIN us : us[v] = KeysOf(EntriesIn(A, v))
  BY GroupedEntries
<1>1. ASSUME NEW k \in DOMAIN n
      PROVE  Retained(n, k, u) = Under(B, k)
  BY <1>0 DEF Retained, Under
<1>2. listed = KeysOf(EntriesIn(A, u))
  <2>1. CASE u \in DOMAIN us
    BY <2>1, <1>0
  <2>2. CASE u \notin DOMAIN us
    <3>1. EntriesIn(A, u) = {}
      BY <2>2, <1>0 DEF EntriesIn, UrisOf
    <3> QED
      BY <2>2, <3>1 DEF KeysOf
  <2> QED
    BY <2>1, <2>2
<1>3. ASSUME NEW k \in DOMAIN n, k \notin listed
      PROVE  n[k] = Retained(n, k, u)
  <2>1. ASSUME NEW e \in n[k]
        PROVE  e.uri # u
    <3>1. e \in A /\ Key[e.name] = k
      BY <1>0, <1>3, <2>1 DEF Under
    <3>2. k \notin KeysOf(EntriesIn(A, u))
      BY <1>2, <1>3
    <3> QED
      BY <3>1, <3>2 DEF KeysOf, EntriesIn
  <2> QED
    BY <2>1 DEF Retained
<1>4. DOMAIN closed = DOMAIN n \ gone /\ \A k \in DOMAIN closed : closed[k] = Retained(n, k, u)
  BY <1>3 DEF NamesAfterClose
<1>5. DOMAIN n \ gone = KeysOf(B)
  <2>1. ASSUME NEW k \in DOMAIN n \ gone
        PROVE  k \in KeysOf(B)
    <3>1. Retained(n, k, u) # {}
      <4>1. CASE k \in listed
        BY <4>1
      <4>2. CASE k \notin listed
        <5>1. n[k] # {}
          BY <1>0 DEF KeysOf, Under
        <5> QED
          BY <4>2, <5>1, <1>3
      <4> QED
        BY <4>1, <4>2
    <3> QED
      BY <3>1, <1>1 DEF KeysOf, Under
  <2>2. ASSUME NEW e \in B
        PROVE  Key[e.name] \in DOMAIN n \ gone
    <3>1. Key[e.name] \in DOMAIN n
      BY <1>0 DEF KeysOf
    <3>2. Retained(n, Key[e.name], u) # {}
      BY <1>1, <3>1 DEF Under
    <3> QED
      BY <3>1, <3>2
  <2> QED
    BY <2>1, <2>2 DEF KeysOf
<1>6. closed = ByName(B)
  <2>1. closed = [k \in DOMAIN closed |-> closed[k]]
    BY DEF NamesAfterClose
  <2> QED
    BY <2>1, <1>1, <1>4, <1>5 DEF ByName
<1>7. UrisAfterClose(us, u) = ByUri(B)
  <2>1. DOMAIN us \ {u} = UrisOf(B)
    BY <1>0 DEF UrisOf
  <2>2. \A v \in DOMAIN us \ {u} : us[v] = KeysOf(EntriesIn(B, v))
    <3>1. \A v \in DOMAIN us \ {u} : EntriesIn(B, v) = EntriesIn(A, v)
      BY DEF EntriesIn
    <3> QED
      BY <3>1, <1>0
  <2> QED
    BY <2>1, <2>2 DEF UrisAfterClose, ByUri
<1>8. B \subseteq Entry
  BY DEF Grouped
<1> QED
  BY <1>6, <1>7, <1>8 DEF Grouped

(* The loop of upsert() adds entries of a document that has none left.     *)
LEMMA InsertGroups ==
  ASSUME NEW n, NEW us, NEW B, Grouped(n, us, B), NEW u \in Uris,
         NEW E \in SUBSET Entry, \A e \in E : e.uri = u, \A e \in B : e.uri # u
  PROVE  Grouped(NamesAfterInsert(n, E), UrisAfterInsert(us, u, E), B \cup E)
<1> DEFINE A == B \cup E
           inserted == NamesAfterInsert(n, E)
<1>0. /\ DOMAIN n = KeysOf(B)
      /\ \A k \in DOMAIN n : n[k] = Under(B, k)
      /\ DOMAIN us = UrisOf(B)
      /\ \A v \in DOMAIN us : us[v] = KeysOf(EntriesIn(B, v))
  BY GroupedEntries
<1>1. DOMAIN inserted = KeysOf(A)
  BY <1>0 DEF NamesAfterInsert, KeysOf
<1>2. ASSUME NEW k \in KeysOf(A)
      PROVE  inserted[k] = Under(A, k)
  <2>1. k \in DOMAIN n \cup {Key[e.name] : e \in E}
    BY <1>1 DEF NamesAfterInsert
  <2>2. inserted[k] = (IF k \in DOMAIN n THEN n[k] ELSE {}) \cup {e \in E : Key[e.name] = k}
    BY <2>1 DEF NamesAfterInsert
  <2>3. (IF k \in DOMAIN n THEN n[k] ELSE {}) = Under(B, k)
    <3>1. CASE k \in DOMAIN n
      BY <1>0, <3>1
    <3>2. CASE k \notin DOMAIN n
      BY <1>0, <3>2 DEF KeysOf, Under
    <3> QED
      BY <3>1, <3>2
  <2> QED
    BY <2>2, <2>3 DEF Under
<1>3. inserted = ByName(A)
  <2>1. inserted = [k \in DOMAIN inserted |-> inserted[k]]
    BY DEF NamesAfterInsert
  <2> QED
    BY <2>1, <1>1, <1>2 DEF ByName
<1>4. UrisAfterInsert(us, u, E) = ByUri(A)
  <2>1. CASE E = {}
    BY <2>1 DEF UrisAfterInsert, Grouped
  <2>2. CASE E # {}
    <3>1. DOMAIN us \cup {u} = UrisOf(A)
      BY <2>2, <1>0 DEF UrisOf
    <3>2. \A v \in DOMAIN us \cup {u} : v # u => us[v] = KeysOf(EntriesIn(A, v))
      <4>1. \A v : v # u => EntriesIn(A, v) = EntriesIn(B, v)
        BY DEF EntriesIn
      <4> QED
        BY <4>1, <1>0
    <3>3. {Key[e.name] : e \in E} = KeysOf(EntriesIn(A, u))
      BY DEF KeysOf, EntriesIn
    <3>4. UrisAfterInsert(us, u, E) =
            [v \in UrisOf(A) |-> KeysOf(EntriesIn(A, v))]
      BY <2>2, <3>1, <3>2, <3>3 DEF UrisAfterInsert
    <3> QED
      BY <3>4 DEF ByUri
  <2> QED
    BY <2>1, <2>2
<1>5. A \subseteq Entry
  BY DEF Grouped
<1> QED
  BY <1>3, <1>4, <1>5 DEF Grouped

-----------------------------------------------------------------------------
(* The invariant.                                                          *)

LEMMA EntriesOfTable ==
  ASSUME NEW u \in Uris, NEW T \in SymbolTables, NEW src \in Sources
  PROVE  /\ Index!EntriesOf(u, T, src) \in SUBSET Entry
         /\ \A e \in Index!EntriesOf(u, T, src) : e.uri = u
BY DEF Index!EntriesOf, SymbolTables, Index!SymbolTables, Entry, Index!Entry

(* What the maps hold after a step, by the operation.                      *)
LEMMA CloseEntries ==
  ASSUME Inv, NEW u \in Uris, Close(u)
  PROVE  /\ Grouped(by_name', by_uri', AllEntries')
         /\ AllEntries' = {e \in AllEntries : e.uri # u}
<1> DEFINE B == {e \in AllEntries : e.uri # u}
<1>1. Grouped(by_name', by_uri', B)
  BY CloseGroups DEF Inv, Close
<1>2. AllEntries' = B
  BY <1>1, GroupedEntries DEF AllEntries
<1> QED
  BY <1>1, <1>2

LEMMA UpsertEntries ==
  ASSUME Inv, NEW u \in Uris, NEW T \in SymbolTables, NEW src \in Sources, Upsert(u, T, src)
  PROVE  /\ Grouped(by_name', by_uri', AllEntries')
         /\ AllEntries' = {e \in AllEntries : e.uri # u} \cup Index!EntriesOf(u, T, src)
<1> DEFINE B == {e \in AllEntries : e.uri # u}
           E == Index!EntriesOf(u, T, src)
           n == NamesAfterClose(by_name, by_uri, u)
           us == UrisAfterClose(by_uri, u)
<1>1. Grouped(n, us, B)
  BY CloseGroups DEF Inv
<1>2. E \in SUBSET Entry /\ \A e \in E : e.uri = u
  BY EntriesOfTable
<1>3. by_name' = NamesAfterInsert(n, E) /\ by_uri' = UrisAfterInsert(us, u, E)
  BY DEF Upsert
<1>4. \A e \in B : e.uri # u
  OBVIOUS
<1> HIDE DEF B, E, n, us
<1>5. Grouped(by_name', by_uri', B \cup E)
  BY <1>1, <1>2, <1>3, <1>4, InsertGroups
<1>6. AllEntries' = B \cup E
  BY <1>5, GroupedEntries DEF AllEntries
<1> QED
  BY <1>5, <1>6 DEF B, E

LEMMA InvInitial == Init => Inv
<1> SUFFICES ASSUME Init
             PROVE  Inv
  OBVIOUS
<1>1. AllEntries = {}
  BY DEF Init, AllEntries
<1>2. by_name = ByName({}) /\ by_uri = ByUri({})
  BY DEF Init, ByName, ByUri, KeysOf, UrisOf
<1> QED
  BY <1>1, <1>2 DEF Inv, Grouped

LEMMA InvStep == Inv /\ [Next]_vars => Inv'
<1> SUFFICES ASSUME Inv, [Next]_vars
             PROVE  Inv'
  OBVIOUS
<1>1. CASE UNCHANGED vars
  BY <1>1 DEF vars, Inv, AllEntries
<1>2. ASSUME NEW u \in Uris, Close(u)
      PROVE  Inv'
  BY <1>2, CloseEntries DEF Inv
<1>3. ASSUME NEW u \in Uris, NEW T \in SymbolTables, NEW src \in Sources, Upsert(u, T, src)
      PROVE  Inv'
  BY <1>3, UpsertEntries DEF Inv
<1> QED
  BY <1>1, <1>2, <1>3 DEF Next

LEMMA Invariance == Spec => []Inv
BY InvInitial, InvStep, PTL DEF Spec

-----------------------------------------------------------------------------
(* The theorems.                                                           *)

LEMMA KeysOfEntries ==
  ASSUME NEW A \in SUBSET Entry
  PROVE  KeysOf(A) \subseteq Keys /\ UrisOf(A) \subseteq Uris
BY DEF KeysOf, Keys, Index!Keys, Entry, Index!Entry, UrisOf

LEMMA InvType == Inv => TypeOK
<1> SUFFICES ASSUME Inv
             PROVE  TypeOK
  OBVIOUS
<1> DEFINE A == AllEntries
<1>1. A \in SUBSET Entry /\ Grouped(by_name, by_uri, A)
  BY DEF Inv, Grouped
<1> HIDE DEF A
<1>0. /\ DOMAIN by_name = KeysOf(A)
      /\ \A k \in DOMAIN by_name : by_name[k] = Under(A, k)
      /\ DOMAIN by_uri = UrisOf(A)
      /\ \A u \in DOMAIN by_uri : by_uri[u] = KeysOf(EntriesIn(A, u))
  BY <1>1, GroupedEntries
<1>2. DOMAIN by_name \subseteq Keys /\ DOMAIN by_uri \subseteq Uris
  BY <1>0, <1>1, KeysOfEntries
<1>3. by_name \in [DOMAIN by_name -> SUBSET Entry]
  <2>1. by_name = [k \in DOMAIN by_name |-> by_name[k]]
    BY <1>1 DEF Grouped, ByName
  <2>2. \A k \in DOMAIN by_name : by_name[k] \in SUBSET Entry
    BY <1>0, <1>1 DEF Under
  <2> QED
    BY <2>1, <2>2
<1>4. by_uri \in [DOMAIN by_uri -> SUBSET Keys]
  <2>1. by_uri = [u \in DOMAIN by_uri |-> by_uri[u]]
    BY <1>1 DEF Grouped, ByUri
  <2>2. \A u : EntriesIn(A, u) \in SUBSET Entry
    BY <1>1 DEF EntriesIn
  <2>3. \A u \in DOMAIN by_uri : by_uri[u] \in SUBSET Keys
    BY <1>0, <2>2, KeysOfEntries
  <2> QED
    BY <2>1, <2>3
<1> QED
  BY <1>2, <1>3, <1>4 DEF TypeOK

(* The maps keep their types.                                              *)
THEOREM TypeCorrect == Spec => []TypeOK
BY Invariance, InvType, PTL

LEMMA InvAgree == Inv => MapsAgree
<1> SUFFICES ASSUME Inv
             PROVE  MapsAgree
  OBVIOUS
<1>1. Grouped(by_name, by_uri, AllEntries)
  BY DEF Inv
<1>0. /\ DOMAIN by_name = KeysOf(AllEntries)
      /\ \A k \in DOMAIN by_name : by_name[k] = Under(AllEntries, k)
      /\ DOMAIN by_uri = UrisOf(AllEntries)
      /\ \A u \in DOMAIN by_uri : by_uri[u] = KeysOf(EntriesIn(AllEntries, u))
  BY <1>1, GroupedEntries
<1>2. \A u \in Uris : Contribution[u] = EntriesIn(AllEntries, u)
  BY DEF Contribution, EntriesIn
<1>3. DOMAIN by_uri \subseteq Uris
  BY InvType DEF TypeOK
<1>4. \A k \in DOMAIN by_name : by_name[k] # {} /\ \A e \in by_name[k] : Key[e.name] = k
  BY <1>0 DEF KeysOf, Under
<1>5. \A u \in DOMAIN by_uri : by_uri[u] = {Key[e.name] : e \in Contribution[u]}
  BY <1>0, <1>2, <1>3 DEF KeysOf
<1>6. ASSUME NEW u \in DOMAIN by_uri
      PROVE  by_uri[u] # {}
  <2>1. PICK e \in AllEntries : e.uri = u
    BY <1>0 DEF UrisOf
  <2>2. Key[e.name] \in KeysOf(EntriesIn(AllEntries, u))
    BY <2>1 DEF KeysOf, EntriesIn
  <2> QED
    BY <1>0, <2>2
<1>7. \A u \in Uris \ DOMAIN by_uri : Contribution[u] = {}
  BY <1>0, <1>2 DEF EntriesIn, UrisOf
<1> QED
  BY <1>4, <1>5, <1>6, <1>7 DEF MapsAgree

(* The two maps agree after any sequence of operations.                    *)
THEOREM AgreeCorrect == Spec => []MapsAgree
BY Invariance, InvAgree, PTL

LEMMA InvLookup == Inv => LookupExact
<1> SUFFICES ASSUME Inv, NEW k \in Keys
             PROVE  lookup(k) = Index!Lookup(k)
  BY DEF LookupExact
<1>1. Grouped(by_name, by_uri, AllEntries)
  BY DEF Inv
<1>2. UNION {Contribution[u] : u \in Uris} = AllEntries
  BY DEF Inv, Grouped, Contribution, Entry, Index!Entry
<1>3. DOMAIN by_name = KeysOf(AllEntries)
      /\ \A j \in DOMAIN by_name : by_name[j] = Under(AllEntries, j)
  BY <1>1, GroupedEntries
<1>4. lookup(k) = {e \in AllEntries : Key[e.name] = k}
  <2>1. CASE k \in DOMAIN by_name
    BY <1>3, <2>1 DEF lookup, Under
  <2>2. CASE k \notin DOMAIN by_name
    BY <1>3, <2>2 DEF lookup, KeysOf
  <2> QED
    BY <2>1, <2>2
<1> QED
  BY <1>2, <1>4 DEF Index!Lookup

(* A lookup finds every contributed symbol of the name and no other.       *)
THEOREM LookupCorrect == Spec => []LookupExact
BY Invariance, InvLookup, PTL

-----------------------------------------------------------------------------
(* Refinement.                                                             *)

LEMMA IndexInitial == Init => Index!Init
BY DEF Init, Index!Init, Contribution, AllEntries

LEMMA IndexStep == Inv /\ [Next]_vars => [Index!Next]_Contribution
<1> SUFFICES ASSUME Inv, [Next]_vars
             PROVE  [Index!Next]_Contribution
  OBVIOUS
<1>1. CASE UNCHANGED vars
  BY <1>1 DEF vars, Contribution, AllEntries
<1>2. ASSUME NEW u \in Uris, Close(u)
      PROVE  Index!Next
  <2>1. AllEntries' = {e \in AllEntries : e.uri # u}
    BY <1>2, CloseEntries
  <2>2. Contribution' = [Contribution EXCEPT ![u] = {}]
    BY <2>1 DEF Contribution
  <2>3. Index!Close(u)
    BY <2>2 DEF Index!Close
  <2> QED
    BY <2>3 DEF Index!Next
<1>3. ASSUME NEW u \in Uris, NEW T \in SymbolTables, NEW src \in Sources, Upsert(u, T, src)
      PROVE  Index!Next
  <2> DEFINE E == Index!EntriesOf(u, T, src)
  <2>1. AllEntries' = {e \in AllEntries : e.uri # u} \cup E
    BY <1>3, UpsertEntries
  <2>2. \A e \in E : e.uri = u
    BY EntriesOfTable
  <2> HIDE DEF E
  <2>3. Contribution' = [Contribution EXCEPT ![u] = E]
    BY <2>1, <2>2 DEF Contribution
  <2>4. Index!Upsert(u, T, src)
    BY <2>3 DEF Index!Upsert, E
  <2> QED
    BY <2>4 DEF Index!Next, SymbolTables
<1> QED
  BY <1>1, <1>2, <1>3 DEF Next

(* The two maps of SymbolStore implement the index of contributions.       *)
THEOREM Refinement == Spec => IndexSpec
<1>1. Inv /\ [Next]_vars => [Index!Next]_Contribution
  BY IndexStep
<1> QED
  BY <1>1, IndexInitial, Invariance, PTL DEF Spec, IndexSpec, Index!Spec

=============================================================================
