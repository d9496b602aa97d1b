------------------------- MODULE ParserLoopsProofs -------------------------
(***************************************************************************)
(* Theorems about ParserLoops, for inputs of any length, any limit on      *)
(* errors, and any parse_statement that the loops can depend on.           *)
(***************************************************************************)
EXTENDS ParserLoops, SequenceTheorems, WellFoundedInduction, TLAPS

-----------------------------------------------------------------------------
(* The helpers that move a parser.                                         *)

InInput(s) == IsParser(s) /\ s.pos <= Len(s.inp) + 1

(* t is s further on in its input, and otherwise as it was.                *)
Ahead(s, t) ==
  /\ IsParser(t)
  /\ t.inp = s.inp /\ t.batch = s.batch /\ t.ok = s.ok /\ t.hung = s.hung
  /\ t.errs = s.errs /\ t.vals = s.vals
  /\ t.pos \in s.pos .. Len(s.inp) + 1

LEMMA AheadOf ==
  ASSUME NEW s, InInput(s), NEW p \in s.pos .. Len(s.inp) + 1
  PROVE  Ahead(s, [s EXCEPT !.pos = p]) /\ [s EXCEPT !.pos = p].pos = p
<1>1. p \in Nat
  BY DEF InInput, IsParser
<1> QED
  BY <1>1 DEF InInput, IsParser, Ahead

LEMMA AheadStays ==
  ASSUME NEW s, InInput(s)
  PROVE  Ahead(s, s)
BY DEF InInput, IsParser, Ahead

LEMMA AheadInInput ==
  ASSUME NEW s, NEW t, InInput(s), Ahead(s, t)
  PROVE  InInput(t)
BY DEF InInput, IsParser, Ahead

LEMMA AheadTransitive ==
  ASSUME NEW s, NEW t, NEW u, InInput(s), Ahead(s, t), Ahead(t, u)
  PROVE  Ahead(s, u)
BY DEF InInput, IsParser, Ahead

LEMMA EofIsEof == KindOf("Eof") = "Eof"
BY DEF KindOf, IdentWords, VarWords, TempWords, NumberWords

LEMMA SemicolonKind ==
  ASSUME NEW t
  PROVE  KindOf(t) = "Semicolon" <=> t = "Semicolon"
BY DEF KindOf, IdentWords, VarWords, TempWords, NumberWords

LEMMA ConsumeIs ==
  ASSUME NEW s, InInput(s)
  PROVE  /\ Ahead(s, Consume(s))
         /\ Current(s) = "Eof" => Consume(s) = s
         /\ Current(s) # "Eof" => s.pos <= Len(s.inp) /\ Consume(s).pos = s.pos + 1
<1>1. s.pos \in Nat /\ Len(s.inp) \in Nat /\ s.pos <= Len(s.inp) + 1
  BY DEF InInput, IsParser
<1>2. CASE Current(s) = "Eof"
  BY <1>2, AheadStays DEF Consume
<1>3. CASE Current(s) # "Eof"
  <2>1. s.pos <= Len(s.inp)
    <3>1. CASE ~ (s.pos + 0 <= Len(s.inp))
      BY <3>1, <1>3, EofIsEof DEF Current, TokenAt
    <3> QED
      BY <3>1, <1>1
  <2>2. s.pos + 1 \in s.pos .. Len(s.inp) + 1
    BY <2>1, <1>1
  <2>3. Consume(s) = [s EXCEPT !.pos = s.pos + 1]
    BY <1>3 DEF Consume
  <2> QED
    BY <2>1, <2>2, <2>3, <1>3, AheadOf
<1> QED
  BY <1>2, <1>3

LEMMA SeparatorIs ==
  ASSUME NEW s, InInput(s)
  PROVE  /\ Ahead(s, Separator(s))
         /\ \/ Separator(s) = s
            \/ /\ Separator(s).pos = s.pos + 1
               /\ s.pos <= Len(s.inp) /\ s.inp[s.pos] = "Semicolon"
         /\ s.pos <= Len(s.inp) /\ s.inp[s.pos] = "Semicolon" => Separator(s).pos = s.pos + 1
<1>1. s.pos \in Nat /\ Len(s.inp) \in Nat /\ s.pos <= Len(s.inp) + 1
  BY DEF InInput, IsParser
<1>2. Check(s, {"Semicolon"}) <=> TokenAt(s, 0) = "Semicolon"
  BY SemicolonKind DEF Check, Current
<1>3. TokenAt(s, 0) = "Semicolon" <=> s.pos <= Len(s.inp) /\ s.inp[s.pos] = "Semicolon"
  BY <1>1 DEF TokenAt
<1>4. TokenAt(s, 0) = "Semicolon" => Current(s) # "Eof"
  BY SemicolonKind DEF Current
<1>5. Separator(s) = IF TokenAt(s, 0) = "Semicolon" THEN Consume(s) ELSE s
  BY <1>2 DEF Separator, ConsumeIf
<1> QED
  BY <1>3, <1>4, <1>5, ConsumeIs, AheadStays

(* A set of naturals that is not empty has a least element.                *)
LEMMA LeastElement ==
  ASSUME NEW S \in SUBSET Nat, S # {}
  PROVE  \E m \in S : \A k \in S : m <= k
<1>1. PICK m \in S : \A k \in S : ~ (<<k, m>> \in OpToRel(<, Nat))
  BY NatLessThanWellFounded, WFMin
<1>2. \A k \in S : ~ (k < m)
  BY <1>1 DEF OpToRel
<1> QED
  BY <1>2

LEMMA SynchronizeIs ==
  ASSUME NEW s, InInput(s)
  PROVE  /\ Ahead(s, Synchronize(s))
         /\ s.pos <= Len(s.inp) /\ KindOf(s.inp[s.pos]) \notin StatementStart \cup {"Semicolon"} =>
              Synchronize(s).pos > s.pos
<1> DEFINE Stops == {i \in s.pos .. Len(s.inp) : KindOf(s.inp[i]) \in StatementStart \cup {"Semicolon"}}
           p == IF Stops = {} THEN Len(s.inp) + 1 ELSE CHOOSE i \in Stops : \A j \in Stops : i <= j
<1>1. s.pos \in Nat /\ Len(s.inp) \in Nat /\ s.pos <= Len(s.inp) + 1
  BY DEF InInput, IsParser
<1>2. Stops \in SUBSET Nat
  BY <1>1
<1>3. Stops \subseteq s.pos .. Len(s.inp)
  OBVIOUS
<1>4. s.pos <= Len(s.inp) /\ KindOf(s.inp[s.pos]) \notin StatementStart \cup {"Semicolon"} => s.pos \notin Stops
  OBVIOUS
<1>5. Synchronize(s) = [s EXCEPT !.pos = p]
  BY DEF Synchronize
<1> HIDE DEF Stops
<1>6. Stops # {} => p \in Stops
  BY <1>2, LeastElement
<1>7. Stops = {} => p = Len(s.inp) + 1
  OBVIOUS
<1> HIDE DEF p
<1>8. p \in s.pos .. Len(s.inp) + 1
  <2>1. CASE Stops = {}
    BY <2>1, <1>1, <1>7
  <2>2. CASE Stops # {}
    <3>1. p \in s.pos .. Len(s.inp)
      BY <2>2, <1>3, <1>6
    <3> QED
      BY <3>1, <1>1
  <2> QED
    BY <2>1, <2>2
<1>9. s.pos <= Len(s.inp) /\ p = s.pos => s.pos \in Stops
  BY <1>1, <1>6, <1>7
<1> QED
  BY <1>1, <1>4, <1>5, <1>8, <1>9, AheadOf

-----------------------------------------------------------------------------
(* One turn of a loop.                                                     *)

(* A parser between two turns.                                             *)
Ready(s) == InInput(s) /\ s.ok = TRUE

(* The errors of r are those of s and perhaps more.                        *)
Adds(s, r) == Len(s.errs) <= Len(r.errs) /\ \A k \in DOMAIN s.errs : r.errs[k] = s.errs[k]

(* What a turn starts from: the parser after the statement, its error      *)
(* collected.                                                              *)
Settled(s, r) ==
  IF r.ok THEN r ELSE [r EXCEPT !.ok = TRUE, !.errs = Append(@, r.pos), !.vals = s.vals]

(* A statement of the loops: it returned, or the parser hangs where it was.*)
LEMMA OneStatementIs ==
  ASSUME NEW s, Ready(s), Parsing(s), Dependable(s), NEW r, r = OneStatement(s)
  PROVE  /\ InInput(r) /\ r.inp = s.inp /\ r.batch = s.batch /\ s.pos <= r.pos
         /\ Adds(s, r)
         /\ r.hung => r.ok = TRUE /\ r.errs = s.errs /\ r.vals = s.vals /\ r.pos = s.pos /\ ~s.batch
         /\ r.ok /\ ~r.hung => Builds(s, r)
         /\ ~r.ok /\ r.pos = s.pos => FalseStart(s)
<1> DEFINE q == RunStatement(s)
<1>1. /\ IsParser(q) /\ q.inp = s.inp /\ q.batch = s.batch /\ q.pos \in s.pos .. Len(s.inp) + 1
      /\ Adds(s, q)
      /\ q.hung => ~s.batch
      /\ q.ok /\ ~q.hung => Builds(s, q)
      /\ ~q.ok /\ q.pos = s.pos => FalseStart(s)
  BY DEF Dependable, Adds
<1>2. r = IF q.hung THEN [s EXCEPT !.hung = TRUE] ELSE q
  BY DEF OneStatement, Returned
<1> HIDE DEF q
<1>3. CASE q.hung
  <2>1. r = [s EXCEPT !.hung = TRUE]
    BY <1>2, <1>3
  <2>2. IsParser(s) /\ s.ok = TRUE
    BY DEF Ready, InInput
  <2>3. /\ r.inp = s.inp /\ r.batch = s.batch /\ r.pos = s.pos /\ r.errs = s.errs
        /\ r.vals = s.vals /\ r.ok = TRUE /\ r.hung = TRUE
    BY <2>1, <2>2 DEF IsParser
  <2>4. r \in [inp : Seq(STRING), pos : Nat, batch : BOOLEAN, depth : Nat, xd : Nat,
               ok : BOOLEAN, hung : BOOLEAN, errs : Seq(Nat), vals : {s.vals}]
    BY <2>1, <2>2 DEF IsParser
  <2>5. IsParser(r) /\ r.inp = s.inp /\ r.batch = s.batch /\ r.pos = s.pos /\ r.errs = s.errs
        /\ r.vals = s.vals /\ r.ok = TRUE /\ r.hung = TRUE
    BY <2>2, <2>3, <2>4 DEF IsParser
  <2>6. s.pos \in Nat /\ s.errs \in Seq(Nat) /\ s.pos <= Len(s.inp) + 1
    BY DEF Ready, InInput, IsParser
  <2> QED
    BY <2>5, <2>6, <1>1, <1>3 DEF InInput, Adds
<1>4. CASE ~ q.hung
  <2>1. s.pos \in Nat /\ Len(s.inp) \in Nat
    BY DEF Ready, InInput, IsParser
  <2> QED
    BY <2>1, <1>1, <1>2, <1>4 DEF InInput
<1> QED
  BY <1>3, <1>4

LEMMA SettledIs ==
  ASSUME NEW s, Ready(s), Parsing(s), Dependable(s), NEW r, r = OneStatement(s),
         NEW b, b = Settled(s, r)
  PROVE  /\ Ready(b) /\ b.inp = s.inp /\ b.batch = s.batch /\ b.pos = r.pos
         /\ r.ok => b = r
         /\ ~ r.ok => b.errs = Append(r.errs, r.pos) /\ b.vals = s.vals /\ b.hung = r.hung
         /\ Adds(s, b)
<1>1. InInput(r) /\ r.inp = s.inp /\ r.batch = s.batch /\ Adds(s, r)
  BY OneStatementIs
<1>2. r.ok \in BOOLEAN
  BY <1>1 DEF InInput, IsParser
<1>3. CASE r.ok
  BY <1>1, <1>2, <1>3 DEF Settled, Ready
<1>4. CASE ~ r.ok
  <2>1. b = [r EXCEPT !.ok = TRUE, !.errs = Append(@, r.pos), !.vals = s.vals]
    BY <1>4 DEF Settled
  <2>2. r.errs \in Seq(Nat) /\ r.pos \in Nat /\ s.errs \in Seq(Nat)
    BY <1>1 DEF InInput, IsParser, Ready
  <2>3. Append(r.errs, r.pos) \in Seq(Nat)
    BY <2>2
  <2>4. /\ b.inp = r.inp /\ b.batch = r.batch /\ b.pos = r.pos /\ b.hung = r.hung /\ b.ok = TRUE
        /\ b.errs = Append(r.errs, r.pos) /\ b.vals = s.vals
    BY <2>1, <1>1 DEF InInput, IsParser
  <2>5. b \in [inp : Seq(STRING), pos : Nat, batch : BOOLEAN, depth : Nat, xd : Nat,
               ok : BOOLEAN, hung : BOOLEAN, errs : Seq(Nat), vals : {b.vals}]
    BY <2>1, <2>3, <2>4, <1>1 DEF InInput, IsParser
  <2>6. b.vals \in Seq({b.vals[k] : k \in DOMAIN b.vals})
    BY <2>4 DEF Ready, InInput, IsParser
  <2>7. InInput(b)
    BY <2>4, <2>5, <2>6, <1>1 DEF InInput, IsParser
  <2>8. Adds(s, b)
    <3>1. /\ Len(b.errs) = Len(r.errs) + 1
          /\ \A k \in 1 .. Len(r.errs) : b.errs[k] = r.errs[k]
      BY <2>2, <2>4, AppendProperties
    <3>2. Len(s.errs) \in Nat /\ Len(r.errs) \in Nat /\ DOMAIN s.errs = 1 .. Len(s.errs)
      BY <2>2
    <3>3. Len(s.errs) <= Len(r.errs) /\ \A k \in DOMAIN s.errs : r.errs[k] = s.errs[k]
      BY <1>1 DEF Adds
    <3>4. Len(s.errs) <= Len(b.errs)
      BY <3>1, <3>2, <3>3
    <3>5. ASSUME NEW k \in DOMAIN s.errs PROVE b.errs[k] = s.errs[k]
      <4>1. k \in 1 .. Len(r.errs)
        BY <3>2, <3>3
      <4> QED
        BY <3>1, <3>3, <4>1
    <3> QED
      BY <3>4, <3>5 DEF Adds
  <2> QED
    BY <2>4, <2>7, <2>8, <1>1, <1>4 DEF Ready
<1> QED
  BY <1>3, <1>4

LEMMA CollectIs ==
  ASSUME NEW s, Ready(s), Parsing(s), Dependable(s), NEW r, r = OneStatement(s), ~ r.ok
  PROVE  Collect(s, r) = Synchronize(Settled(s, r))
BY DEF Collect, Settled

LEMMA RecoveryTurnIs ==
  ASSUME NEW s, Ready(s), Parsing(s), Dependable(s), NEW r, r = OneStatement(s),
         NEW b, b = Settled(s, r)
  PROVE  /\ Ahead(b, RecoveryTurn(s))
         /\ r.ok => RecoveryTurn(s) = Separator(r)
<1>1. InInput(b)
  BY SettledIs DEF Ready
<1>2. CASE r.ok
  BY <1>1, <1>2, SettledIs, SeparatorIs DEF RecoveryTurn, Recovered
<1>3. CASE ~ r.ok
  <2> DEFINE c == Synchronize(b)
             k == SkipIfStuck(c)
  <2>1. RecoveryTurn(s) = Separator(k)
    BY <1>3, CollectIs DEF RecoveryTurn, Recovered
  <2>2. Ahead(b, c) /\ InInput(c)
    BY <1>1, SynchronizeIs, AheadInInput
  <2>3. Ahead(c, k)
    BY <2>2, AheadStays, ConsumeIs DEF SkipIfStuck
  <2> HIDE DEF c
  <2>4. Ahead(b, k)
    BY <1>1, <2>2, <2>3, AheadTransitive
  <2> HIDE DEF k
  <2>5. Ahead(k, Separator(k))
    BY <1>1, <2>4, AheadInInput, SeparatorIs
  <2>6. Ahead(b, Separator(k))
    BY <1>1, <2>4, <2>5, AheadTransitive
  <2> QED
    BY <2>1, <2>6, <1>3
<1> QED
  BY <1>2, <1>3

LEMMA ParseTurnIs ==
  ASSUME NEW s, Ready(s), Parsing(s), Dependable(s), NEW r, r = OneStatement(s),
         NEW b, b = Settled(s, r)
  PROVE  \E t : /\ Ahead(b, t) /\ ParseTurn(s) = Capped(t)
                /\ r.ok => t = Separator(r)
                /\ ~ r.ok => t = Separator(Synchronize(b))
<1>1. InInput(b)
  BY SettledIs DEF Ready
<1>2. CASE r.ok
  BY <1>1, <1>2, SettledIs, SeparatorIs DEF ParseTurn
<1>3. CASE ~ r.ok
  <2> DEFINE c == Synchronize(b)
  <2>1. ParseTurn(s) = Capped(Separator(c))
    BY <1>3, CollectIs DEF ParseTurn
  <2>2. Ahead(b, c) /\ InInput(c)
    BY <1>1, SynchronizeIs, AheadInInput
  <2>3. Ahead(b, Separator(c))
    <3> HIDE DEF c
    <3> QED
      BY <1>1, <2>2, SeparatorIs, AheadTransitive
  <2> QED
    BY <2>1, <2>3, <1>3
<1> QED
  BY <1>2, <1>3

(* Keeping MaxErrors of the errors disturbs nothing else.                  *)
LEMMA CappedIs ==
  ASSUME NEW t, InInput(t), NEW u, u = Capped(t)
  PROVE  /\ InInput(u)
         /\ u.inp = t.inp /\ u.batch = t.batch /\ u.pos = t.pos /\ u.ok = t.ok /\ u.hung = t.hung
         /\ u.vals = t.vals
         /\ t.errs = <<>> => u = t
         /\ t.errs # <<>> => u.errs # <<>> /\ u.errs[1] = t.errs[1]
<1>1. t.errs \in Seq(Nat) /\ MaxErrors \in Nat /\ MaxErrors > 0
  BY LoopsAssumption DEF InInput, IsParser
<1>2. CASE Len(t.errs) > MaxErrors
  <2> DEFINE e == SubSeq(t.errs, 1, MaxErrors)
  <2>1. u = [t EXCEPT !.errs = e]
    BY <1>2 DEF Capped
  <2>2. e \in Seq(Nat) /\ Len(e) = MaxErrors /\ e[1] = t.errs[1]
    BY <1>1, <1>2
  <2>3. e # <<>> /\ t.errs # <<>>
    BY <1>1, <1>2, <2>2
  <2> HIDE DEF e
  <2>4. /\ u.inp = t.inp /\ u.batch = t.batch /\ u.pos = t.pos /\ u.ok = t.ok /\ u.hung = t.hung
        /\ u.vals = t.vals /\ u.errs = e
    BY <2>1 DEF InInput, IsParser
  <2>5. u \in [inp : Seq(STRING), pos : Nat, batch : BOOLEAN, depth : Nat, xd : Nat,
               ok : BOOLEAN, hung : BOOLEAN, errs : Seq(Nat), vals : {t.vals}]
    BY <2>1, <2>2 DEF InInput, IsParser
  <2>6. InInput(u)
    BY <2>4, <2>5 DEF InInput, IsParser
  <2> QED
    BY <2>2, <2>3, <2>4, <2>6
<1>3. CASE ~ (Len(t.errs) > MaxErrors)
  BY <1>3 DEF Capped
<1> QED
  BY <1>2, <1>3


(* What a turn of either loop keeps: the first error; and a turn without   *)
(* an error is the same in both.                                           *)
LEMMA TurnKeeps ==
  ASSUME NEW s, Ready(s), Parsing(s), Dependable(s),
         NEW u, u = RecoveryTurn(s), NEW t, t = u \/ t = ParseTurn(s)
  PROVE  /\ Ready(t) /\ t.inp = s.inp /\ t.batch = s.batch
         /\ s.errs # <<>> => t.errs # <<>> /\ t.errs[1] = s.errs[1]
         /\ u.errs = <<>> => t = u
         /\ u.errs # <<>> => t.errs # <<>> /\ t.errs[1] = u.errs[1]
<1> DEFINE r == OneStatement(s)
           b == Settled(s, r)
<1>1. /\ Ready(b) /\ b.inp = s.inp /\ b.batch = s.batch
      /\ ~ r.ok => b.errs = Append(r.errs, r.pos)
      /\ Adds(s, b)
  BY SettledIs
<1>2. Ahead(b, u) /\ (r.ok => u = Separator(r))
  BY RecoveryTurnIs
<1>3. InInput(r)
  BY OneStatementIs
<1>4. PICK v : /\ Ahead(b, v) /\ ParseTurn(s) = Capped(v)
               /\ r.ok => v = Separator(r)
  BY ParseTurnIs
<1> HIDE DEF r, b
<1>5. u.errs = b.errs /\ v.errs = b.errs
  BY <1>2, <1>4 DEF Ahead
<1>6. /\ Ready(u) /\ u.inp = s.inp /\ u.batch = s.batch
      /\ Ready(v) /\ v.inp = s.inp /\ v.batch = s.batch
  BY <1>1, <1>2, <1>4, AheadInInput DEF Ready, Ahead
<1>7. s.errs # <<>> => u.errs # <<>> /\ u.errs[1] = s.errs[1]
  <2>1. s.errs \in Seq(Nat) /\ b.errs \in Seq(Nat)
    BY <1>1 DEF Ready, InInput, IsParser
  <2>2. s.errs # <<>> => 1 \in DOMAIN s.errs /\ Len(s.errs) >= 1
    BY <2>1
  <2> QED
    BY <2>1, <2>2, <1>1, <1>5 DEF Adds
<1>8. u.errs = <<>> => v = u
  <2>1. r.errs \in Seq(Nat)
    BY <1>3 DEF InInput, IsParser
  <2>2. Append(r.errs, r.pos) # <<>>
    BY <2>1
  <2> QED
    BY <2>2, <1>1, <1>2, <1>4, <1>5
<1>9. CASE t = u
  BY <1>6, <1>7, <1>9
<1>10. CASE t = ParseTurn(s)
  <2>1. t = Capped(v) /\ InInput(v)
    BY <1>4, <1>6, <1>10 DEF Ready
  <2>2. /\ InInput(t) /\ t.inp = v.inp /\ t.batch = v.batch /\ t.ok = v.ok
        /\ v.errs = <<>> => t = v
        /\ v.errs # <<>> => t.errs # <<>> /\ t.errs[1] = v.errs[1]
    BY <2>1, CappedIs
  <2> QED
    BY <2>2, <1>5, <1>6, <1>7, <1>8 DEF Ready
<1> QED
  BY <1>9, <1>10

-----------------------------------------------------------------------------
(* The two parsers agree.  They walk the same path as long as no error is  *)
(* found, each at its own pace; where the path ends in an error, both       *)
(* leave it with that error first.                                         *)

ReadyOn(s) == Ready(s) /\ s.inp = input.tokens /\ s.batch = input.batch
BothReady == ReadyOn(strict) /\ ReadyOn(lenient)

IsPath(f, n) ==
  /\ n \in Nat
  /\ \A i \in 0 .. n : f[i].errs = <<>>
  /\ \A i \in 0 .. n - 1 : Parsing(f[i]) /\ f[i + 1] = RecoveryTurn(f[i])
Strayed(s, f, n) ==
  /\ Parsing(f[n]) /\ RecoveryTurn(f[n]).errs # <<>>
  /\ s.errs # <<>> /\ s.errs[1] = RecoveryTurn(f[n]).errs[1]
Follows(s, f, n) == (\E i \in 0 .. n : s = f[i]) \/ Strayed(s, f, n)
OnePath == \E f, n : IsPath(f, n) /\ Follows(strict, f, n) /\ Follows(lenient, f, n)

(* A turn follows the path, or makes it one step longer.                   *)
LEMMA TurnFollows ==
  ASSUME NEW f, NEW n, IsPath(f, n), NEW s, Follows(s, f, n), Ready(s), Parsing(s), Dependable(s),
         NEW t, t = RecoveryTurn(s) \/ t = ParseTurn(s),
         NEW o, Follows(o, f, n)
  PROVE  \E g, m : IsPath(g, m) /\ Follows(t, g, m) /\ Follows(o, g, m)
<1>1. CASE Strayed(s, f, n)
  <2>1. s.errs # <<>> /\ s.errs[1] = RecoveryTurn(f[n]).errs[1]
    BY <1>1 DEF Strayed
  <2>2. t.errs # <<>> /\ t.errs[1] = s.errs[1]
    BY <2>1, TurnKeeps
  <2>3. Follows(t, f, n)
    BY <2>1, <2>2, <1>1 DEF Follows, Strayed
  <2> QED
    BY <2>3
<1>2. CASE \E i \in 0 .. n : s = f[i]
  <2> DEFINE u == RecoveryTurn(s)
  <2>1. /\ u.errs = <<>> => t = u
        /\ u.errs # <<>> => t.errs # <<>> /\ t.errs[1] = u.errs[1]
    BY TurnKeeps
  <2>2. PICK i \in 0 .. n : s = f[i]
    BY <1>2
  <2>3. n \in Nat
    BY DEF IsPath
  <2>4. CASE i < n
    <3>1. i + 1 \in 0 .. n /\ i \in 0 .. n - 1
      BY <2>2, <2>3, <2>4
    <3>2. f[i + 1] = u /\ u.errs = <<>>
      BY <3>1, <2>2 DEF IsPath
    <3>3. Follows(t, f, n)
      BY <3>1, <3>2, <2>1 DEF Follows
    <3> QED
      BY <3>3
  <2>5. CASE i = n /\ u.errs # <<>>
    <3>1. Strayed(t, f, n)
      BY <2>1, <2>2, <2>5 DEF Strayed
    <3> QED
      BY <3>1 DEF Follows
  <2>6. CASE i = n /\ u.errs = <<>>
    <3> DEFINE g == [j \in 0 .. n + 1 |-> IF j <= n THEN f[j] ELSE u]
    <3>1. t = u /\ s = f[n]
      BY <2>1, <2>2, <2>6
    <3>2. g[n + 1] = u /\ \A j \in 0 .. n : g[j] = f[j]
      BY <2>3
    <3>3. n + 1 \in Nat /\ n + 1 \in 0 .. n + 1 /\ n \in 0 .. n /\ \A j \in 0 .. n : j \in 0 .. n + 1
      BY <2>3
    <3> HIDE DEF g, u
    <3>4. \A j \in 0 .. n + 1 : g[j].errs = <<>>
      <4>1. ASSUME NEW j \in 0 .. n + 1 PROVE g[j].errs = <<>>
        <5>1. j = n + 1 \/ j \in 0 .. n
          BY <2>3
        <5> QED
          BY <5>1, <3>2, <2>6 DEF IsPath
      <4> QED
        BY <4>1
    <3>5. \A j \in 0 .. (n + 1) - 1 : Parsing(g[j]) /\ g[j + 1] = RecoveryTurn(g[j])
      <4>1. ASSUME NEW j \in 0 .. (n + 1) - 1 PROVE Parsing(g[j]) /\ g[j + 1] = RecoveryTurn(g[j])
        <5>1. j = n \/ (j \in 0 .. n - 1 /\ j + 1 \in 0 .. n)
          BY <2>3
        <5>2. j \in 0 .. n
          BY <2>3
        <5>3. CASE j = n
          BY <5>3, <3>1, <3>2, <3>3 DEF u
        <5>4. CASE j \in 0 .. n - 1 /\ j + 1 \in 0 .. n
          BY <5>4, <5>2, <3>2 DEF IsPath
        <5> QED
          BY <5>1, <5>3, <5>4
      <4> QED
        BY <4>1
    <3>6. IsPath(g, n + 1)
      BY <3>3, <3>4, <3>5 DEF IsPath
    <3>7. Follows(t, g, n + 1)
      BY <3>1, <3>2, <3>3 DEF Follows
    <3>8. Follows(o, g, n + 1)
      <4>1. ~ Strayed(o, f, n)
        BY <3>1, <2>6 DEF Strayed, u
      <4>2. PICK j \in 0 .. n : o = f[j]
        BY <4>1 DEF Follows
      <4> QED
        BY <4>2, <3>2, <3>3 DEF Follows
    <3> QED
      BY <3>6, <3>7, <3>8
  <2> QED
    BY <2>2, <2>3, <2>4, <2>5, <2>6
<1> QED
  BY <1>1, <1>2 DEF Follows

LEMMA InitReady == Init => BothReady
<1> SUFFICES ASSUME Init PROVE BothReady
  OBVIOUS
<1>1. input.tokens \in Seq(STRING) /\ input.batch \in BOOLEAN
  BY LoopsAssumption DEF Init
<1>2. <<>> \in Seq({<<>>[k] : k \in DOMAIN <<>>})
  OBVIOUS
<1>3. strict = NewParser(input.tokens, input.batch) /\ lenient = strict
  BY DEF Init
<1>4. ReadyOn(strict)
  <2>1. Len(input.tokens) \in Nat
    BY <1>1
  <2> QED
    BY <1>1, <1>2, <1>3, <2>1 DEF NewParser, ReadyOn, Ready, InInput, IsParser
<1> QED
  BY <1>3, <1>4 DEF BothReady

LEMMA NextReady == BothReady /\ StatementsDependable /\ [Next]_vars => BothReady'
<1> SUFFICES ASSUME BothReady, StatementsDependable, [Next]_vars PROVE BothReady'
  OBVIOUS
<1>1. CASE Parse
  <2>1. ReadyOn(strict) /\ Parsing(strict) /\ Dependable(strict) /\ strict' = ParseTurn(strict)
    BY <1>1 DEF Parse, BothReady, StatementsDependable
  <2>2. Ready(strict') /\ strict'.inp = strict.inp /\ strict'.batch = strict.batch
    BY <2>1, TurnKeeps DEF ReadyOn
  <2> QED
    BY <2>1, <2>2, <1>1 DEF Parse, BothReady, ReadyOn
<1>2. CASE ParseWithErrors
  <2>1. ReadyOn(lenient) /\ Parsing(lenient) /\ Dependable(lenient) /\ lenient' = RecoveryTurn(lenient)
    BY <1>2 DEF ParseWithErrors, Recovering, BothReady, StatementsDependable
  <2>2. Ready(lenient') /\ lenient'.inp = lenient.inp /\ lenient'.batch = lenient.batch
    BY <2>1, TurnKeeps DEF ReadyOn
  <2> QED
    BY <2>1, <2>2, <1>2 DEF ParseWithErrors, BothReady, ReadyOn
<1>3. CASE UNCHANGED vars
  BY <1>3 DEF vars, BothReady, ReadyOn
<1> QED
  BY <1>1, <1>2, <1>3 DEF Next

LEMMA InitOnePath == Init => OnePath
<1> SUFFICES ASSUME Init PROVE OnePath
  OBVIOUS
<1> DEFINE f == [i \in {0} |-> strict]
<1>1. f[0] = strict /\ strict.errs = <<>> /\ lenient = strict
  BY DEF Init, NewParser
<1>2. 0 .. 0 = {0} /\ 0 .. 0 - 1 = {} /\ 0 \in Nat /\ 0 \in 0 .. 0
  OBVIOUS
<1> HIDE DEF f
<1>3. IsPath(f, 0) /\ Follows(strict, f, 0) /\ Follows(lenient, f, 0)
  BY <1>1, <1>2 DEF IsPath, Follows
<1> QED
  BY <1>3 DEF OnePath

LEMMA NextOnePath == OnePath /\ BothReady /\ StatementsDependable /\ [Next]_vars => OnePath'
<1> SUFFICES ASSUME OnePath, BothReady, StatementsDependable, [Next]_vars PROVE OnePath'
  OBVIOUS
<1>1. PICK f, n : IsPath(f, n) /\ Follows(strict, f, n) /\ Follows(lenient, f, n)
  BY DEF OnePath
<1>2. CASE Parse
  <2>1. Ready(strict) /\ Parsing(strict) /\ Dependable(strict) /\ strict' = ParseTurn(strict)
        /\ lenient' = lenient
    BY <1>2 DEF Parse, BothReady, ReadyOn, StatementsDependable
  <2>2. \E g, m : IsPath(g, m) /\ Follows(strict', g, m) /\ Follows(lenient, g, m)
    BY <1>1, <2>1, TurnFollows
  <2> QED
    BY <2>1, <2>2 DEF OnePath
<1>3. CASE ParseWithErrors
  <2>1. Ready(lenient) /\ Parsing(lenient) /\ Dependable(lenient) /\ lenient' = RecoveryTurn(lenient)
        /\ strict' = strict
    BY <1>3 DEF ParseWithErrors, Recovering, BothReady, ReadyOn, StatementsDependable
  <2>2. \E g, m : IsPath(g, m) /\ Follows(lenient', g, m) /\ Follows(strict, g, m)
    BY <1>1, <2>1, TurnFollows
  <2> QED
    BY <2>1, <2>2 DEF OnePath
<1>4. CASE UNCHANGED vars
  BY <1>1, <1>4 DEF vars, OnePath
<1> QED
  BY <1>2, <1>3, <1>4 DEF Next

LEMMA OnePathAgrees == OnePath /\ BothReady => Agreement
<1> SUFFICES ASSUME OnePath, BothReady, StrictReturned, LenientReturned
    PROVE  IF lenient.errs = <<>> THEN strict.errs = <<>> /\ strict.vals = lenient.vals
           ELSE strict.errs # <<>> /\ strict.errs[1] = lenient.errs[1]
  BY DEF Agreement
<1>1. PICK f, n : IsPath(f, n) /\ Follows(strict, f, n) /\ Follows(lenient, f, n)
  BY DEF OnePath
<1>2. ~ Parsing(strict)
  BY DEF StrictReturned, Parsing
<1>3. n \in Nat /\ \A i \in 0 .. n : f[i].errs = <<>> /\ (~ Parsing(f[i]) => i = n)
  <2>1. n \in Nat
    BY <1>1 DEF IsPath
  <2>2. \A i \in 0 .. n : i = n \/ i \in 0 .. n - 1
    BY <2>1
  <2> QED
    BY <1>1, <2>1, <2>2 DEF IsPath
<1>4. CASE lenient.errs = <<>>
  <2>1. IsAtEof(lenient)
    BY <1>4, LoopsAssumption DEF LenientReturned
  <2>2. ~ Strayed(lenient, f, n)
    BY <1>4 DEF Strayed
  <2>3. PICK i \in 0 .. n : lenient = f[i]
    BY <1>1, <2>2 DEF Follows
  <2>4. lenient = f[n] /\ ~ Parsing(f[n])
    BY <2>1, <2>3, <1>3 DEF Parsing
  <2>5. ~ Strayed(strict, f, n)
    BY <2>4 DEF Strayed
  <2>6. PICK j \in 0 .. n : strict = f[j]
    BY <1>1, <2>5 DEF Follows
  <2> QED
    BY <2>4, <2>6, <1>2, <1>3, <1>4
<1>5. CASE lenient.errs # <<>>
  <2>1. Strayed(lenient, f, n)
    BY <1>1, <1>3, <1>5 DEF Follows
  <2>2. Parsing(f[n])
    BY <2>1 DEF Strayed
  <2>3. Strayed(strict, f, n)
    BY <1>1, <1>2, <1>3, <2>2 DEF Follows
  <2> QED
    BY <2>1, <2>3, <1>5 DEF Strayed
<1> QED
  BY <1>4, <1>5

(* The two entry points of the parser tell the same story of every input,  *)
(* whatever parse_statement does within what the loops depend on: parse     *)
(* fails exactly when parse_with_errors reports an error, with the first    *)
(* error of it, and otherwise both return the same statements.             *)
THEOREM EntryPointsAgree == Spec /\ []StatementsDependable => []Agreement
<1>1. Init => BothReady /\ OnePath
  BY InitReady, InitOnePath
<1>2. BothReady /\ OnePath /\ StatementsDependable /\ [Next]_vars => (BothReady /\ OnePath)'
  BY NextReady, NextOnePath
<1>3. BothReady /\ OnePath => Agreement
  BY OnePathAgrees
<1> QED
  BY <1>1, <1>2, <1>3, PTL DEF Spec


-----------------------------------------------------------------------------
(* Where parse makes no progress.                                          *)

LEMMA CurrentIs ==
  ASSUME NEW s, InInput(s), s.pos <= Len(s.inp)
  PROVE  Current(s) = KindOf(s.inp[s.pos])
<1>1. s.pos \in Nat
  BY DEF InInput, IsParser
<1>2. s.pos + 0 = s.pos
  BY <1>1
<1> QED
  BY <1>2 DEF Current, TokenAt

(* Recovery that starts where no statement starts moves on, by a semicolon *)
(* at least.                                                               *)
LEMMA RecoveryMovesOn ==
  ASSUME NEW b, InInput(b), b.pos <= Len(b.inp), KindOf(b.inp[b.pos]) \notin StatementStart
  PROVE  Separator(Synchronize(b)).pos > b.pos
<1> DEFINE c == Synchronize(b)
<1>1. /\ Ahead(b, c)
      /\ KindOf(b.inp[b.pos]) # "Semicolon" => c.pos > b.pos
  BY SynchronizeIs
<1>2. InInput(c)
  BY <1>1, AheadInInput
<1> HIDE DEF c
<1> DEFINE d == Separator(c)
<1>3. /\ Ahead(c, d)
      /\ c.pos <= Len(c.inp) /\ c.inp[c.pos] = "Semicolon" => d.pos = c.pos + 1
  BY <1>2, SeparatorIs
<1> HIDE DEF d
<1>4. /\ c.pos \in Nat /\ b.pos \in Nat /\ c.inp = b.inp /\ c.pos >= b.pos /\ Len(b.inp) \in Nat
      /\ d.pos \in Nat /\ d.pos >= c.pos
  BY <1>1, <1>3, <1>2 DEF Ahead, InInput, IsParser
<1>5. CASE c.pos > b.pos
  <2>1. d.pos > b.pos
    BY <1>4, <1>5
  <2> QED
    BY <2>1 DEF c, d
<1>6. CASE c.pos = b.pos
  <2>1. b.inp[b.pos] = "Semicolon"
    BY <1>1, <1>4, <1>6, SemicolonKind
  <2>2. d.pos > b.pos
    BY <2>1, <1>3, <1>4, <1>6
  <2> QED
    BY <2>2 DEF c, d
<1> QED
  BY <1>4, <1>5, <1>6

LEMMA StallsStep ==
  ASSUME BothReady, StatementsDependable, Parse
  PROVE  \/ strict'.pos > strict.pos \/ Current(strict) = "End"
         \/ ~strict.batch /\ (Current(strict) = "Go" \/ strict'.hung)
<1> DEFINE r == OneStatement(strict)
           b == Settled(strict, r)
<1>1. Ready(strict) /\ Parsing(strict) /\ Dependable(strict) /\ strict' = ParseTurn(strict)
  BY DEF Parse, BothReady, ReadyOn, StatementsDependable
<1>2. /\ InInput(r) /\ strict.pos <= r.pos
      /\ r.hung => r.ok = TRUE /\ ~strict.batch
      /\ r.ok /\ ~r.hung => Builds(strict, r)
      /\ ~r.ok /\ r.pos = strict.pos => FalseStart(strict)
  BY <1>1, OneStatementIs
<1>3. /\ Ready(b) /\ b.inp = strict.inp /\ b.pos = r.pos
      /\ r.ok => b = r
      /\ ~ r.ok => b.hung = r.hung
  BY <1>1, SettledIs
<1>4. PICK v : /\ Ahead(b, v) /\ strict' = Capped(v)
               /\ ~ r.ok => v = Separator(Synchronize(b))
  BY <1>1, ParseTurnIs
<1> HIDE DEF r, b
<1>5. InInput(b) /\ InInput(v)
  BY <1>3, <1>4, AheadInInput DEF Ready
<1>6. strict'.pos = v.pos /\ strict'.hung = v.hung
  BY <1>4, <1>5, CappedIs
<1>7. /\ strict.pos \in Nat /\ b.pos \in Nat /\ v.pos \in Nat /\ v.pos >= b.pos /\ v.hung = b.hung
  BY <1>1, <1>4, <1>5 DEF Ready, InInput, IsParser, Ahead
<1>8. CASE r.hung
  BY <1>2, <1>3, <1>6, <1>7, <1>8
<1>9. CASE r.pos > strict.pos
  BY <1>3, <1>6, <1>7, <1>9
<1>10. CASE r.ok /\ ~r.hung
  BY <1>2, <1>9, <1>10 DEF Builds
<1>11. CASE ~ r.ok /\ r.pos = strict.pos
  <2>1. FalseStart(strict)
    BY <1>2, <1>11
  <2>2. CASE Current(strict) \notin StatementStart
    <3>1. strict.pos <= Len(strict.inp)
      BY <1>1, ConsumeIs DEF Parsing, IsAtEof, Ready
    <3>2. KindOf(strict.inp[strict.pos]) \notin StatementStart
      BY <1>1, <2>2, <3>1, CurrentIs DEF Ready
    <3>3. v.pos > b.pos
      BY <1>3, <1>4, <1>5, <1>11, <3>1, <3>2, RecoveryMovesOn
    <3> QED
      BY <3>3, <1>3, <1>6, <1>11
  <2> QED
    BY <2>1, <2>2 DEF FalseStart
<1>12. r.pos = strict.pos \/ r.pos > strict.pos
  BY <1>2, <1>3, <1>7
<1> QED
  BY <1>8, <1>9, <1>10, <1>11, <1>12

(* parse makes no progress only at END, and in SingleStatement mode at GO  *)
(* or where parse_statement itself does not return.                        *)
THEOREM ParseMovesOn == Spec /\ []StatementsDependable => StallsOnlyAtFalseStarts
<1>1. Init => BothReady
  BY InitReady
<1>2. BothReady /\ StatementsDependable /\ [Next]_vars => BothReady'
  BY NextReady
<1>3. BothReady /\ StatementsDependable /\ [Next]_vars
        => [\/ strict' = strict \/ strict'.pos > strict.pos \/ Current(strict) = "End"
            \/ ~strict.batch /\ (Current(strict) = "Go" \/ strict'.hung)]_vars
  BY StallsStep DEF Next, ParseWithErrors, vars
<1> QED
  BY <1>1, <1>2, <1>3, PTL DEF Spec, StallsOnlyAtFalseStarts

-----------------------------------------------------------------------------
(* parse_with_errors returns.                                              *)

(* What every turn of parse_with_errors makes grow: where it is in the     *)
(* input, or how many errors it has.  Neither ever exceeds its limit while *)
(* the loop goes on.                                                       *)
Work(s) == s.pos + Len(s.errs)

LEMMA RecoveryTurnWorks ==
  ASSUME NEW s, Ready(s), Parsing(s), Dependable(s), Len(s.errs) < MaxErrors,
         NEW t, t = RecoveryTurn(s)
  PROVE  \/ t.hung /\ ~ s.batch
         \/ Work(s) < Work(t) /\ Work(s) <= Len(s.inp) + MaxErrors
<1> DEFINE r == OneStatement(s)
           b == Settled(s, r)
<1>1. /\ InInput(r) /\ r.inp = s.inp /\ s.pos <= r.pos /\ Adds(s, r)
      /\ r.hung => r.ok = TRUE /\ ~ s.batch
      /\ r.ok /\ ~r.hung => Builds(s, r)
  BY OneStatementIs
<1>2. /\ Ready(b) /\ b.pos = r.pos
      /\ r.ok => b = r
      /\ ~ r.ok => b.errs = Append(r.errs, r.pos)
  BY SettledIs
<1>3. Ahead(b, t)
  BY RecoveryTurnIs
<1> HIDE DEF r, b
<1>4. /\ s.pos \in Nat /\ r.pos \in Nat /\ t.pos \in Nat /\ r.pos <= t.pos
      /\ t.hung = b.hung /\ t.errs = b.errs
      /\ s.errs \in Seq(Nat) /\ r.errs \in Seq(Nat) /\ Len(s.errs) <= Len(r.errs)
      /\ s.pos <= Len(s.inp) + 1 /\ Len(s.inp) \in Nat
  BY <1>1, <1>2, <1>3 DEF Ready, InInput, IsParser, Ahead, Adds
<1>5. Len(s.errs) \in Nat /\ Len(r.errs) \in Nat /\ Work(s) <= Len(s.inp) + MaxErrors
  <2>1. Len(s.errs) \in Nat /\ Len(r.errs) \in Nat
    BY <1>4
  <2>2. Len(s.errs) + 1 <= MaxErrors
    BY <2>1, LoopsAssumption
  <2> QED
    BY <2>1, <2>2, <1>4, LoopsAssumption DEF Work
<1>6. CASE r.ok /\ r.hung
  BY <1>1, <1>2, <1>4, <1>6
<1>7. CASE r.ok /\ ~ r.hung
  <2>1. s.pos < r.pos
    BY <1>1, <1>7 DEF Builds
  <2>2. t.errs = r.errs
    BY <1>2, <1>4, <1>7
  <2> QED
    BY <2>1, <2>2, <1>4, <1>5 DEF Work
<1>8. CASE ~ r.ok
  <2>1. Len(t.errs) = Len(r.errs) + 1
    BY <1>2, <1>4, <1>8
  <2>2. s.pos <= t.pos
    BY <1>1, <1>4
  <2>3. Len(s.errs) < Len(t.errs) /\ Len(t.errs) \in Nat
    BY <2>1, <1>4, <1>5
  <2> QED
    BY <2>2, <2>3, <1>4, <1>5 DEF Work
<1> QED
  BY <1>6, <1>7, <1>8

(* A turn of parse_with_errors gets on in the input or reports one more    *)
(* error, or a statement does not return, which it always does in batch    *)
(* mode.  The loop stops at the end of the input and at MaxErrors, so that *)
(* it takes no more than Len(input) + MaxErrors turns.                     *)
THEOREM RecoveryGetsOn ==
  Spec /\ []StatementsDependable =>
    [][ParseWithErrors => \/ lenient'.hung /\ ~ lenient.batch
                          \/ /\ Work(lenient) < Work(lenient')
                             /\ Work(lenient) <= Len(input.tokens) + MaxErrors]_vars
<1> DEFINE IInv == BothReady
<1>1. Init => IInv
  BY InitReady
<1>2. IInv /\ StatementsDependable /\ [Next]_vars => IInv'
  BY NextReady
<1>3. IInv /\ StatementsDependable /\ [Next]_vars
        => [ParseWithErrors => \/ lenient'.hung /\ ~ lenient.batch
                               \/ /\ Work(lenient) < Work(lenient')
                                  /\ Work(lenient) <= Len(input.tokens) + MaxErrors]_vars
  BY RecoveryTurnWorks DEF BothReady, ReadyOn, StatementsDependable, ParseWithErrors, Recovering
<1> QED
  BY <1>1, <1>2, <1>3, PTL DEF Spec

-----------------------------------------------------------------------------
(* What parse_with_errors recovers covers the input, but for semicolons and *)
(* places where an error was reported.                                     *)

Accounted(m, a, b) ==
  \/ b = a + 1
  \/ b = a + 2 /\ m.inp[a + 1] = "Semicolon"
  \/ \E e \in DOMAIN m.errs : a < m.errs[e] /\ m.errs[e] <= b

EndBefore(m, j) == IF j = 1 THEN 0 ELSE m.vals[j - 1].to

(* The statements of m stand in order, and every gap is accounted for; the *)
(* last one is the gap before the parser's position.                       *)
InOrder(m) ==
  /\ \A i \in 1 .. Len(m.vals) :
       m.vals[i].from \in Nat \ {0} /\ m.vals[i].to \in Nat /\ m.vals[i].from <= m.vals[i].to
  /\ \A i, j \in 1 .. Len(m.vals) : i < j => m.vals[i].to < m.vals[j].from
  /\ \A i \in 1 .. Len(m.vals) : m.vals[i].to < m.pos
  /\ m.pos > 0
GapsAccounted(m) ==
  /\ \A j \in 1 .. Len(m.vals) : Accounted(m, EndBefore(m, j), m.vals[j].from)
  /\ ~ m.hung => Accounted(m, EndBefore(m, Len(m.vals) + 1), m.pos)
Covered(m) == InOrder(m) /\ GapsAccounted(m)

LEMMA AccountedStays ==
  ASSUME NEW s, NEW t, s.inp = t.inp, s.errs \in Seq(Nat), t.errs \in Seq(Nat), Adds(s, t),
         NEW a, NEW b, Accounted(s, a, b)
  PROVE  Accounted(t, a, b)
<1>1. \A e \in DOMAIN s.errs : e \in DOMAIN t.errs /\ t.errs[e] = s.errs[e]
  <2>1. DOMAIN s.errs = 1 .. Len(s.errs) /\ DOMAIN t.errs = 1 .. Len(t.errs)
    OBVIOUS
  <2> QED
    BY <2>1 DEF Adds
<1> QED
  BY <1>1 DEF Accounted

LEMMA AppendIs ==
  ASSUME NEW S, NEW q \in Seq(S), NEW n \in S, NEW w, w = Append(q, n)
  PROVE  /\ Len(w) = Len(q) + 1 /\ w[Len(q) + 1] = n /\ Len(q) \in Nat
         /\ \A i \in 1 .. Len(q) : w[i] = q[i]
OBVIOUS

LEMMA LastEndIs ==
  ASSUME NEW s, InInput(s), InOrder(s)
  PROVE  EndBefore(s, Len(s.vals) + 1) \in Nat /\ EndBefore(s, Len(s.vals) + 1) < s.pos
<1>1. Len(s.vals) \in Nat /\ s.pos \in Nat
  BY DEF InInput, IsParser
<1>2. CASE Len(s.vals) = 0
  BY <1>1, <1>2 DEF EndBefore, InOrder
<1>3. CASE Len(s.vals) # 0
  <2>1. Len(s.vals) \in 1 .. Len(s.vals)
    BY <1>1, <1>3
  <2>2. EndBefore(s, Len(s.vals) + 1) = s.vals[Len(s.vals)].to
    BY <1>1, <1>3 DEF EndBefore
  <2> QED
    BY <2>1, <2>2 DEF InOrder
<1> QED
  BY <1>2, <1>3

(* A turn that builds a statement.                                         *)
LEMMA CoveredAfterStatement ==
  ASSUME NEW s, InInput(s), Covered(s), ~ s.hung,
         NEW r, InInput(r), r.inp = s.inp, Adds(s, r), Builds(s, r),
         NEW t, Ahead(r, t),
         t.pos = r.pos \/ (t.pos = r.pos + 1 /\ r.inp[r.pos] = "Semicolon")
  PROVE  Covered(t)
<1> DEFINE k == Len(s.vals)
           S == {r.vals[i] : i \in DOMAIN r.vals}
<1>1. PICK n \in S : r.vals = Append(s.vals, n) /\ n.from = s.pos /\ n.to = r.pos - 1 /\ s.pos < r.pos
  BY DEF Builds
<1>2. /\ Len(t.vals) = k + 1 /\ t.vals[k + 1] = n /\ k \in Nat
      /\ \A i \in 1 .. k : t.vals[i] = s.vals[i]
  <2> DEFINE T == {s.vals[i] : i \in DOMAIN s.vals} \cup {n}
  <2>1. s.vals \in Seq(T)
    BY DEF InInput, IsParser
  <2>2. t.vals = Append(s.vals, n)
    BY <1>1 DEF Ahead
  <2> HIDE DEF T
  <2>3. n \in T
    BY DEF T
  <2> QED
    BY <2>1, <2>2, <2>3, AppendIs
<1> HIDE DEF k, S
<1>3. /\ s.pos \in Nat /\ r.pos \in Nat /\ t.pos \in Nat /\ r.pos <= t.pos /\ t.inp = r.inp
      /\ s.errs \in Seq(Nat) /\ t.errs \in Seq(Nat) /\ Adds(s, t)
  BY DEF InInput, IsParser, Ahead, Adds
<1>4. n.from \in Nat \ {0} /\ n.to \in Nat /\ n.from <= n.to /\ n.to < t.pos
  BY <1>1, <1>3 DEF Covered, InOrder
<1>5. InOrder(t)
  <2>1. ASSUME NEW i \in 1 .. k
        PROVE  /\ t.vals[i].from \in Nat \ {0} /\ t.vals[i].to \in Nat /\ t.vals[i].from <= t.vals[i].to
               /\ t.vals[i].to < n.from /\ t.vals[i].to < t.pos
               /\ \A j \in 1 .. k : i < j => t.vals[i].to < t.vals[j].from
    <3>1. /\ s.vals[i].from \in Nat \ {0} /\ s.vals[i].to \in Nat /\ s.vals[i].from <= s.vals[i].to
          /\ s.vals[i].to < s.pos
          /\ \A j \in 1 .. k : i < j => s.vals[i].to < s.vals[j].from
      BY DEF Covered, InOrder, k
    <3>2. s.vals[i].to < n.from /\ s.vals[i].to < t.pos
      <4> DEFINE e == s.vals[i].to
      <4>1. e \in Nat /\ e < s.pos
        BY <3>1
      <4> HIDE DEF e
      <4>2. e < n.from /\ e < t.pos
        BY <4>1, <1>1, <1>3
      <4> QED
        BY <4>2 DEF e
    <3> QED
      BY <3>1, <3>2, <1>2
  <2>2. \A i \in 1 .. k + 1 : i \in 1 .. k \/ i = k + 1
    BY <1>2
  <2>3. t.pos > 0
    BY <1>1, <1>3
  <2>4. \A i \in 1 .. Len(t.vals) : /\ t.vals[i].from \in Nat \ {0} /\ t.vals[i].to \in Nat
                                    /\ t.vals[i].from <= t.vals[i].to /\ t.vals[i].to < t.pos
    BY <1>2, <1>4, <2>1, <2>2
  <2>5. ASSUME NEW i \in 1 .. Len(t.vals), NEW j \in 1 .. Len(t.vals), i < j
        PROVE  t.vals[i].to < t.vals[j].from
    <3>1. i \in 1 .. k
      BY <2>5, <1>2
    <3>2. j \in 1 .. k \/ j = k + 1
      BY <2>2, <1>2
    <3> QED
      BY <3>1, <3>2, <2>1, <2>5, <1>2
  <2> QED
    BY <2>3, <2>4, <2>5 DEF InOrder
<1>6. \A i \in 1 .. k + 1 : EndBefore(t, i) = EndBefore(s, i)
  <2>1. ASSUME NEW i \in 1 .. k + 1, i # 1 PROVE t.vals[i - 1] = s.vals[i - 1]
    <3>1. i - 1 \in 1 .. k
      BY <2>1, <1>2
    <3> QED
      BY <3>1, <1>2
  <2> QED
    BY <2>1 DEF EndBefore
<1>7. ASSUME NEW j \in 1 .. Len(t.vals) PROVE Accounted(t, EndBefore(t, j), t.vals[j].from)
  <2>1. CASE j \in 1 .. k
    <3>1. Accounted(s, EndBefore(s, j), s.vals[j].from)
      BY <2>1 DEF Covered, GapsAccounted, k
    <3> QED
      BY <3>1, <2>1, <1>2, <1>3, <1>6, <1>7, AccountedStays
  <2>2. CASE j = k + 1
    <3>1. Accounted(s, EndBefore(s, k + 1), s.pos)
      BY DEF Covered, GapsAccounted, k
    <3> QED
      BY <3>1, <2>2, <1>1, <1>2, <1>3, <1>6, <1>7, AccountedStays
  <2> QED
    BY <1>2, <2>1, <2>2
<1>8. Accounted(t, EndBefore(t, Len(t.vals) + 1), t.pos)
  <2>1. EndBefore(t, Len(t.vals) + 1) = r.pos - 1
    BY <1>1, <1>2 DEF EndBefore
  <2>2. r.pos - 1 + 1 = r.pos /\ r.pos - 1 + 2 = r.pos + 1
    BY <1>3
  <2> QED
    BY <2>1, <2>2, <1>3 DEF Accounted
<1> QED
  BY <1>5, <1>7, <1>8 DEF Covered, GapsAccounted

(* A turn whose statement failed or does not return.                       *)
LEMMA CoveredAfterError ==
  ASSUME NEW s, InInput(s), Covered(s),
         NEW b, InInput(b), b.inp = s.inp, Adds(s, b), b.vals = s.vals, s.pos <= b.pos,
         b.hung \/ (b.errs # <<>> /\ b.errs[Len(b.errs)] = b.pos),
         NEW t, Ahead(b, t)
  PROVE  Covered(t)
<1> DEFINE k == Len(s.vals)
<1>1. t.vals = s.vals /\ t.inp = s.inp /\ t.hung = b.hung /\ t.errs = b.errs
  BY DEF Ahead
<1>2. /\ s.pos \in Nat /\ b.pos \in Nat /\ t.pos \in Nat /\ b.pos <= t.pos /\ k \in Nat
      /\ s.errs \in Seq(Nat) /\ t.errs \in Seq(Nat) /\ Adds(s, t)
  BY DEF InInput, IsParser, Ahead, Adds
<1>3. InOrder(t)
  BY <1>1, <1>2 DEF Covered, InOrder
<1>4. \A j : EndBefore(t, j) = EndBefore(s, j)
  BY <1>1 DEF EndBefore
<1>5. ASSUME NEW j \in 1 .. Len(t.vals) PROVE Accounted(t, EndBefore(t, j), t.vals[j].from)
  <2>1. Accounted(s, EndBefore(s, j), s.vals[j].from)
    BY <1>1, <1>5 DEF Covered, GapsAccounted
  <2> QED
    BY <2>1, <1>1, <1>2, <1>4, AccountedStays
<1>6. ASSUME ~ t.hung PROVE Accounted(t, EndBefore(t, k + 1), t.pos)
  <2>1. Len(t.errs) \in DOMAIN t.errs /\ t.errs[Len(t.errs)] = b.pos
    BY <1>1, <1>2, <1>6
  <2>2. EndBefore(t, k + 1) \in Nat /\ EndBefore(t, k + 1) < s.pos
    BY <1>4, LastEndIs DEF Covered
  <2>3. EndBefore(t, k + 1) < b.pos
    BY <2>2, <1>2
  <2> QED
    BY <2>1, <2>3, <1>2 DEF Accounted
<1> QED
  BY <1>1, <1>3, <1>5, <1>6 DEF Covered, GapsAccounted


LEMMA InitCovered == Init => Covered(lenient)
<1> SUFFICES ASSUME Init PROVE Covered(lenient)
  OBVIOUS
<1>1. lenient = NewParser(input.tokens, input.batch)
  BY DEF Init
<1>2. lenient.vals = <<>> /\ lenient.pos = 1
  BY <1>1 DEF NewParser
<1>3. Len(lenient.vals) = 0 /\ 1 .. 0 = {}
  BY <1>2
<1>4. EndBefore(lenient, 0 + 1) = 0
  BY DEF EndBefore
<1> QED
  BY <1>2, <1>3, <1>4 DEF Covered, InOrder, GapsAccounted, Accounted

LEMMA NextCovered ==
  ASSUME BothReady, StatementsDependable, Covered(lenient), ParseWithErrors
  PROVE  Covered(lenient')
<1> DEFINE r == OneStatement(lenient)
           b == Settled(lenient, r)
           t == RecoveryTurn(lenient)
<1>1. Ready(lenient) /\ Parsing(lenient) /\ Dependable(lenient) /\ lenient' = t
  BY DEF ParseWithErrors, Recovering, BothReady, ReadyOn, StatementsDependable
<1>2. /\ InInput(r) /\ r.inp = lenient.inp /\ lenient.pos <= r.pos
      /\ Adds(lenient, r)
      /\ r.hung => r.ok = TRUE /\ r.vals = lenient.vals
      /\ r.ok /\ ~r.hung => Builds(lenient, r)
  BY <1>1, OneStatementIs
<1>3. /\ Ready(b) /\ b.inp = lenient.inp /\ b.pos = r.pos /\ Adds(lenient, b)
      /\ r.ok => b = r
      /\ ~ r.ok => b.errs = Append(r.errs, r.pos) /\ b.vals = lenient.vals
  BY <1>1, SettledIs
<1>4. Ahead(b, t) /\ (r.ok => t = Separator(r))
  BY <1>1, RecoveryTurnIs
<1> HIDE DEF r, b, t
<1>5. InInput(lenient) /\ InInput(b) /\ ~ lenient.hung
  BY <1>1, <1>3 DEF Ready, Parsing
<1>6. CASE r.ok /\ ~ r.hung
  <2>1. Ahead(r, t) /\ (t.pos = r.pos \/ (t.pos = r.pos + 1 /\ r.inp[r.pos] = "Semicolon"))
    BY <1>2, <1>4, <1>6, SeparatorIs
  <2> QED
    BY <2>1, <1>1, <1>2, <1>5, <1>6, CoveredAfterStatement
<1>7. CASE r.hung
  <2>1. b.hung /\ b.vals = lenient.vals
    BY <1>2, <1>3, <1>7
  <2> QED
    BY <2>1, <1>1, <1>2, <1>3, <1>4, <1>5, CoveredAfterError
<1>8. CASE ~ r.ok
  <2>1. r.errs \in Seq(Nat) /\ r.pos \in Nat
    BY <1>2 DEF InInput, IsParser
  <2>2. b.errs # <<>> /\ b.errs[Len(b.errs)] = b.pos
    BY <2>1, <1>3, <1>8, AppendProperties
  <2> QED
    BY <2>2, <1>1, <1>2, <1>3, <1>4, <1>5, <1>8, CoveredAfterError
<1> QED
  BY <1>6, <1>7, <1>8

(* The gap that ends where statement j starts begins where statement j - 1 *)
(* ended; x is the start of statement j, or what stands after the last one.*)
LEMMA GapIs ==
  ASSUME NEW m, InInput(m), InOrder(m),
         NEW j \in 1 .. Len(m.vals) + 1,
         NEW x \in Nat,
         \A i \in 1 .. Len(m.vals) : i < j => m.vals[i].to < x,
         \A i \in 1 .. Len(m.vals) : i >= j => x <= m.vals[i].from,
         NEW a \in {0} \cup {m.vals[i].to : i \in DOMAIN m.vals}, a < x,
         ~ \E i \in DOMAIN m.vals : a < m.vals[i].from /\ m.vals[i].from < x
  PROVE  a = EndBefore(m, j)
<1> DEFINE k == Len(m.vals)
<1>1. k \in Nat /\ DOMAIN m.vals = 1 .. k
  BY DEF InInput, IsParser
<1>2. \A i \in 1 .. k : m.vals[i].from \in Nat \ {0} /\ m.vals[i].to \in Nat /\ m.vals[i].from <= m.vals[i].to
  BY DEF InOrder
<1>3. \A h, i \in 1 .. k : h < i => m.vals[h].to < m.vals[i].from
  BY DEF InOrder
<1>4. \A i \in 1 .. k : i < j => m.vals[i].from < x
  <2>1. ASSUME NEW i \in 1 .. k, i < j PROVE m.vals[i].from < x
    <3> DEFINE c == m.vals[i].from
               d == m.vals[i].to
    <3>1. c \in Nat /\ d \in Nat /\ c <= d /\ d < x
      BY <2>1, <1>2
    <3> HIDE DEF c, d
    <3>2. c < x
      BY <3>1
    <3> QED
      BY <3>2 DEF c
  <2> QED
    BY <2>1
<1> HIDE DEF k
<1>5. CASE a = 0
  <2>1. ~ (1 \in 1 .. k /\ 1 < j)
    <3>1. ASSUME 1 \in 1 .. k, 1 < j PROVE FALSE
      <4>1. 0 < m.vals[1].from /\ m.vals[1].from < x
        BY <3>1, <1>2, <1>4
      <4> QED
        BY <4>1, <3>1, <1>1, <1>5
    <3> QED
      BY <3>1
  <2>2. j = 1
    BY <2>1, <1>1 DEF k
  <2> QED
    BY <2>2, <1>5 DEF EndBefore
<1>6. CASE a # 0
  <2>1. PICK i \in 1 .. k : a = m.vals[i].to
    BY <1>1, <1>6
  <2>2. i < j
    <3>1. ASSUME i >= j PROVE FALSE
      <4> DEFINE c == m.vals[i].from
      <4>1. c \in Nat /\ a \in Nat /\ c <= a /\ x <= c
        BY <2>1, <3>1, <1>2 DEF k
      <4> HIDE DEF c
      <4> QED
        BY <4>1
    <3> QED
      BY <3>1, <1>1 DEF k
  <2>3. ~ (i + 1 \in 1 .. k /\ i + 1 < j)
    <3>1. ASSUME i + 1 \in 1 .. k, i + 1 < j PROVE FALSE
      <4>1. a < m.vals[i + 1].from
        BY <2>1, <3>1, <1>1, <1>3
      <4>2. m.vals[i + 1].from < x
        BY <3>1, <1>4
      <4> QED
        BY <4>1, <4>2, <3>1, <1>1
    <3> QED
      BY <3>1
  <2>4. j = i + 1
    BY <2>1, <2>2, <2>3, <1>1 DEF k
  <2>5. j - 1 = i /\ j # 1
    BY <2>1, <2>4, <1>1
  <2> QED
    BY <2>1, <2>5 DEF EndBefore
<1> QED
  BY <1>5, <1>6

LEMMA CoveredDropsNothing ==
  ASSUME input \in Inputs, BothReady, Covered(lenient)
  PROVE  NothingDroppedSilently
<1> DEFINE m == lenient
           k == Len(m.vals)
           Ends == {0} \cup {m.vals[i].to : i \in DOMAIN m.vals}
           Starts == {m.vals[i].from : i \in DOMAIN m.vals}
                       \cup (IF ~m.hung /\ IsAtEof(m) THEN {Len(m.inp) + 1} ELSE {})
           Gap(a, b) == a < b /\ ~\E i \in DOMAIN m.vals : a < m.vals[i].from /\ m.vals[i].from < b
<1>1. InInput(m) /\ InOrder(m) /\ GapsAccounted(m) /\ m.inp = input.tokens
  BY DEF BothReady, ReadyOn, Ready, Covered
<1>2. k \in Nat /\ DOMAIN m.vals = 1 .. k /\ m.pos \in Nat /\ m.pos <= Len(m.inp) + 1 /\ Len(m.inp) \in Nat
  BY <1>1 DEF InInput, IsParser
<1>3. ASSUME NEW a \in Ends, NEW b \in Starts, Gap(a, b)
      PROVE  Accounted(m, a, b)
  <2>1. CASE b \in {m.vals[i].from : i \in DOMAIN m.vals}
    <3>1. PICK j \in 1 .. k : b = m.vals[j].from
      BY <2>1, <1>2
    <3>2. b \in Nat /\ j \in 1 .. k + 1
      BY <3>1, <1>1, <1>2 DEF InOrder
    <3>3. \A i \in 1 .. k : i < j => m.vals[i].to < b
      BY <3>1, <1>1 DEF InOrder
    <3>4. \A i \in 1 .. k : i >= j => b <= m.vals[i].from
      <4>1. ASSUME NEW i \in 1 .. k, i > j PROVE b <= m.vals[i].from
        <5> DEFINE c == m.vals[i].from
                   d == m.vals[j].to
        <5>1. c \in Nat /\ d \in Nat /\ b <= d /\ d < c
          BY <3>1, <4>1, <1>1 DEF InOrder
        <5> HIDE DEF c, d
        <5>2. b <= c
          BY <5>1, <3>2
        <5> QED
          BY <5>2 DEF c
      <4> QED
        BY <4>1, <3>1, <3>2, <1>2
    <3>5. a = EndBefore(m, j)
      BY <3>2, <3>3, <3>4, <1>1, <1>3, GapIs
    <3> QED
      BY <3>1, <3>5, <1>1 DEF GapsAccounted
  <2>2. CASE ~m.hung /\ IsAtEof(m) /\ b = Len(m.inp) + 1
    <3>1. ~ (m.pos <= Len(m.inp))
      <4>1. ASSUME m.pos <= Len(m.inp) PROVE FALSE
        <5>1. m.pos \in DOMAIN input.tokens
          BY <4>1, <1>1, <1>2, LoopsAssumption DEF InOrder
        <5>2. KindOf(m.inp[m.pos]) # "Eof"
          BY <5>1, <1>1, LoopsAssumption
        <5>3. Current(m) = KindOf(m.inp[m.pos])
          BY <4>1, <1>1, CurrentIs
        <5> QED
          BY <5>2, <5>3, <2>2 DEF IsAtEof
      <4> QED
        BY <4>1
    <3>2. b = m.pos
      BY <3>1, <2>2, <1>2
    <3>3. \A i \in 1 .. k : i < k + 1 => m.vals[i].to < b
      BY <3>2, <1>1 DEF InOrder
    <3>4. \A i \in 1 .. k : i >= k + 1 => b <= m.vals[i].from
      BY <1>2
    <3>5. k + 1 \in 1 .. k + 1 /\ b \in Nat
      BY <1>2, <3>2
    <3>6. a = EndBefore(m, k + 1)
      BY <3>3, <3>4, <3>5, <1>1, <1>3, GapIs
    <3> QED
      BY <3>2, <3>6, <2>2, <1>1 DEF GapsAccounted
  <2> QED
    BY <2>1, <2>2
<1> QED
  BY <1>3 DEF NothingDroppedSilently, Accounted

(* parse_with_errors drops nothing in silence, from inputs of any length:  *)
(* the statements it returns stand in order, and between two of them, and  *)
(* to the end of an input it has read, stands at most one semicolon, or an *)
(* error was reported.                                                     *)
THEOREM NothingIsDropped == Spec /\ []StatementsDependable => []NothingDroppedSilently
<1> DEFINE IInv == input \in Inputs /\ BothReady /\ Covered(lenient)
<1>1. Init => IInv
  BY InitReady, InitCovered DEF Init
<1>2. IInv /\ StatementsDependable /\ [Next]_vars => IInv'
  <2> SUFFICES ASSUME IInv, StatementsDependable, [Next]_vars PROVE IInv'
    OBVIOUS
  <2>1. BothReady'
    BY NextReady
  <2>2. input' = input
    BY DEF Next, Parse, ParseWithErrors, vars
  <2>3. CASE Parse
    BY <2>1, <2>2, <2>3 DEF Parse
  <2>4. CASE ParseWithErrors
    BY <2>1, <2>2, <2>4, NextCovered
  <2>5. CASE UNCHANGED vars
    BY <2>1, <2>2, <2>5 DEF vars
  <2> QED
    BY <2>3, <2>4, <2>5 DEF Next
<1>3. IInv => NothingDroppedSilently
  BY CoveredDropsNothing
<1> QED
  BY <1>1, <1>2, <1>3, PTL DEF Spec
=============================================================================
