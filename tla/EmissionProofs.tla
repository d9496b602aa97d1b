--------------------------- MODULE EmissionProofs ---------------------------
(***************************************************************************)
(* Theorems about Emission, for scripts of any length, any sequence of     *)
(* calls, and whatever a conversion makes of a statement and an emitter    *)
(* writes for it.                                                          *)
(***************************************************************************)
EXTENDS Emission, SequenceTheorems, WellFoundedInduction, TLAPS

-----------------------------------------------------------------------------
(* Texts joined: the texts of a batch, one after the other, are a text.    *)

(* A set of naturals that is not empty has a least element.                *)
LEMMA LeastElement ==
  ASSUME NEW S \in SUBSET Nat, S # {}
  PROVE  \E m \in S : \A k \in S : m <= k
<1>1. PICK m \in S : \A k \in S : ~ (<<k, m>> \in OpToRel(<, Nat))
  BY NatLessThanWellFounded, WFMin
<1>2. \A k \in S : ~ (k < m)
  BY <1>1 DEF OpToRel
<1> QED
  BY <1>2

(* The function that FlattenSeq defines by recursion exists.               *)
LEMMA JoinExists ==
  ASSUME NEW seqs, NEW n \in Nat
  PROVE  \E f : f = [i \in 1 .. n |-> IF i = 1 THEN seqs[i] ELSE f[i - 1] \o seqs[i]]
<1> DEFINE Step(f, m) == [i \in 1 .. m |-> IF i = 1 THEN seqs[i] ELSE f[i - 1] \o seqs[i]]
           without == {m \in Nat : ~ \E f : f = Step(f, m)}
<1>1. ASSUME without # {} PROVE FALSE
  <2>1. PICK m \in without : \A k \in without : m <= k
    BY <1>1, LeastElement
  <2>2. CASE m = 0
    <3>1. [i \in 1 .. 0 |-> 0] = Step([i \in 1 .. 0 |-> 0], 0)
      OBVIOUS
    <3> QED
      BY <3>1, <2>1, <2>2
  <2>3. CASE m # 0
    <3>1. m \in Nat /\ m - 1 \in Nat /\ ~ (m <= m - 1)
      BY <2>1, <2>3
    <3>2. PICK f : f = Step(f, m - 1)
      <4>1. m - 1 \notin without
        <5> HIDE DEF without
        <5> QED
          BY <3>1, <2>1
      <4> QED
        BY <3>1, <4>1
    <3> DEFINE g == [i \in 1 .. m |-> IF i < m THEN f[i] ELSE IF i = 1 THEN seqs[i] ELSE f[i - 1] \o seqs[i]]
    <3>3. \A i \in 1 .. m - 1 : f[i] = IF i = 1 THEN seqs[i] ELSE f[i - 1] \o seqs[i]
      BY <3>1, <3>2
    <3>4. \A i \in 1 .. m : g[i] = IF i = 1 THEN seqs[i] ELSE g[i - 1] \o seqs[i]
      <4>1. TAKE i \in 1 .. m
      <4>2. CASE i < m
        BY <4>2, <3>3
      <4>3. CASE i = m
        BY <4>3
      <4> QED
        BY <4>2, <4>3
    <3>5. g = Step(g, m)
      BY <3>4
    <3> QED
      BY <3>5, <2>1
  <2> QED
    BY <2>2, <2>3
<1> QED
  BY <1>1

LEMMA JoinType ==
  ASSUME NEW S, NEW seqs \in Seq(Seq(S))
  PROVE  FlattenSeq(seqs) \in Seq(S)
<1> DEFINE L == Len(seqs)
           Step(f) == [i \in 1 .. L |-> IF i = 1 THEN seqs[i] ELSE f[i - 1] \o seqs[i]]
<1>1. L \in Nat /\ \A i \in 1 .. L : seqs[i] \in Seq(S)
  OBVIOUS
<1>2. CASE L = 0
  <2>1. FlattenSeq(seqs) = seqs /\ seqs = <<>>
    BY <1>2, EmptySeq DEF FlattenSeq
  <2> QED
    BY <2>1
<1>3. CASE L # 0
  <2> DEFINE join == CHOOSE f : f = Step(f)
  <2>1. FlattenSeq(seqs) = join[L]
    BY <1>3 DEF FlattenSeq
  <2>2. join = Step(join)
    BY <1>1, JoinExists
  <2> HIDE DEF join
  <2> DEFINE untyped == {i \in 1 .. L : join[i] \notin Seq(S)}
  <2>3. ASSUME untyped # {} PROVE FALSE
    <3>1. untyped \in SUBSET Nat
      BY <1>1
    <3>2. PICK m \in untyped : \A k \in untyped : m <= k
      BY <3>1, <2>3, LeastElement
    <3>3. m \in 1 .. L /\ join[m] = IF m = 1 THEN seqs[m] ELSE join[m - 1] \o seqs[m]
      BY <2>2, <3>2
    <3>4. CASE m = 1
      BY <3>2, <3>3, <3>4, <1>1
    <3>5. CASE m # 1
      <4>1. m - 1 \in 1 .. L /\ ~ (m <= m - 1)
        BY <3>3, <3>5, <1>1
      <4>2. join[m - 1] \in Seq(S)
        BY <4>1, <3>2
      <4>3. seqs[m] \in Seq(S)
        BY <3>3, <1>1
      <4>4. join[m] \in Seq(S)
        BY <4>2, <4>3, <3>3, <3>5
      <4> QED
        BY <4>4, <3>2
    <3> QED
      BY <3>4, <3>5
  <2> QED
    BY <2>1, <2>3, <1>1, <1>3
<1> QED
  BY <1>2, <1>3

-----------------------------------------------------------------------------
(* The invariant.                                                          *)

Phases == {"convert", "emit", "ok", "error", "unsupported"}
Called == {"convertTo", "each", "batch"}

(* Tokens are strings; the provers do not know these two for strings.      *)
Tokens == STRING \cup {"Error", "Semicolon"}

TypesOK ==
  /\ job \in Jobs
  /\ stmts \in Seq(Counterparts(job))
  /\ read \in 0 .. Len(job.stmts)
  /\ calls \in Seq(Called)
  /\ emitted \in 0 .. Len(stmts)
  /\ results \in Seq([of : Nat, text : Seq(Tokens)])
  /\ phase \in Phases
  /\ phase = "convert" => results = <<>> /\ buffer = <<>> /\ calls = job.calls /\ emitted = 0
  /\ phase \in {"convert", "emit"} => calls # <<>>

(* What a call returned is the text of what it was asked for, alone.       *)
IsOwnText(r) == r.text = Alone(IF r.of = 0 THEN Batch(Texts) ELSE Texts[r.of])
ResultsOK == \A i \in DOMAIN results : results[i].of <= Len(stmts) /\ IsOwnText(results[i])

BufferOK == ~ Failed(buffer) /\ (buffer # <<>> => results # <<>> /\ Failed(results[Len(results)].text))

(* convertTo has emitted what it returned results for, the last of which   *)
(* alone may have failed, and then it ended.                               *)
NoneFailed == \A i \in DOMAIN results : ~ Failed(results[i].text)
ConvertToOK ==
  job.calls = <<"convertTo">> =>
    /\ calls = IF phase = "ok" THEN <<>> ELSE <<"convertTo">>
    /\ \A i \in DOMAIN results : results[i].of = i
    /\ phase = "emit" => Len(results) = emitted /\ NoneFailed
    /\ phase = "ok" => Len(results) = Len(stmts) /\ NoneFailed
    /\ phase = "error" => \A i \in DOMAIN results : Failed(results[i].text) <=> i = Len(results)

IInv == TypesOK /\ ResultsOK /\ BufferOK /\ ConvertToOK

-----------------------------------------------------------------------------
(* What one call returns, and leaves in the buffer.                        *)

LEMMA OneToken ==
  ASSUME NEW S, NEW token \in S
  PROVE  <<token>> \in Seq(S)
  OBVIOUS

LEMMA WrittenHasNoError ==
  ASSUME NEW t \in Seq(Tokens)
  PROVE  ~ Failed(Written(t))
<1>1. CASE ~ Failed(t)
  BY <1>1 DEF Written
<1>2. CASE Failed(t)
  <2> DEFINE First(i) == t[i] = "Error" /\ \A j \in 1 .. i - 1 : t[j] # "Error"
             errors == {i \in DOMAIN t : t[i] = "Error"}
  <2>1. errors \in SUBSET Nat /\ errors # {} /\ DOMAIN t = 1 .. Len(t) /\ Len(t) \in Nat
    BY <1>2 DEF Failed
  <2>2. PICK m \in errors : \A k \in errors : m <= k
    BY <2>1, LeastElement
  <2>3. m \in DOMAIN t /\ First(m)
    BY <2>1, <2>2
  <2> DEFINE n == CHOOSE i \in DOMAIN t : First(i)
  <2>4. n \in DOMAIN t /\ First(n)
    BY <2>3
  <2>5. Written(t) = SubSeq(t, 1, n - 1)
    BY <1>2 DEF Written
  <2> HIDE DEF n
  <2>6. \A i \in DOMAIN SubSeq(t, 1, n - 1) : SubSeq(t, 1, n - 1)[i] # "Error"
    BY <2>1, <2>4
  <2> QED
    BY <2>5, <2>6 DEF Failed
<1> QED
  BY <1>1, <1>2

LEMMA EmitCallIs ==
  ASSUME NEW t \in Seq(Tokens), NEW r, r = EmitCall(t)
  PROVE  /\ r.text = Alone(t)
         /\ r.text \in Seq(Tokens)
         /\ Failed(r.text) <=> Failed(t)
         /\ ~ Failed(r.buffer)
         /\ r.buffer # <<>> => Failed(r.text)
<1>1. Failed(<<"Error">>) /\ ~ Failed(<<>>) /\ <<"Error">> \in Seq(Tokens)
  <2>1. DOMAIN <<"Error">> = {1} /\ <<"Error">>[1] = "Error" /\ DOMAIN <<>> = {}
    OBVIOUS
  <2>2. <<"Error">> \in Seq(Tokens)
    <3>1. "Error" \in Tokens
      BY DEF Tokens
    <3> QED
      BY <3>1, OneToken
  <2> QED
    BY <2>1, <2>2 DEF Failed
<1>2. <<>> \o t = t
  OBVIOUS
<1>3. r = IF job.dialect = "MySQL" THEN [buffer |-> <<>>, text |-> Alone(t)]
          ELSE [buffer |-> IF Failed(t) THEN Written(t) ELSE <<>>, text |-> Alone(t)]
  BY <1>2 DEF EmitCall, Return, Reset, Alone
<1>4. r.text = Alone(t) /\ r.buffer \in {<<>>, Written(t)} /\ (~ Failed(t) => r.buffer = <<>>)
  BY <1>3
<1>5. Failed(Alone(t)) <=> Failed(t)
  BY <1>1 DEF Alone
<1>6. Alone(t) \in Seq(Tokens)
  BY <1>1 DEF Alone
<1> QED
  BY <1>1, <1>4, <1>5, <1>6, WrittenHasNoError

(* The texts of the statements, and of a batch of them, are texts.         *)
LEMMA TextsType ==
  ASSUME job \in Jobs, stmts \in Seq(Counterparts(job))
  PROVE  /\ Texts \in Seq(Seq(Tokens)) /\ Len(Texts) = Len(stmts)
         /\ \A k \in 1 .. Len(stmts) : Texts[k] = TextOf(job.dialect, stmts[k])
         /\ Batch(Texts) \in Seq(Tokens)
<1> DEFINE T == [k \in 1 .. Len(stmts) |-> TextOf(job.dialect, stmts[k])]
<1>1. \A k \in 1 .. Len(stmts) : stmts[k] \in Counterparts(job)
  OBVIOUS
<1>2. \A n \in Counterparts(job) : TextOf(job.dialect, n) \in Seq(Tokens)
  <2>1. \A n \in Counterparts(job) : TextOf(job.dialect, n) \in Seq(STRING)
    BY JobsAssumption
  <2>2. \A t \in Seq(STRING) : t \in Seq(Tokens)
    BY DEF Tokens
  <2> QED
    BY <2>1, <2>2
<1>3. Len(stmts) \in Nat /\ DOMAIN stmts = 1 .. Len(stmts)
  OBVIOUS
<1>4. T \in [1 .. Len(stmts) -> Seq(Tokens)]
  BY <1>1, <1>2
<1>5. T \in Seq(Seq(Tokens)) /\ Len(T) = Len(stmts)
  BY <1>3, <1>4
<1>6. Texts = T
  <2>1. Texts = <<>> \o T
    BY <1>3 DEF Texts
  <2> HIDE DEF T
  <2> QED
    BY <2>1, <1>5
<1> HIDE DEF T
<1> DEFINE parts == [k \in DOMAIN T |-> IF k = 1 THEN T[k] ELSE <<"Semicolon">> \o T[k]]
<1>7. Batch(T) = FlattenSeq(parts)
  BY DEF Batch
<1>8. \A k \in 1 .. Len(T) : parts[k] \in Seq(Tokens)
  <2>1. TAKE k \in 1 .. Len(T)
  <2>2. T[k] \in Seq(Tokens) /\ k \in DOMAIN T
    BY <1>5
  <2>3. <<"Semicolon">> \o T[k] \in Seq(Tokens)
    <3>1. <<"Semicolon">> \in Seq(Tokens)
      <4>1. "Semicolon" \in Tokens
        BY DEF Tokens
      <4> QED
        BY <4>1, OneToken
    <3> QED
      BY <3>1, <2>2, ConcatProperties
  <2> QED
    BY <2>2, <2>3
<1>9. parts \in Seq(Seq(Tokens))
  <2>1. DOMAIN parts = 1 .. Len(T) /\ Len(T) \in Nat
    BY <1>5
  <2>2. parts = [k \in 1 .. Len(T) |-> parts[k]]
    BY <2>1
  <2> HIDE DEF parts
  <2>3. parts \in [1 .. Len(T) -> Seq(Tokens)]
    BY <2>2, <1>8
  <2> QED
    BY <2>1, <2>3
<1> HIDE DEF parts
<1>10. Batch(T) \in Seq(Tokens)
  BY <1>7, <1>9, JoinType
<1> QED
  BY <1>5, <1>6, <1>10 DEF T

-----------------------------------------------------------------------------
(* Every step keeps the invariant.                                         *)

LEMMA IInvInit == Init => IInv
<1> SUFFICES ASSUME Init PROVE IInv
  OBVIOUS
<1> USE DEF Init
<1>1. stmts \in Seq(Counterparts(job))
  <2>1. job.common \in Seq(Range(job.common)) /\ Range(job.common) \subseteq Counterparts(job)
    BY JobsAssumption DEF Counterparts
  <2> QED
    BY <2>1
<1>2. Len(job.stmts) \in Nat /\ Len(stmts) \in Nat /\ job.calls \in Seq(Called) /\ job.calls # <<>>
  BY <1>1, JobsAssumption DEF Called
<1>3. TypesOK
  BY <1>1, <1>2 DEF TypesOK, Phases
<1>4. ResultsOK /\ BufferOK /\ ConvertToOK
  BY DEF ResultsOK, BufferOK, Failed, ConvertToOK
<1> QED
  BY <1>3, <1>4 DEF IInv

LEMMA IInvConvertNext == IInv /\ ConvertNext => IInv'
<1> SUFFICES ASSUME IInv, ConvertNext PROVE IInv'
  OBVIOUS
<1> USE DEF IInv, TypesOK, ConvertNext
<1>1. read' \in 0 .. Len(job.stmts) /\ read' \in DOMAIN job.stmts
  BY JobsAssumption
<1> DEFINE s == job.stmts[read']
<1>2. s \in Range(job.stmts)
  BY <1>1 DEF Range
<1>3. Converted(s) \in Seq(Counterparts(job))
  <2>1. CASE Converted(s) = <<>>
    BY <2>1
  <2>2. CASE Converted(s) # <<>>
    <3>1. Converted(s) = <<Converted(s)[1]>>
      BY <1>2, <2>2, JobsAssumption
    <3>2. Converted(s)[1] \in Counterparts(job)
      BY <1>2, <2>2 DEF Counterparts
    <3> HIDE DEF s
    <3> QED
      BY <3>1, <3>2, OneToken
  <2> QED
    BY <2>1, <2>2
<1>4. stmts' \in Seq(Counterparts(job)) /\ Len(stmts') \in Nat
  BY <1>3
<1>5. TypesOK'
  BY <1>1, <1>4
<1>6. ResultsOK' /\ BufferOK' /\ ConvertToOK'
  BY DEF ResultsOK, BufferOK, ConvertToOK, Failed
<1> QED
  BY <1>5, <1>6

LEMMA IInvConvertDone == IInv /\ ConvertDone => IInv'
<1> SUFFICES ASSUME IInv, ConvertDone PROVE IInv'
  OBVIOUS
<1> USE DEF IInv, TypesOK, ConvertDone
<1>1. TypesOK'
  BY DEF Phases
<1>2. ResultsOK' /\ BufferOK'
  BY DEF ResultsOK, BufferOK, Failed
<1>3. ConvertToOK'
  BY DEF ConvertToOK, NoneFailed
<1> QED
  BY <1>1, <1>2, <1>3

(* A result that is added is right, and so are those that were there: what *)
(* they are results for does not change any more.                          *)
LEMMA ResultsStayOK ==
  ASSUME IInv, job' = job, stmts' = stmts, NEW n \in 0 .. Len(stmts), NEW t \in Seq(Tokens),
         t = (IF n = 0 THEN Batch(Texts) ELSE Texts[n]), NEW r, r = EmitCall(t),
         results' = Append(results, [of |-> n, text |-> r.text]), buffer' = r.buffer
  PROVE  /\ results' \in Seq([of : Nat, text : Seq(Tokens)])
         /\ Len(results') = Len(results) + 1
         /\ results'[Len(results) + 1] = [of |-> n, text |-> r.text]
         /\ \A i \in 1 .. Len(results) : results'[i] = results[i]
         /\ ResultsOK'
         /\ BufferOK'
<1> USE DEF IInv, TypesOK
<1> DEFINE e == [of |-> n, text |-> r.text]
<1>1. r.text = Alone(t) /\ r.text \in Seq(Tokens) /\ ~ Failed(r.buffer) /\ (r.buffer # <<>> => Failed(r.text))
  BY EmitCallIs
<1>2. e \in [of : Nat, text : Seq(Tokens)] /\ e.of = n /\ e.text = r.text
  BY <1>1
<1> HIDE DEF e
<1>3. /\ results' \in Seq([of : Nat, text : Seq(Tokens)])
      /\ Len(results') = Len(results) + 1 /\ Len(results) \in Nat
      /\ results'[Len(results) + 1] = e
      /\ \A i \in 1 .. Len(results) : results'[i] = results[i]
  BY <1>2 DEF e
<1>4. DOMAIN results' = 1 .. Len(results) + 1 /\ DOMAIN results = 1 .. Len(results)
  BY <1>3
<1>5. Texts' = Texts
  BY DEF Texts
<1>6. ResultsOK'
  <2>1. \A i \in DOMAIN results' : results'[i].of <= Len(stmts) /\ IsOwnText(results'[i])
    <3>1. TAKE i \in DOMAIN results'
    <3>2. CASE i = Len(results) + 1
      <4>1. results'[i].of <= Len(stmts)
        BY <1>2, <1>3, <3>2
      <4> QED
        BY <4>1, <1>1, <1>2, <1>3, <3>2 DEF IsOwnText
    <3>3. CASE i \in 1 .. Len(results)
      BY <3>3, <1>3, <1>4 DEF ResultsOK
    <3> QED
      BY <3>2, <3>3, <1>3, <1>4
  <2> QED
    BY <2>1, <1>5 DEF ResultsOK, IsOwnText
<1>7. BufferOK'
  <2>1. results' # <<>>
    BY <1>3
  <2>2. results'[Len(results')].text = r.text
    BY <1>2, <1>3
  <2> QED
    BY <2>1, <2>2, <1>1 DEF BufferOK
<1> QED
  BY <1>3, <1>6, <1>7 DEF e

LEMMA IInvEmit == IInv /\ Emit => IInv'
<1> SUFFICES ASSUME IInv, Emit PROVE IInv'
  OBVIOUS
<1> USE DEF IInv, TypesOK
<1> DEFINE t == TextOf(job.dialect, stmts[emitted + 1])
           r == EmitCall(t)
           n == emitted + 1
<1>1. /\ phase = "emit" /\ calls # <<>> /\ calls[1] # "batch" /\ emitted < Len(stmts)
      /\ buffer' = r.buffer
      /\ results' = Append(results, [of |-> n, text |-> r.text])
      /\ phase' = IF Failed(r.text) /\ calls[1] = "convertTo" THEN "error" ELSE phase
      /\ emitted' = n
      /\ UNCHANGED <<job, read, stmts, calls>>
  BY DEF Emit
<1>2. Len(stmts) \in Nat /\ n \in 1 .. Len(stmts)
  BY <1>1
<1>3. t \in Seq(Tokens) /\ t = Texts[n]
  BY <1>2, TextsType
<1> HIDE DEF t, r
<1>4. r = EmitCall(t)
  BY DEF r
<1>5. /\ results' \in Seq([of : Nat, text : Seq(Tokens)])
      /\ Len(results') = Len(results) + 1
      /\ results'[Len(results) + 1] = [of |-> n, text |-> r.text]
      /\ \A i \in 1 .. Len(results) : results'[i] = results[i]
      /\ ResultsOK'
      /\ BufferOK'
  BY <1>1, <1>2, <1>3, <1>4, ResultsStayOK
<1> HIDE DEF n
<1>6. TypesOK'
  BY <1>1, <1>2, <1>5 DEF Phases
<1>7. ConvertToOK'
  <2>1. SUFFICES ASSUME job.calls = <<"convertTo">> PROVE ConvertToOK'
    BY <1>1 DEF ConvertToOK
  <2>2. /\ calls = <<"convertTo">> /\ Len(results) = emitted /\ NoneFailed
        /\ \A i \in DOMAIN results : results[i].of = i
    BY <2>1, <1>1 DEF ConvertToOK
  <2>3. /\ Len(results') = n /\ DOMAIN results' = 1 .. n /\ n = Len(results) + 1
        /\ DOMAIN results = 1 .. Len(results) /\ Len(results) \in Nat
    BY <2>2, <1>5 DEF n
  <2>4. results'[n].of = n /\ results'[n].text = r.text
    BY <2>3, <1>5
  <2>5. \A i \in 1 .. n : i # n => i \in 1 .. Len(results) /\ results'[i] = results[i]
    <3>1. \A i \in 1 .. n : i # n => i \in 1 .. Len(results)
      BY <2>3
    <3> QED
      BY <3>1, <1>5
  <2>6. \A i \in DOMAIN results' : results'[i].of = i
    BY <2>2, <2>3, <2>4, <2>5
  <2>7. \A i \in DOMAIN results' : Failed(results'[i].text) <=> i = n /\ Failed(r.text)
    BY <2>2, <2>3, <2>4, <2>5 DEF NoneFailed
  <2>8. phase' = IF Failed(r.text) THEN "error" ELSE "emit"
    BY <1>1, <2>2
  <2>9. CASE Failed(r.text)
    BY <2>2, <2>3, <2>6, <2>7, <2>8, <2>9, <1>1 DEF ConvertToOK
  <2>10. CASE ~ Failed(r.text)
    <3>1. NoneFailed'
      BY <2>7, <2>10 DEF NoneFailed
    <3>2. phase' = "emit"
      BY <2>8, <2>10
    <3> QED
      BY <3>1, <3>2, <2>2, <2>3, <2>6, <1>1 DEF ConvertToOK
  <2> QED
    BY <2>9, <2>10
<1> QED
  BY <1>5, <1>6, <1>7

LEMMA IInvEmitBatch == IInv /\ EmitBatch => IInv'
<1> SUFFICES ASSUME IInv, EmitBatch PROVE IInv'
  OBVIOUS
<1> USE DEF IInv, TypesOK
<1> DEFINE r == EmitCall(Batch(Texts))
<1>1. /\ phase = "emit" /\ calls[1] = "batch"
      /\ buffer' = r.buffer
      /\ results' = Append(results, [of |-> 0, text |-> r.text])
      /\ emitted' = Len(stmts)
      /\ UNCHANGED <<job, read, stmts, calls, phase>>
  BY DEF EmitBatch
<1>2. Batch(Texts) \in Seq(Tokens) /\ Len(stmts) \in Nat
  BY TextsType
<1> HIDE DEF r
<1>3. r = EmitCall(Batch(Texts))
  BY DEF r
<1>4. results' \in Seq([of : Nat, text : Seq(Tokens)]) /\ ResultsOK' /\ BufferOK'
  BY <1>1, <1>2, <1>3, ResultsStayOK
<1>5. TypesOK'
  BY <1>1, <1>2, <1>4
<1>6. ConvertToOK'
  <2>1. job.calls # <<"convertTo">>
    BY <1>1 DEF ConvertToOK
  <2> QED
    BY <2>1, <1>1 DEF ConvertToOK
<1> QED
  BY <1>4, <1>5, <1>6

LEMMA IInvCallDone == IInv /\ CallDone => IInv'
<1> SUFFICES ASSUME IInv, CallDone PROVE IInv'
  OBVIOUS
<1> USE DEF IInv, TypesOK, CallDone
<1>1. calls' \in Seq(Called) /\ (Len(calls) # 1 => calls' # <<>>) /\ Len(stmts) \in Nat
  <2>1. calls \in Seq(Called) /\ calls # <<>> /\ Len(calls) \in Nat
    OBVIOUS
  <2>2. Tail(calls) \in Seq(Called) /\ Len(Tail(calls)) = Len(calls) - 1
    BY <2>1
  <2>3. calls' = Tail(calls) /\ Len(stmts) \in Nat
    OBVIOUS
  <2>4. Len(<<>>) = 0
    OBVIOUS
  <2> HIDE DEF IInv, TypesOK, CallDone
  <2> QED
    BY <2>1, <2>2, <2>3, <2>4
<1>2. TypesOK'
  BY <1>1 DEF Phases
<1>3. ResultsOK' /\ BufferOK'
  BY DEF ResultsOK, IsOwnText, Texts, BufferOK, Failed
<1>4. ConvertToOK'
  <2>1. SUFFICES ASSUME job.calls = <<"convertTo">> PROVE ConvertToOK'
    BY DEF ConvertToOK
  <2>2. calls = <<"convertTo">> /\ Len(results) = emitted /\ NoneFailed
        /\ \A i \in DOMAIN results : results[i].of = i
    BY <2>1 DEF ConvertToOK
  <2>3. phase' = "ok" /\ calls' = <<>>
    BY <2>2
  <2>4. Len(results') = Len(stmts') /\ NoneFailed'
    BY <2>2 DEF NoneFailed
  <2> QED
    BY <2>2, <2>3, <2>4 DEF ConvertToOK
<1> QED
  BY <1>2, <1>3, <1>4

LEMMA IInvStutter == IInv /\ UNCHANGED vars => IInv'
<1> SUFFICES ASSUME IInv, UNCHANGED vars PROVE IInv'
  OBVIOUS
<1>1. /\ job' = job /\ read' = read /\ stmts' = stmts /\ calls' = calls /\ emitted' = emitted
      /\ buffer' = buffer /\ results' = results /\ phase' = phase
  BY DEF vars
<1>2. TypesOK'
  BY <1>1 DEF IInv, TypesOK
<1>3. ResultsOK'
  BY <1>1 DEF IInv, ResultsOK, IsOwnText, Texts
<1>4. BufferOK'
  BY <1>1 DEF IInv, BufferOK
<1>5. ConvertToOK'
  BY <1>1 DEF IInv, ConvertToOK, NoneFailed
<1> QED
  BY <1>2, <1>3, <1>4, <1>5 DEF IInv

THEOREM EmissionInvariant == Spec => []IInv
<1>1. IInv /\ [Next]_vars => IInv'
  BY IInvConvertNext, IInvConvertDone, IInvEmit, IInvEmitBatch, IInvCallDone, IInvStutter DEF Next
<1> QED
  BY <1>1, IInvInit, PTL DEF Spec

(* An emitter's answer depends on its argument alone, whatever it was      *)
(* asked before and however that ended; and convertTo returns one text for *)
(* each statement with a counterpart, or ends with the first error.        *)
THEOREM TextsAreTheirOwn == Spec => []EachTextIsItsOwn
<1>1. IInv => EachTextIsItsOwn
  <2>1. ASSUME IInv PROVE \A i \in DOMAIN results :
          results[i].text = Alone(IF results[i].of = 0 THEN Batch(Texts) ELSE Texts[results[i].of])
    BY <2>1 DEF IInv, ResultsOK, IsOwnText
  <2>2. IInv => ConvertToOK
    BY DEF IInv
  <2> QED
    BY <2>1, <2>2 DEF EachTextIsItsOwn, ConvertToOK, NoneFailed
<1> QED
  BY <1>1, EmissionInvariant, PTL

(* The counters stay within the script, and no buffer outlives a text that *)
(* did not fail.                                                           *)
THEOREM EmissionTypes == Spec => []EmissionOK
<1>1. IInv => EmissionOK
  BY DEF IInv, TypesOK, BufferOK, EmissionOK, Phases
<1> QED
  BY <1>1, EmissionInvariant, PTL

=============================================================================
