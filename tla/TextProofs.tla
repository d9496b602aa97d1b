----------------------------- MODULE TextProofs -----------------------------
(***************************************************************************)
(* Texts, copied and cut into tokens.  The server's copy of a document is  *)
(* the editor's text, for every text and any number of changes: the editor *)
(* finds a position by counting lines and characters, the server by        *)
(* counting bytes, and the proof relates the lines of both, and the bytes  *)
(* before a character to its index.  The lexer's tokens lie in the text    *)
(* one after the other, at the lines the line index has for them, and the  *)
(* lexer comes to the end of every text.                                   *)
(***************************************************************************)
EXTENDS Lexer, DocumentCopy, FiniteSetTheorems, FunctionTheorems, SequenceTheorems, TLAPS

-----------------------------------------------------------------------------
(* Members of a finite set of numbers by the number of members below them. *)
Below(S, n) == {j \in S : j < n}

LEMMA BelowGrows ==
  ASSUME NEW S \in SUBSET Int, IsFiniteSet(S), NEW i \in S, NEW j \in S, i < j
  PROVE  Cardinality(Below(S, i)) < Cardinality(Below(S, j))
<1> DEFINE I == Below(S, i)
           J == Below(S, j)
<1>1. I \subseteq J /\ i \in J /\ i \notin I /\ J \subseteq S
  <2>1. \A k \in S : k \in Int
    OBVIOUS
  <2>2. \A k \in S : k < i => k < j
    BY <2>1
  <2>3. ~(i < i)
    BY <2>1
  <2> QED
    BY <2>2, <2>3 DEF Below
<1>2. IsFiniteSet(J)
  BY <1>1, FS_Subset
<1> HIDE DEF I, J
<1>3. IsFiniteSet(I) /\ Cardinality(I) <= Cardinality(J) /\ Cardinality(I) # Cardinality(J)
  BY <1>1, <1>2, FS_Subset
<1>4. Cardinality(I) \in Nat /\ Cardinality(J) \in Nat
  BY <1>2, <1>3, FS_CardinalityType
<1> QED
  BY <1>3, <1>4 DEF I, J

LEMMA RankedIs ==
  ASSUME NEW S \in SUBSET Int, IsFiniteSet(S), NEW i \in S
  PROVE  Ranked(S, Cardinality(Below(S, i))) = i
<1> DEFINE rank(k) == Cardinality(Below(S, k))
<1>1. \A k \in S : IsFiniteSet(Below(S, k)) /\ rank(k) \in Nat
  <2>1. TAKE k \in S
  <2>2. Below(S, k) \subseteq S
    BY DEF Below
  <2> QED
    BY <2>2, FS_Subset, FS_CardinalityType
<1>2. \A j, k \in S : j < k => rank(j) < rank(k)
  BY BelowGrows
<1> HIDE DEF rank
<1>3. \A k \in S : rank(k) = rank(i) => k = i
  BY <1>1, <1>2
<1>4. Ranked(S, rank(i)) = CHOOSE k \in S : rank(k) = rank(i)
  BY DEF Ranked, rank, Below
<1> QED
  BY <1>3, <1>4 DEF rank

LEMMA RankBounded ==
  ASSUME NEW S \in SUBSET Int, IsFiniteSet(S), NEW i \in S
  PROVE  /\ Cardinality(Below(S, i)) \in Nat
         /\ Cardinality(S) \in Nat
         /\ Cardinality(Below(S, i)) < Cardinality(S)
<1> DEFINE I == Below(S, i)
<1>1. I \subseteq S /\ i \notin I
  BY DEF Below
<1> HIDE DEF I
<1>2. IsFiniteSet(I) /\ Cardinality(I) <= Cardinality(S) /\ Cardinality(I) # Cardinality(S)
  BY <1>1, FS_Subset
<1>3. Cardinality(I) \in Nat /\ Cardinality(S) \in Nat
  BY <1>2, FS_CardinalityType
<1> QED
  BY <1>2, <1>3 DEF I

(* There is a member for every rank: as many ranks as members.             *)
LEMMA RankedExists ==
  ASSUME NEW S \in SUBSET Int, IsFiniteSet(S), NEW n \in 0 .. Cardinality(S) - 1
  PROVE  Ranked(S, n) \in S /\ Cardinality(Below(S, Ranked(S, n))) = n
<1> DEFINE rank(k) == Cardinality(Below(S, k))
           T == 0 .. Cardinality(S) - 1
           f == [k \in S |-> rank(k)]
<1>1. Cardinality(S) \in Nat
  BY FS_CardinalityType
<1>2. \A k \in S : rank(k) \in T
  BY RankBounded
<1>3. \A j, k \in S : rank(j) = rank(k) => j = k
  <2>1. \A j, k \in S : j < k => rank(j) < rank(k)
    BY BelowGrows
  <2>2. \A k \in S : k \in Int /\ rank(k) \in Int
    BY <1>2
  <2> HIDE DEF rank
  <2> QED
    BY <2>1, <2>2
<1> HIDE DEF rank
<1>4. IsFiniteSet(T) /\ Cardinality(T) = Cardinality(S)
  <2> DEFINE c == Cardinality(S)
  <2>1. c \in Nat
    BY <1>1
  <2> HIDE DEF c
  <2>2. IsFiniteSet(0 .. c - 1) /\ Cardinality(0 .. c - 1) = c
    BY <2>1, FS_Interval
  <2> QED
    BY <2>2 DEF c
<1>5. f \in Injection(S, T)
  <2>1. f \in [S -> T]
    BY <1>2
  <2>2. \A j, k \in S : f[j] = f[k] => j = k
    BY <1>3
  <2> HIDE DEF f, T
  <2> QED
    BY <2>1, <2>2, Fun_IsInj
<1> HIDE DEF T
<1>6. f \in Surjection(S, T)
  <2> HIDE DEF f
  <2> QED
    BY <1>4, <1>5, FS_Injection
<1>7. PICK k \in S : rank(k) = n
  <2>1. \A u \in T : \E k \in S : f[k] = u
    <3> HIDE DEF f
    <3> QED
      BY <1>6, Fun_SurjectionProperties
  <2> QED
    BY <2>1 DEF T
<1> QED
  BY <1>7, RankedIs DEF rank

-----------------------------------------------------------------------------
(* The bytes before a character.                                           *)
Wide(t, i) == {k \in 1 .. i - 1 : t[k] = "W"}

LEMMA WideFinite ==
  ASSUME NEW t, NEW i \in Int
  PROVE  IsFiniteSet(Wide(t, i)) /\ Cardinality(Wide(t, i)) \in Nat
<1>1. IsFiniteSet(1 .. i - 1)
  BY FS_Interval
<1>2. Wide(t, i) \subseteq 1 .. i - 1
  BY DEF Wide
<1> QED
  BY <1>1, <1>2, FS_Subset, FS_CardinalityType

LEMMA BytesBeforeIs ==
  ASSUME NEW t, NEW i \in Int
  PROVE  BytesBefore(t, i) = (i - 1) + 2 * Cardinality(Wide(t, i))
BY DEF BytesBefore, Wide

LEMMA BytesBeforeType ==
  ASSUME NEW t, NEW i \in Nat \ {0}
  PROVE  BytesBefore(t, i) \in Nat
BY WideFinite, BytesBeforeIs

LEMMA BytesBeforeGrows ==
  ASSUME NEW t, NEW i \in Nat \ {0}, NEW j \in Nat \ {0}, i < j
  PROVE  BytesBefore(t, i) < BytesBefore(t, j)
<1>1. Wide(t, i) \subseteq Wide(t, j)
  BY DEF Wide
<1>2. Cardinality(Wide(t, i)) <= Cardinality(Wide(t, j))
  BY <1>1, WideFinite, FS_Subset
<1> QED
  BY <1>2, WideFinite, BytesBeforeIs

LEMMA BytesBeforeOrder ==
  ASSUME NEW t, NEW i \in Nat \ {0}, NEW j \in Nat \ {0}
  PROVE  /\ BytesBefore(t, i) < BytesBefore(t, j) <=> i < j
         /\ BytesBefore(t, i) >= BytesBefore(t, j) <=> i >= j
         /\ BytesBefore(t, i) = BytesBefore(t, j) <=> i = j
<1>1. BytesBefore(t, i) \in Nat /\ BytesBefore(t, j) \in Nat
  BY BytesBeforeType
<1>2. i < j => BytesBefore(t, i) < BytesBefore(t, j)
  BY BytesBeforeGrows
<1>3. j < i => BytesBefore(t, j) < BytesBefore(t, i)
  BY BytesBeforeGrows
<1> QED
  BY <1>1, <1>2, <1>3

(* Where every character has one byte, bytes count characters.             *)
LEMMA BytesBeforeNarrow ==
  ASSUME NEW t, NEW i \in Nat \ {0}, NEW j \in Nat, i <= j, \A k \in i .. j - 1 : t[k] # "W"
  PROVE  BytesBefore(t, j) = BytesBefore(t, i) + (j - i)
<1>1. Wide(t, i) = Wide(t, j)
  BY DEF Wide
<1> QED
  BY <1>1, WideFinite, BytesBeforeIs

LEMMA NoneBeforeTheFirst ==
  ASSUME NEW t
  PROVE  BytesBefore(t, 1) = 0
<1>1. Wide(t, 1) = {}
  BY DEF Wide
<1> QED
  BY <1>1, FS_EmptySet, BytesBeforeIs

(* A part of the text by its bytes is the part by its characters.          *)
LEMMA SliceIs ==
  ASSUME NEW t \in Seq(Chars), NEW a \in Nat \ {0}, NEW b \in Nat \ {0}, a <= b, b <= Len(t) + 1
  PROVE  Slice(t, BytesBefore(t, a), BytesBefore(t, b)) = SubSeq(t, a, b - 1)
<1> DEFINE within == {i \in 1 .. Len(t) : BytesBefore(t, i) >= BytesBefore(t, a) /\ BytesBefore(t, i) < BytesBefore(t, b)}
           first == CHOOSE i \in within : \A j \in within : i <= j
           last == CHOOSE i \in within : \A j \in within : i >= j
<1>0. Len(t) \in Nat
  OBVIOUS
<1>1. within = a .. b - 1
  <2>1. \A i \in 1 .. Len(t) : /\ BytesBefore(t, i) >= BytesBefore(t, a) <=> i >= a
                               /\ BytesBefore(t, i) < BytesBefore(t, b) <=> i < b
    BY <1>0, BytesBeforeOrder
  <2> QED
    BY <1>0, <2>1
<1>2. Slice(t, BytesBefore(t, a), BytesBefore(t, b)) = IF within = {} THEN <<>> ELSE SubSeq(t, first, last)
  BY DEF Slice
<1> HIDE DEF within
<1>3. CASE a = b
  <2>1. within = {}
    BY <1>1, <1>3
  <2>2. SubSeq(t, a, b - 1) = <<>>
    BY <1>0, <1>3, EmptySeq
  <2> QED
    BY <1>2, <2>1, <2>2
<1>4. CASE a < b
  <2>1. a \in within /\ b - 1 \in within /\ \A j \in within : j \in Int /\ a <= j /\ b - 1 >= j
    BY <1>1, <1>4
  <2>2. first = a
    <3>1. \A i \in within : (\A j \in within : i <= j) <=> i = a
      BY <2>1
    <3> QED
      BY <2>1, <3>1, Zenon
  <2>3. last = b - 1
    <3>1. \A i \in within : (\A j \in within : i >= j) <=> i = b - 1
      BY <2>1
    <3> QED
      BY <2>1, <3>1, Zenon
  <2> QED
    BY <1>2, <2>1, <2>2, <2>3
<1> QED
  BY <1>3, <1>4

-----------------------------------------------------------------------------
(* The lines of the editor and those of the server.                        *)
OnlyLineFeeds(t) == \A k \in DOMAIN t : t[k] = "CR" => k < Len(t) /\ t[k + 1] = "LF"

LEMMA LinesAreLineFeeds ==
  ASSUME NEW t \in Seq(Chars), OnlyLineFeeds(t)
  PROVE  EditorLineStarts(t) = {1} \cup {i + 1 : i \in LineFeeds(t)}
<1>1. \A k \in DOMAIN t : t[k] = "CR" => k < Len(t) /\ t[k + 1] = "LF"
  BY DEF OnlyLineFeeds
<1>2. {k \in DOMAIN t : t[k] = "LF" \/ (t[k] = "CR" /\ ~(k < Len(t) /\ t[k + 1] = "LF"))} = LineFeeds(t)
  BY <1>1 DEF LineFeeds
<1> QED
  BY <1>2 DEF EditorLineStarts

LEMMA LineFeedsFinite ==
  ASSUME NEW t \in Seq(Chars)
  PROVE  /\ LineFeeds(t) \subseteq 1 .. Len(t)
         /\ LineFeeds(t) \in SUBSET Int
         /\ IsFiniteSet(LineFeeds(t))
<1>1. LineFeeds(t) \subseteq 1 .. Len(t) /\ Len(t) \in Nat
  BY DEF LineFeeds
<1>2. IsFiniteSet(1 .. Len(t))
  BY <1>1, FS_Interval
<1> QED
  BY <1>1, <1>2, FS_Subset

(* As many numbers as there are, each n more.                              *)
LEMMA ShiftedBy ==
  ASSUME NEW S \in SUBSET Int, IsFiniteSet(S), NEW n \in Int, NEW T \in SUBSET Int,
         \A i \in S : i + n \in T, \A u \in T : u - n \in S
  PROVE  IsFiniteSet(T) /\ Cardinality(T) = Cardinality(S)
<1> DEFINE f == [i \in S |-> i + n]
<1>1. f \in Bijection(S, T)
  <2>1. f \in [S -> T]
    OBVIOUS
  <2>2. \A i, j \in S : f[i] = f[j] => i = j
    OBVIOUS
  <2>3. \A u \in T : \E i \in S : f[i] = u
    <3>1. \A u \in T : f[u - n] = u
      OBVIOUS
    <3> QED
      BY <3>1
  <2> HIDE DEF f
  <2> QED
    BY <2>1, <2>2, <2>3, Fun_IsBij
<1> HIDE DEF f
<1>2. ExistsBijection(S, T)
  BY <1>1 DEF ExistsBijection
<1> QED
  BY <1>2, FS_Bijection

LEMMA ShiftedCardinality ==
  ASSUME NEW S \in SUBSET Int, IsFiniteSet(S)
  PROVE  IsFiniteSet({i + 1 : i \in S}) /\ Cardinality({i + 1 : i \in S}) = Cardinality(S)
<1> DEFINE T == {i + 1 : i \in S}
<1>1. T \in SUBSET Int /\ (\A i \in S : i + 1 \in T) /\ \A u \in T : u - 1 \in S
  OBVIOUS
<1> HIDE DEF T
<1>2. IsFiniteSet(T) /\ Cardinality(T) = Cardinality(S)
  BY <1>1, ShiftedBy
<1> QED
  BY <1>2 DEF T

(* A line starts at the same character for the editor and the server.      *)
LEMMA LinesAgree ==
  ASSUME NEW t \in Seq(Chars), OnlyLineFeeds(t), NEW start \in EditorLineStarts(t),
         NEW n, n = Cardinality(Below(EditorLineStarts(t), start))
  PROVE  /\ n \in Nat
         /\ start \in 1 .. Len(t) + 1
         /\ Ranked(EditorLineStarts(t), n) = start
         /\ n < Len(LineOffsets(t))
         /\ LineOffsets(t)[n + 1] = BytesBefore(t, start)
<1> DEFINE feeds == LineFeeds(t)
           starts == EditorLineStarts(t)
           number == Cardinality(feeds)
           offset(k) == IF k = 1 THEN 0 ELSE 1 + BytesBefore(t, Ranked(feeds, k - 2))
<1>1. /\ feeds \subseteq 1 .. Len(t)
      /\ feeds \in SUBSET Int
      /\ IsFiniteSet(feeds)
      /\ number \in Nat
      /\ Len(t) \in Nat
  BY LineFeedsFinite, FS_CardinalityType
<1>2. starts = {1} \cup {i + 1 : i \in feeds}
  BY LinesAreLineFeeds
<1>3. starts \in SUBSET Int /\ IsFiniteSet(starts) /\ start \in 1 .. Len(t) + 1
  <2> DEFINE after == {i + 1 : i \in feeds}
  <2>1. IsFiniteSet(after) /\ starts = after \cup {1}
    BY <1>1, <1>2, ShiftedCardinality
  <2>2. IsFiniteSet(starts)
    <3> HIDE DEF after
    <3> QED
      BY <2>1, FS_AddElement
  <2> QED
    BY <1>1, <1>2, <2>2
<1>4. LineOffsets(t) = [k \in 1 .. number + 1 |-> offset(k)]
  BY DEF LineOffsets
<1>5. Len(LineOffsets(t)) = number + 1 /\ \A k \in 1 .. number + 1 : LineOffsets(t)[k] = offset(k)
  <2> HIDE DEF offset, number
  <2> QED
    BY <1>1, <1>4
<1>6. \A k \in Nat : offset(k + 2) = 1 + BytesBefore(t, Ranked(feeds, k))
  <2>1. TAKE k \in Nat
  <2>2. k + 2 # 1 /\ (k + 2) - 2 = k
    OBVIOUS
  <2>3. Ranked(feeds, (k + 2) - 2) = Ranked(feeds, k)
    BY <2>2
  <2> QED
    BY <2>2, <2>3
<1>7. Ranked(starts, n) = start
  BY <1>3, RankedIs
<1> HIDE DEF number
<1>8. CASE start = 1
  <2>1. Below(starts, start) = {}
    BY <1>1, <1>2, <1>8 DEF Below
  <2>2. n = 0
    BY <2>1, FS_EmptySet
  <2>3. LineOffsets(t)[1] = 0
    BY <1>1, <1>5
  <2> QED
    BY <1>1, <1>3, <1>5, <1>7, <1>8, <2>2, <2>3, NoneBeforeTheFirst
<1>9. CASE start # 1
  <2>1. PICK i \in feeds : start = i + 1
    BY <1>2, <1>9
  <2> DEFINE B == Below(feeds, i)
             m == Cardinality(B)
  <2>2. m \in Nat /\ m < number /\ IsFiniteSet(B) /\ B \in SUBSET Int
    <3>1. B \subseteq feeds
      BY DEF Below
    <3> QED
      BY <1>1, <3>1, RankBounded, FS_Subset DEF number
  <2>3. Below(starts, start) = {1} \cup {j + 1 : j \in B}
    BY <1>1, <1>2, <2>1 DEF Below
  <2>4. 1 \notin {j + 1 : j \in B}
    BY <1>1 DEF Below
  <2>5. n = m + 1
    <3> DEFINE T == {j + 1 : j \in B}
    <3>1. IsFiniteSet(T) /\ Cardinality(T) = m
      BY <2>2, ShiftedCardinality
    <3>2. Below(starts, start) = T \cup {1} /\ 1 \notin T
      BY <2>3, <2>4
    <3> HIDE DEF T, B
    <3> QED
      BY <3>1, <3>2, FS_AddElement
  <2>6. Ranked(feeds, m) = i
    BY <1>1, RankedIs
  <2> HIDE DEF m
  <2>7. LineOffsets(t)[n + 1] = 1 + BytesBefore(t, i)
    <3>1. n + 1 \in 1 .. number + 1 /\ n + 1 = m + 2 /\ m + 1 \in 1 .. number
      BY <1>1, <2>2, <2>5
    <3>2. offset(m + 2) = 1 + BytesBefore(t, Ranked(feeds, m))
      BY <1>6, <2>2, <3>1
    <3> HIDE DEF offset
    <3> QED
      BY <1>5, <2>6, <3>1, <3>2
  <2>8. BytesBefore(t, i + 1) = BytesBefore(t, i) + 1
    <3>1. t[i] # "W" /\ i \in Nat \ {0}
      BY <1>1 DEF LineFeeds
    <3>2. \A k \in i .. (i + 1) - 1 : t[k] # "W"
      BY <3>1
    <3>3. BytesBefore(t, i + 1) = BytesBefore(t, i) + ((i + 1) - i)
      BY <3>1, <3>2, BytesBeforeNarrow
    <3> QED
      BY <3>1, <3>3, BytesBeforeType
  <2>9. BytesBefore(t, i) \in Nat
    BY <1>1, BytesBeforeType
  <2> QED
    BY <1>1, <1>3, <1>5, <1>7, <2>1, <2>2, <2>5, <2>7, <2>8, <2>9
<1> QED
  BY <1>8, <1>9

(* The boundary at the offset of a character is that character's.          *)
LEMMA BoundaryIs ==
  ASSUME NEW t \in Seq(Chars), NEW i \in 1 .. Len(t) + 1
  PROVE  BoundaryFrom(t, BytesBefore(t, i)) = BytesBefore(t, i)
<1> DEFINE beyond == {k \in DOMAIN t : BytesBefore(t, k) >= BytesBefore(t, i)}
<1>1. Len(t) \in Nat /\ DOMAIN t = 1 .. Len(t)
  OBVIOUS
<1>2. beyond = i .. Len(t)
  BY <1>1, BytesBeforeOrder
<1>3. BoundaryFrom(t, BytesBefore(t, i)) =
        IF beyond = {} THEN Size(t) ELSE BytesBefore(t, CHOOSE k \in beyond : \A j \in beyond : k <= j)
  BY DEF BoundaryFrom
<1> HIDE DEF beyond
<1>4. CASE i = Len(t) + 1
  <2>1. beyond = {}
    BY <1>1, <1>2, <1>4
  <2> QED
    BY <1>3, <1>4, <2>1 DEF Size
<1>5. CASE i <= Len(t)
  <2>1. i \in beyond /\ \A j \in beyond : j \in Int /\ i <= j
    BY <1>1, <1>2, <1>5
  <2>2. \A k \in beyond : (\A j \in beyond : k <= j) <=> k = i
    BY <2>1
  <2>3. (CHOOSE k \in beyond : \A j \in beyond : k <= j) = i
    BY <2>1, <2>2, Zenon
  <2> QED
    BY <1>3, <2>1, <2>3
<1> QED
  BY <1>1, <1>4, <1>5

(* The editor finds its own places.                                        *)
LEMMA PlaceIndex ==
  ASSUME NEW t \in Seq(Chars), NEW start \in EditorLineStarts(t), NEW i \in 1 .. Len(t) + 1, start <= i
  PROVE  EditorIndex(t, Place(t, start, i)) = i
<1> DEFINE starts == EditorLineStarts(t)
           breaks == {k \in DOMAIN t : t[k] = "LF" \/ (t[k] = "CR" /\ ~(k < Len(t) /\ t[k + 1] = "LF"))}
           after == {k + 1 : k \in breaks}
           n == Cardinality(Below(starts, start))
<1>1. starts = after \cup {1}
  BY DEF EditorLineStarts
<1>2. breaks \subseteq 1 .. Len(t) /\ Len(t) \in Nat
  OBVIOUS
<1> HIDE DEF breaks, starts
<1>3. IsFiniteSet(breaks) /\ breaks \in SUBSET Int
  <2>1. IsFiniteSet(1 .. Len(t))
    BY <1>2, FS_Interval
  <2>2. \A k \in breaks : k \in 1 .. Len(t) /\ k \in Int
    BY <1>2
  <2>3. breaks \in SUBSET (1 .. Len(t))
    BY <2>2
  <2> QED
    BY <2>1, <2>2, <2>3, FS_Subset
<1>4. IsFiniteSet(after) /\ after \in SUBSET Int
  <2>1. \A k \in breaks : k + 1 \in Int
    BY <1>3
  <2> QED
    BY <1>3, <2>1, ShiftedCardinality
<1> HIDE DEF after
<1>5. IsFiniteSet(starts) /\ starts \in SUBSET Int
  BY <1>1, <1>4, FS_AddElement
<1>6. Ranked(starts, n) = start
  BY <1>5, RankedIs DEF starts
<1>7. Place(t, start, i).line = n /\ Place(t, start, i).character = i - start
  BY DEF Place, Below, starts
<1>8. start \in Int
  BY <1>5 DEF starts
<1> HIDE DEF n
<1> QED
  BY <1>2, <1>6, <1>7, <1>8 DEF EditorIndex, starts

(* A place that means the same to both: the server's offset is that of the *)
(* editor's character.                                                     *)
LEMMA PlacesAgree ==
  ASSUME NEW t \in Seq(Chars), NEW start \in EditorLineStarts(t), NEW i \in 1 .. Len(t) + 1, start <= i,
         NEW p, p = Place(t, start, i), SamePlace(t, p)
  PROVE  EditorIndex(t, p) = i /\ PositionToOffset(t, p) = BytesBefore(t, i)
<1> DEFINE n == Cardinality(Below(EditorLineStarts(t), start))
<1>1. p.line = n /\ p.character = i - start
  BY DEF Place, Below
<1>2. OnlyLineFeeds(t)
  BY DEF SamePlace, OnlyLineFeeds
<1>3. /\ n \in Nat
      /\ start \in 1 .. Len(t) + 1
      /\ Ranked(EditorLineStarts(t), n) = start
      /\ n < Len(LineOffsets(t))
      /\ LineOffsets(t)[n + 1] = BytesBefore(t, start)
  BY <1>2, LinesAgree
<1> HIDE DEF n
<1>4. Len(t) \in Nat /\ Len(LineOffsets(t)) \in Nat
  <2>1. LineOffsets(t) = [k \in 1 .. Cardinality(LineFeeds(t)) + 1 |-> LineOffsets(t)[k]]
    BY DEF LineOffsets
  <2>2. Cardinality(LineFeeds(t)) \in Nat
    BY LineFeedsFinite, FS_CardinalityType
  <2> QED
    BY <2>1, <2>2
<1>5. EditorIndex(t, p) = i
  BY <1>1, <1>3, <1>4 DEF EditorIndex
<1>6. \A k \in start .. i - 1 : t[k] # "W"
  <2>1. \A k \in start .. start + (i - start) - 1 : t[k] # "W"
    BY <1>1, <1>3 DEF SamePlace
  <2> QED
    BY <1>3, <1>4, <2>1
<1>7. BytesBefore(t, i) = BytesBefore(t, start) + (i - start)
  BY <1>3, <1>4, <1>6, BytesBeforeNarrow
<1>8. PositionToOffset(t, p) = BoundaryFrom(t, BytesBefore(t, i))
  <2>1. ~(p.line >= Len(LineOffsets(t)))
    BY <1>1, <1>3, <1>4
  <2>2. LineOffsets(t)[p.line + 1] + p.character = BytesBefore(t, i)
    BY <1>1, <1>3, <1>7
  <2> QED
    BY <2>1, <2>2 DEF PositionToOffset
<1> QED
  BY <1>5, <1>8, BoundaryIs

-----------------------------------------------------------------------------
(* One change makes the same text of the same text.                        *)
LEMMA ChangesAgree ==
  ASSUME NEW t \in Seq(Chars), NEW change \in EditorChanges(t), change.whole \/ SameChange(t, change)
  PROVE  ApplyContentChange(t, change) = EditorChange(t, change)
<1>1. CASE change.whole
  BY <1>1 DEF ApplyContentChange, EditorChange
<1>2. CASE ~change.whole
  <2> DEFINE p == change.from
             q == change.to
  <2>1. /\ p \in EditorPositions(t) /\ q \in EditorPositions(t)
        /\ EditorIndex(t, p) <= EditorIndex(t, q)
    BY <1>2 DEF EditorChanges
  <2>2. SamePlace(t, p) /\ SamePlace(t, q)
    BY <1>2 DEF SameChange
  <2>3. ASSUME NEW r \in EditorPositions(t), SamePlace(t, r)
        PROVE  /\ EditorIndex(t, r) \in 1 .. Len(t) + 1
               /\ PositionToOffset(t, r) = BytesBefore(t, EditorIndex(t, r))
    <3>1. PICK start \in EditorLineStarts(t), i \in 1 .. Len(t) + 1 : r = Place(t, start, i) /\ start <= i
      BY DEF EditorPositions, OnLine
    <3> QED
      BY <2>3, <3>1, PlacesAgree
  <2> DEFINE a == EditorIndex(t, p)
             b == EditorIndex(t, q)
  <2>4. /\ a \in 1 .. Len(t) + 1 /\ b \in 1 .. Len(t) + 1 /\ a <= b
        /\ PositionToOffset(t, p) = BytesBefore(t, a)
        /\ PositionToOffset(t, q) = BytesBefore(t, b)
    BY <2>1, <2>2, <2>3
  <2>5. EditorChange(t, change) = SubSeq(t, 1, a - 1) \o change.text \o SubSeq(t, b, Len(t))
    BY <1>2 DEF EditorChange
  <2>6. ApplyContentChange(t, change) =
          Slice(t, 0, IF PositionToOffset(t, p) > PositionToOffset(t, q) THEN PositionToOffset(t, q)
                      ELSE PositionToOffset(t, p))
          \o change.text \o Slice(t, PositionToOffset(t, q), Size(t))
    BY <1>2 DEF ApplyContentChange
  <2> HIDE DEF a, b, p, q
  <2>7. Len(t) \in Nat
    OBVIOUS
  <2>8. ~(BytesBefore(t, a) > BytesBefore(t, b))
    BY <2>4, <2>7, BytesBeforeOrder, BytesBeforeType
  <2>9. Slice(t, 0, BytesBefore(t, a)) = SubSeq(t, 1, a - 1)
    <3>1. a \in Nat \ {0} /\ 1 <= a /\ a <= Len(t) + 1
      BY <2>4, <2>7
    <3>2. Slice(t, BytesBefore(t, 1), BytesBefore(t, a)) = SubSeq(t, 1, a - 1)
      BY <3>1, SliceIs
    <3> QED
      BY <3>2, NoneBeforeTheFirst
  <2>10. Slice(t, BytesBefore(t, b), Size(t)) = SubSeq(t, b, Len(t))
    <3>1. Slice(t, BytesBefore(t, b), BytesBefore(t, Len(t) + 1)) = SubSeq(t, b, (Len(t) + 1) - 1)
      <4>1. /\ b \in Nat \ {0} /\ Len(t) + 1 \in Nat \ {0}
            /\ b <= Len(t) + 1 /\ Len(t) + 1 <= Len(t) + 1
        BY <2>4, <2>7
      <4> DEFINE e == Len(t) + 1
      <4> HIDE DEF e
      <4>2. Slice(t, BytesBefore(t, b), BytesBefore(t, e)) = SubSeq(t, b, e - 1)
        BY <4>1, SliceIs DEF e
      <4> QED
        BY <4>2 DEF e
    <3> QED
      BY <2>7, <3>1 DEF Size
  <2> QED
    BY <2>4, <2>5, <2>6, <2>8, <2>9, <2>10
<1> QED
  BY <1>1, <1>2

(* What the editor makes of a text is a text.                              *)
LEMMA EditorChangeType ==
  ASSUME NEW t \in Seq(Chars), NEW change \in EditorChanges(t)
  PROVE  EditorChange(t, change) \in Seq(Chars)
<1>1. change.text \in Seq(Chars)
  BY DocumentsAssumption DEF EditorChanges
<1>2. CASE change.whole
  BY <1>1, <1>2 DEF EditorChange
<1>3. CASE ~change.whole
  <2>1. ASSUME NEW r \in EditorPositions(t)
        PROVE  EditorIndex(t, r) \in 1 .. Len(t) + 1
    <3>1. PICK start \in EditorLineStarts(t), i \in 1 .. Len(t) + 1 : r = Place(t, start, i) /\ start <= i
      BY DEF EditorPositions, OnLine
    <3>2. EditorIndex(t, r) = i
      BY <3>1, PlaceIndex
    <3> QED
      BY <3>2
  <2>2. change.from \in EditorPositions(t) /\ change.to \in EditorPositions(t)
    BY <1>3 DEF EditorChanges
  <2> DEFINE a == EditorIndex(t, change.from)
             b == EditorIndex(t, change.to)
  <2>3. a \in 1 .. Len(t) + 1 /\ b \in 1 .. Len(t) + 1 /\ Len(t) \in Nat
    BY <2>1, <2>2
  <2>4. EditorChange(t, change) = SubSeq(t, 1, a - 1) \o change.text \o SubSeq(t, b, Len(t))
    BY <1>3 DEF EditorChange
  <2> HIDE DEF a, b
  <2>5. SubSeq(t, 1, a - 1) \in Seq(Chars) /\ SubSeq(t, b, Len(t)) \in Seq(Chars)
    BY <2>3, SubSeqProperties
  <2> QED
    BY <1>1, <2>4, <2>5
<1> QED
  BY <1>2, <1>3

-----------------------------------------------------------------------------
(* The two texts, and when they are one.                                   *)
CopyInv ==
  /\ editor \in Seq(Chars)
  /\ left \in Nat
  /\ CopyFollowsEditor

LEMMA CopyInvInit == CopyInit => CopyInv
BY DocumentsAssumption DEF CopyInit, Open, CopyInv, CopyFollowsEditor

LEMMA CopyInvStep ==
  ASSUME CopyInv, [ChangeText]_copyVars
  PROVE  CopyInv'
<1>1. CASE ChangeText
  <2>1. PICK change \in EditorChanges(editor) :
          /\ editor' = EditorChange(editor, change)
          /\ server' = ApplyContentChange(server, change)
          /\ common' = (change.whole \/ (common /\ SameChange(editor, change)))
    BY <1>1 DEF ChangeText
  <2>2. editor' \in Seq(Chars)
    BY <2>1, EditorChangeType DEF CopyInv
  <2>3. left' \in Nat
    BY <1>1 DEF ChangeText, CopyInv
  <2>4. ASSUME common'
        PROVE  server' = editor'
    <3>1. CASE change.whole
      BY <2>1, <3>1 DEF ApplyContentChange, EditorChange
    <3>2. CASE common /\ SameChange(editor, change)
      BY <2>1, <3>2, ChangesAgree DEF CopyInv, CopyFollowsEditor
    <3> QED
      BY <2>1, <2>4, <3>1, <3>2
  <2> QED
    BY <2>2, <2>3, <2>4 DEF CopyInv, CopyFollowsEditor
<1>2. CASE UNCHANGED copyVars
  BY <1>2 DEF copyVars, CopyInv, CopyFollowsEditor
<1> QED
  BY <1>1, <1>2

(* However often and wherever the editor changes its text, whatever the    *)
(* text, did_change leaves the server with the same: while every position  *)
(* meant the same to both, and again after the whole text was sent.        *)
THEOREM CopyIsExact == CopySpec => []CopyFollowsEditor
<1>1. CopyInv => CopyFollowsEditor
  BY DEF CopyInv
<1> QED
  BY <1>1, CopyInvInit, CopyInvStep, PTL DEF CopySpec

-----------------------------------------------------------------------------
LEMMA LineOffsetsType ==
  ASSUME NEW t \in Seq(Chars)
  PROVE  /\ Len(LineOffsets(t)) \in Nat \ {0}
         /\ DOMAIN LineOffsets(t) = 1 .. Len(LineOffsets(t))
         /\ LineOffsets(t)[1] = 0
<1> DEFINE number == Cardinality(LineFeeds(t))
           offset(k) == IF k = 1 THEN 0 ELSE 1 + BytesBefore(t, Ranked(LineFeeds(t), k - 2))
<1>1. LineOffsets(t) = [k \in 1 .. number + 1 |-> offset(k)]
  BY DEF LineOffsets
<1>2. number \in Nat
  BY LineFeedsFinite, FS_CardinalityType
<1>3. offset(1) = 0
  OBVIOUS
<1> HIDE DEF number, offset
<1> QED
  BY <1>1, <1>2, <1>3

LEMMA LineOffsetsAreOffsets ==
  ASSUME NEW t \in Seq(Chars), NEW k \in 1 .. Len(LineOffsets(t))
  PROVE  LineOffsets(t)[k] \in Nat
<1> DEFINE number == Cardinality(LineFeeds(t))
           offset(l) == IF l = 1 THEN 0 ELSE 1 + BytesBefore(t, Ranked(LineFeeds(t), l - 2))
<1>1. LineOffsets(t) = [l \in 1 .. number + 1 |-> offset(l)]
  BY DEF LineOffsets
<1>2. number \in Nat
  BY LineFeedsFinite, FS_CardinalityType
<1>3. k \in 1 .. number + 1 /\ LineOffsets(t)[k] = offset(k)
  <2> HIDE DEF number, offset
  <2> QED
    BY <1>1, <1>2
<1>4. CASE k = 1
  BY <1>3, <1>4
<1>5. CASE k # 1
  <2>1. k - 2 \in 0 .. number - 1
    BY <1>2, <1>3, <1>5
  <2>2. Ranked(LineFeeds(t), k - 2) \in 1 .. Len(t)
    BY <2>1, LineFeedsFinite, RankedExists
  <2>3. BytesBefore(t, Ranked(LineFeeds(t), k - 2)) \in Nat
    BY <2>2, BytesBeforeType
  <2> QED
    BY <1>3, <1>5, <2>3
<1> QED
  BY <1>4, <1>5

(* The line of an offset is a line of the text.                            *)
LEMMA LineNumberBounded ==
  ASSUME NEW t \in Seq(Chars), NEW offset \in Nat
  PROVE  LineNumber(t, offset) \in 0 .. Len(LineOffsets(t)) - 1
<1> DEFINE lines == DOMAIN LineOffsets(t)
           before == {k \in lines : LineOffsets(t)[k] <= offset}
<1>1. /\ Len(LineOffsets(t)) \in Nat \ {0}
      /\ lines = 1 .. Len(LineOffsets(t))
      /\ LineOffsets(t)[1] = 0
  BY LineOffsetsType
<1>2. 1 \in before
  BY <1>1
<1>3. LineNumber(t, offset) = IF before = {} THEN 0 ELSE Cardinality(before) - 1
  BY DEF LineNumber
<1>4. before \in SUBSET lines
  OBVIOUS
<1> HIDE DEF before, lines
<1>5. IsFiniteSet(lines) /\ Cardinality(lines) = Len(LineOffsets(t))
  <2> DEFINE n == Len(LineOffsets(t))
  <2>1. n \in Nat \ {0} /\ lines = 1 .. n
    BY <1>1
  <2> HIDE DEF n
  <2>2. IsFiniteSet(1 .. n) /\ Cardinality(1 .. n) = n
    BY <2>1, FS_Interval
  <2> QED
    BY <2>1, <2>2 DEF n
<1>6. /\ IsFiniteSet(before)
      /\ Cardinality(before) <= Len(LineOffsets(t))
      /\ Cardinality(before) \in Nat
      /\ Cardinality(before) # 0
  BY <1>2, <1>4, <1>5, FS_Subset, FS_CardinalityType, FS_EmptySet
<1> QED
  BY <1>1, <1>2, <1>3, <1>6

(* A position the server sends for a character comes back as that          *)
(* character: position_to_offset undoes offset_to_position, in every text  *)
(* and at every character of it, of several bytes or after any break.      *)
THEOREM PositionsRoundTrip ==
  \A t \in Seq(Chars) : \A i \in 1 .. Len(t) + 1 :
    PositionToOffset(t, OffsetToPosition(t, BytesBefore(t, i))) = BytesBefore(t, i)
<1> TAKE t \in Seq(Chars)
<1> TAKE i \in 1 .. Len(t) + 1
<1> DEFINE offset == BytesBefore(t, i)
           n == LineNumber(t, offset)
           p == OffsetToPosition(t, offset)
<1>1. offset \in Nat
  BY BytesBeforeType
<1> HIDE DEF offset
<1>2. n \in 0 .. Len(LineOffsets(t)) - 1 /\ Len(LineOffsets(t)) \in Nat
  BY <1>1, LineNumberBounded, LineOffsetsType
<1>3. p.line = n /\ p.character = offset - LineOffsets(t)[n + 1]
  BY DEF OffsetToPosition
<1>4. LineOffsets(t)[n + 1] \in Int
  BY <1>2, LineOffsetsAreOffsets
<1> HIDE DEF n, p
<1>5. PositionToOffset(t, p) = BoundaryFrom(t, offset)
  <2>1. ~(p.line >= Len(LineOffsets(t)))
    BY <1>2, <1>3
  <2>2. LineOffsets(t)[p.line + 1] + p.character = offset
    BY <1>1, <1>3, <1>4
  <2> QED
    BY <2>1, <2>2 DEF PositionToOffset
<1> QED
  BY <1>5, BoundaryIs DEF offset, p

-----------------------------------------------------------------------------
(* The line of a character is the number of line feeds before it.          *)
LEMMA LinesBefore ==
  ASSUME NEW t \in Seq(Chars), NEW i \in 1 .. Len(t) + 1
  PROVE  LineNumber(t, BytesBefore(t, i)) = Cardinality(Below(LineFeeds(t), i))
<1> DEFINE feeds == LineFeeds(t)
           number == Cardinality(feeds)
           offset(k) == IF k = 1 THEN 0 ELSE 1 + BytesBefore(t, Ranked(feeds, k - 2))
           before == {k \in DOMAIN LineOffsets(t) : LineOffsets(t)[k] <= BytesBefore(t, i)}
           B == Below(feeds, i)
           rank(j) == Cardinality(Below(feeds, j))
           T == {k \in 2 .. number + 1 : Ranked(feeds, k - 2) < i}
           f == [j \in B |-> rank(j) + 2]
<1>1. /\ feeds \subseteq 1 .. Len(t) /\ feeds \in SUBSET Int /\ IsFiniteSet(feeds)
      /\ number \in Nat /\ Len(t) \in Nat
  BY LineFeedsFinite, FS_CardinalityType
<1>2. /\ DOMAIN LineOffsets(t) = 1 .. number + 1
      /\ \A k \in 1 .. number + 1 : LineOffsets(t)[k] = offset(k)
  BY DEF LineOffsets
<1>3. ASSUME NEW k \in 2 .. number + 1
      PROVE  /\ Ranked(feeds, k - 2) \in feeds
             /\ rank(Ranked(feeds, k - 2)) = k - 2
             /\ offset(k) <= BytesBefore(t, i) <=> Ranked(feeds, k - 2) < i
  <2> DEFINE r == Ranked(feeds, k - 2)
  <2>1. k - 2 \in 0 .. number - 1
    BY <1>1
  <2>2. r \in feeds /\ rank(r) = k - 2
    BY <1>1, <2>1, RankedExists
  <2>3. r \in Nat \ {0} /\ r + 1 \in Nat \ {0} /\ t[r] # "W" /\ i \in Nat \ {0}
    BY <1>1, <2>2 DEF LineFeeds
  <2>4. offset(k) = 1 + BytesBefore(t, r)
    BY <1>1
  <2> HIDE DEF r, offset
  <2>5. BytesBefore(t, r + 1) = BytesBefore(t, r) + 1
    <3>1. \A l \in r .. (r + 1) - 1 : t[l] # "W"
      BY <2>3
    <3>2. BytesBefore(t, r + 1) = BytesBefore(t, r) + ((r + 1) - r)
      BY <2>3, <3>1, BytesBeforeNarrow
    <3> QED
      BY <2>3, <3>2, BytesBeforeType
  <2>6. BytesBefore(t, i) >= BytesBefore(t, r + 1) <=> i >= r + 1
    BY <2>3, BytesBeforeOrder
  <2>7. BytesBefore(t, i) \in Nat /\ BytesBefore(t, r) \in Nat
    BY <2>3, BytesBeforeType
  <2>8. offset(k) <= BytesBefore(t, i) <=> r < i
    BY <2>3, <2>4, <2>5, <2>6, <2>7
  <2> QED
    BY <2>2, <2>8 DEF r
<1>4. before = T \cup {1}
  <2>1. offset(1) = 0 /\ BytesBefore(t, i) \in Nat
    BY BytesBeforeType
  <2>2. before = {k \in 1 .. number + 1 : offset(k) <= BytesBefore(t, i)}
    BY <1>2
  <2>3. \A k \in 1 .. number + 1 : k = 1 \/ k \in 2 .. number + 1
    BY <1>1
  <2>4. 1 \in 1 .. number + 1 /\ 2 .. number + 1 \subseteq 1 .. number + 1
    BY <1>1
  <2> HIDE DEF offset, number, before
  <2> QED
    BY <1>3, <2>1, <2>2, <2>3, <2>4
<1>5. B \subseteq feeds /\ IsFiniteSet(B) /\ Cardinality(B) \in Nat
  <2>1. B \subseteq feeds
    BY DEF Below
  <2> HIDE DEF B, feeds
  <2> QED
    BY <1>1, <2>1, FS_Subset, FS_CardinalityType
<1>6. f \in Bijection(B, T)
  <2>1. \A j \in B : rank(j) \in Nat /\ rank(j) < number /\ Ranked(feeds, rank(j)) = j
    BY <1>1, <1>5, RankBounded, RankedIs
  <2>2. \A j \in B : j < i
    BY DEF Below
  <2>3. \A j \in B : rank(j) + 2 \in T
    <3>1. TAKE j \in B
    <3>2. (rank(j) + 2) - 2 = rank(j) /\ rank(j) + 2 \in 2 .. number + 1
      BY <1>1, <2>1
    <3>3. Ranked(feeds, (rank(j) + 2) - 2) < i
      BY <2>1, <2>2, <3>2
    <3> QED
      BY <3>2, <3>3
  <2>4. f \in [B -> T]
    BY <2>3
  <2>5. \A j, k \in B : f[j] = f[k] => j = k
    <3>1. \A j, k \in B : f[j] = f[k] => rank(j) = rank(k)
      BY <2>1
    <3> HIDE DEF f, rank, B
    <3> QED
      BY <2>1, <3>1
  <2>6. \A k \in T : \E j \in B : f[j] = k
    <3>1. TAKE k \in T
    <3> DEFINE r == Ranked(feeds, k - 2)
    <3>2. r \in feeds /\ r < i /\ rank(r) = k - 2 /\ k \in Int
      BY <1>3
    <3>3. r \in B
      BY <3>2 DEF Below
    <3>4. rank(r) + 2 = k
      BY <3>2
    <3> QED
      BY <3>3, <3>4
  <2> HIDE DEF f, T, B
  <2> QED
    BY <2>4, <2>5, <2>6, Fun_IsBij
<1>7. IsFiniteSet(T) /\ Cardinality(T) = Cardinality(B)
  <2> HIDE DEF f, T, B
  <2>1. ExistsBijection(B, T)
    BY <1>6 DEF ExistsBijection
  <2> QED
    BY <1>5, <2>1, FS_Bijection
<1>8. 1 \notin T
  BY <1>1
<1>9. Cardinality(before) = Cardinality(B) + 1
  <2> HIDE DEF T, B, before
  <2> QED
    BY <1>4, <1>7, <1>8, FS_AddElement
<1>10. before # {}
  BY <1>4
<1>11. LineNumber(t, BytesBefore(t, i)) = IF before = {} THEN 0 ELSE Cardinality(before) - 1
  BY DEF LineNumber
<1> HIDE DEF before, B
<1> QED
  BY <1>5, <1>9, <1>10, <1>11 DEF B

(* One character further: its bytes, and a line where it is a line feed.   *)
LEMMA OneFurther ==
  ASSUME NEW t \in Seq(Chars), NEW i \in 1 .. Len(t)
  PROVE  /\ BytesBefore(t, i + 1) = BytesBefore(t, i) + Bytes(t[i])
         /\ Cardinality(Below(LineFeeds(t), i)) \in Nat
         /\ Cardinality(Below(LineFeeds(t), i + 1)) =
              Cardinality(Below(LineFeeds(t), i)) + (IF t[i] = "LF" THEN 1 ELSE 0)
<1>0. i \in Int /\ i + 1 \in Int /\ i \in Nat \ {0} /\ DOMAIN t = 1 .. Len(t) /\ Len(t) \in Nat
  OBVIOUS
<1>1. Wide(t, i + 1) = IF t[i] = "W" THEN Wide(t, i) \cup {i} ELSE Wide(t, i)
  BY <1>0 DEF Wide
<1>2. i \notin Wide(t, i)
  BY <1>0 DEF Wide
<1>3. IsFiniteSet(Wide(t, i)) /\ Cardinality(Wide(t, i)) \in Nat
  BY <1>0, WideFinite
<1>4. Cardinality(Wide(t, i + 1)) = Cardinality(Wide(t, i)) + (IF t[i] = "W" THEN 1 ELSE 0)
  <2> DEFINE V == Wide(t, i)
  <2>1. IsFiniteSet(V \cup {i}) /\ Cardinality(V \cup {i}) = Cardinality(V) + 1
    BY <1>2, <1>3, FS_AddElement
  <2> QED
    BY <1>1, <1>3, <2>1
<1>5. BytesBefore(t, i + 1) = BytesBefore(t, i) + Bytes(t[i])
  BY <1>0, <1>3, <1>4, BytesBeforeIs DEF Bytes
<1> DEFINE B == Below(LineFeeds(t), i)
           C == Below(LineFeeds(t), i + 1)
<1>6. C = IF t[i] = "LF" THEN B \cup {i} ELSE B
  BY <1>0 DEF Below, LineFeeds
<1>7. i \notin B /\ B \subseteq LineFeeds(t)
  BY <1>0 DEF Below
<1> HIDE DEF B, C
<1>8. IsFiniteSet(B) /\ Cardinality(B) \in Nat
  BY <1>7, LineFeedsFinite, FS_Subset, FS_CardinalityType
<1>9. Cardinality(C) = Cardinality(B) + (IF t[i] = "LF" THEN 1 ELSE 0)
  <2>1. Cardinality(B \cup {i}) = Cardinality(B) + 1
    BY <1>7, <1>8, FS_AddElement
  <2> QED
    BY <1>6, <1>8, <2>1
<1> QED
  BY <1>5, <1>8, <1>9 DEF B, C

(* Two sets without a common member have the members of both.              *)
LEMMA DisjointCardinality ==
  ASSUME NEW S, NEW T, IsFiniteSet(S), IsFiniteSet(T), S \cap T = {}
  PROVE  Cardinality(S \cup T) = Cardinality(S) + Cardinality(T)
<1> DEFINE n == Cardinality(S)
           m == Cardinality(T)
<1>1. n \in Nat /\ m \in Nat /\ ExistsBijection(1 .. n, S) /\ ExistsBijection(1 .. m, T)
  BY FS_CardinalityType
<1> HIDE DEF n, m
<1>2. PICK g \in Bijection(1 .. n, S), h \in Bijection(1 .. m, T) : TRUE
  BY <1>1 DEF ExistsBijection
<1> DEFINE f == [k \in 1 .. n + m |-> IF k <= n THEN g[k] ELSE h[k - n]]
<1>3. g \in Surjection(1 .. n, S) /\ h \in Surjection(1 .. m, T)
  BY <1>2 DEF Bijection
<1>4. /\ g \in [1 .. n -> S] /\ \A u \in S : \E k \in 1 .. n : g[k] = u
      /\ \A k, l \in 1 .. n : g[k] = g[l] => k = l
  BY <1>2 DEF Bijection, Injection, Surjection, IsInjective
<1>5. /\ h \in [1 .. m -> T] /\ \A u \in T : \E k \in 1 .. m : h[k] = u
      /\ \A k, l \in 1 .. m : h[k] = h[l] => k = l
  BY <1>2 DEF Bijection, Injection, Surjection, IsInjective
<1>6. /\ \A k \in 1 .. n : k \in 1 .. n + m /\ f[k] = g[k]
      /\ \A k \in 1 .. m : k + n \in 1 .. n + m /\ f[k + n] = h[k]
      /\ \A k \in 1 .. n + m : k \in 1 .. n \/ k - n \in 1 .. m
  <2>1. \A k \in 1 .. m : ~(k + n <= n) /\ (k + n) - n = k /\ k + n \in 1 .. n + m
    BY <1>1
  <2>2. \A k \in 1 .. n : k <= n /\ k \in 1 .. n + m
    BY <1>1
  <2>3. \A k \in 1 .. n + m : k \in 1 .. n \/ k - n \in 1 .. m
    BY <1>1
  <2>4. \A k \in 1 .. m : f[k + n] = h[k]
    <3>1. TAKE k \in 1 .. m
    <3>2. f[k + n] = h[(k + n) - n]
      BY <2>1
    <3> QED
      BY <2>1, <3>2
  <2> QED
    BY <2>1, <2>2, <2>3, <2>4
<1>7. \A k \in 1 .. n + m : k \in 1 .. n \/ \E l \in 1 .. m : k = l + n
  <2>1. TAKE k \in 1 .. n + m
  <2>2. k = (k - n) + n
    BY <1>1
  <2> QED
    BY <1>6, <2>2
<1> HIDE DEF f
<1>8. f \in Bijection(1 .. n + m, S \cup T)
  <2>1. \A k \in 1 .. n + m : f[k] \in S \cup T
    BY <1>4, <1>5, <1>6, <1>7
  <2>2. f \in [1 .. n + m -> S \cup T]
    BY <2>1 DEF f
  <2>3. \A u \in S \cup T : \E k \in 1 .. n + m : f[k] = u
    BY <1>4, <1>5, <1>6
  <2>4. \A k, l \in 1 .. n + m : f[k] = f[l] => k = l
    <3>1. TAKE k, l \in 1 .. n + m
    <3>2. CASE k \in 1 .. n /\ l \in 1 .. n
      BY <1>4, <1>6, <3>2
    <3>3. CASE k \in 1 .. n /\ \E j \in 1 .. m : l = j + n
      BY <1>4, <1>5, <1>6, <3>3
    <3>4. CASE l \in 1 .. n /\ \E j \in 1 .. m : k = j + n
      BY <1>4, <1>5, <1>6, <3>4
    <3>5. CASE (\E j \in 1 .. m : k = j + n) /\ (\E j \in 1 .. m : l = j + n)
      BY <1>5, <1>6, <3>5
    <3> QED
      BY <1>7, <3>2, <3>3, <3>4, <3>5
  <2> QED
    BY <2>2, <2>3, <2>4, Fun_IsBij
<1>9. ExistsBijection(1 .. n + m, S \cup T) /\ n + m \in Nat
  BY <1>1, <1>8 DEF ExistsBijection
<1>10. Cardinality(S \cup T) = n + m
  BY <1>9, FS_CountingElements
<1> QED
  BY <1>10 DEF n, m

(* The bytes of a part of a text.                                          *)
LEMMA SizeOfPart ==
  ASSUME NEW t \in Seq(Chars), NEW a \in Nat \ {0}, NEW b \in Nat \ {0}, a <= b, b <= Len(t) + 1
  PROVE  Size(SubSeq(t, a, b - 1)) = BytesBefore(t, b) - BytesBefore(t, a)
<1> DEFINE u == SubSeq(t, a, b - 1)
           V == {k \in a .. b - 1 : t[k] = "W"}
           W == Wide(u, Len(u) + 1)
<1>0. Len(t) \in Nat
  OBVIOUS
<1>1. Len(u) = b - a /\ \A k \in 1 .. b - a : u[k] = t[a + k - 1]
  <2>1. \A k \in a .. b - 1 : t[k] \in Chars
    BY <1>0
  <2>2. a \in Int /\ b - 1 \in Int
    OBVIOUS
  <2>3. /\ Len(u) = IF a <= b - 1 THEN (b - 1) - a + 1 ELSE 0
        /\ \A k \in 1 .. (b - 1) - a + 1 : u[k] = t[a + k - 1]
    BY <2>1, <2>2, SubSeqProperties
  <2>4. (b - 1) - a + 1 = b - a
    OBVIOUS
  <2> HIDE DEF u
  <2> QED
    BY <2>3, <2>4
<1> HIDE DEF u
<1>2. W = {k \in 1 .. b - a : u[k] = "W"}
  BY <1>1 DEF Wide
<1>3. (\A k \in W : k + (a - 1) \in V) /\ \A k \in V : k - (a - 1) \in W
  <2>1. \A k \in W : k + (a - 1) \in V
    <3>1. \A k \in 1 .. b - a : a + k - 1 = k + (a - 1) /\ k + (a - 1) \in a .. b - 1
      OBVIOUS
    <3> QED
      BY <1>1, <1>2, <3>1
  <2>2. \A k \in V : k - (a - 1) \in W
    <3>1. \A k \in a .. b - 1 : k - (a - 1) \in 1 .. b - a /\ a + (k - (a - 1)) - 1 = k
      OBVIOUS
    <3> QED
      BY <1>1, <1>2, <3>1
  <2> HIDE DEF V, W
  <2> QED
    BY <2>1, <2>2
<1>4. IsFiniteSet(W) /\ W \in SUBSET Int /\ Cardinality(W) \in Nat
  <2>1. IsFiniteSet(1 .. b - a)
    BY FS_Interval
  <2>2. W \in SUBSET (1 .. b - a)
    BY <1>2
  <2>3. IsFiniteSet(W) /\ Cardinality(W) \in Nat
    BY <2>1, <2>2, FS_Subset, FS_CardinalityType
  <2> HIDE DEF W
  <2> QED
    BY <2>2, <2>3
<1>5. IsFiniteSet(V) /\ Cardinality(V) = Cardinality(W)
  <2>1. V \in SUBSET Int
    OBVIOUS
  <2> HIDE DEF V, W
  <2> QED
    BY <1>3, <1>4, <2>1, a - 1 \in Int, ShiftedBy
<1>6. Wide(t, b) = Wide(t, a) \cup V /\ Wide(t, a) \cap V = {}
  BY DEF Wide
<1>7. IsFiniteSet(Wide(t, a)) /\ Cardinality(Wide(t, a)) \in Nat
  BY WideFinite
<1>8. Cardinality(Wide(t, b)) = Cardinality(Wide(t, a)) + Cardinality(W)
  <2> HIDE DEF V, W
  <2> QED
    BY <1>5, <1>6, <1>7, DisjointCardinality
<1>9. /\ BytesBefore(t, b) = (b - 1) + 2 * Cardinality(Wide(t, b))
      /\ BytesBefore(t, a) = (a - 1) + 2 * Cardinality(Wide(t, a))
      /\ BytesBefore(u, Len(u) + 1) = ((Len(u) + 1) - 1) + 2 * Cardinality(W)
  BY <1>1, BytesBeforeIs
<1>10. Size(u) = BytesBefore(u, Len(u) + 1)
  BY DEF Size
<1> HIDE DEF W
<1> QED
  BY <1>1, <1>4, <1>7, <1>8, <1>9, <1>10 DEF u

-----------------------------------------------------------------------------
(* The lexer's cursor: its offset and its line are those of its character, *)
(* the offset where no line feed follows a carriage return, the line where *)
(* there is no carriage return.                                            *)
Unbroken(t) == \A k \in DOMAIN t : t[k] = "CR" => ~(k < Len(t) /\ t[k + 1] = "LF")
NoReturns(t) == \A k \in DOMAIN t : t[k] # "CR"

LineOf(t, i) == 1 + Cardinality(Below(LineFeeds(t), i))

Placed(t, c) ==
  /\ c.at \in 1 .. Len(t) + 1
  /\ Unbroken(t) => c.offset = BytesBefore(t, c.at)
  /\ NoReturns(t) => c.line = LineOf(t, c.at)

(* A cursor that is somewhere in the text, at or after another one.        *)
From(t, c, d) == Placed(t, d) /\ c.at <= d.at

LEMMA StartPlaced ==
  ASSUME NEW t \in Seq(Chars)
  PROVE  Placed(t, Start)
<1>1. Len(t) \in Nat /\ Start.at = 1 /\ Start.line = 1 /\ Start.offset = 0
  BY DEF Start
<1>2. Below(LineFeeds(t), 1) = {}
  BY LineFeedsFinite DEF Below
<1>3. LineOf(t, 1) = 1
  <2>1. Cardinality(Below(LineFeeds(t), 1)) = 0
    BY <1>2, FS_EmptySet
  <2> QED
    BY <2>1 DEF LineOf
<1> QED
  BY <1>1, <1>3, NoneBeforeTheFirst DEF Placed

LEMMA BumpPlaced ==
  ASSUME NEW t \in Seq(Chars), NEW c, Placed(t, c)
  PROVE  /\ Placed(t, Bump(t, c))
         /\ IF AtEnd(t, c) THEN Bump(t, c) = c ELSE c.at < Bump(t, c).at
<1> DEFINE d == Bump(t, c)
           ch == t[c.at]
           broken == ch = "CR" /\ Peek(t, c) = "LF"
<1>1. c.at \in 1 .. Len(t) + 1 /\ Len(t) \in Nat /\ DOMAIN t = 1 .. Len(t)
  BY DEF Placed
<1>2. CASE AtEnd(t, c)
  BY <1>2 DEF Bump
<1>3. CASE ~AtEnd(t, c)
  <2>1. c.at \in 1 .. Len(t) /\ Current(t, c) = ch
    BY <1>1, <1>3 DEF AtEnd, Current
  <2>2. /\ d.at = IF broken THEN c.at + 2 ELSE c.at + 1
        /\ d.line = IF ch \in {"CR", "LF"} THEN c.line + 1 ELSE c.line
        /\ d.offset = BytesBefore(t, c.at) + Bytes(ch)
    BY <1>3, <2>1 DEF Bump
  <2>3. /\ BytesBefore(t, c.at + 1) = BytesBefore(t, c.at) + Bytes(ch)
        /\ Cardinality(Below(LineFeeds(t), c.at)) \in Nat
        /\ Cardinality(Below(LineFeeds(t), c.at + 1)) =
             Cardinality(Below(LineFeeds(t), c.at)) + (IF ch = "LF" THEN 1 ELSE 0)
    BY <2>1, OneFurther
  <2> HIDE DEF d
  <2>4. CASE broken
    <3>1. c.at + 1 <= Len(t) /\ t[c.at + 1] = "LF"
      BY <1>1, <2>4 DEF Peek
    <3>2. ~Unbroken(t) /\ ~NoReturns(t)
      BY <1>1, <2>1, <2>4, <3>1 DEF Unbroken, NoReturns
    <3>3. d.at \in 1 .. Len(t) + 1 /\ c.at < d.at
      BY <1>1, <2>2, <2>4, <3>1
    <3> QED
      BY <1>3, <3>2, <3>3 DEF Placed, d
  <2>5. CASE ~broken
    <3>1. d.at = c.at + 1 /\ d.at \in 1 .. Len(t) + 1 /\ c.at < d.at
      BY <1>1, <2>1, <2>2, <2>5
    <3>2. d.offset = BytesBefore(t, d.at)
      BY <2>2, <2>3, <3>1
    <3>3. NoReturns(t) => d.line = LineOf(t, d.at)
      <4>1. HAVE NoReturns(t)
      <4>2. ch # "CR" /\ c.line = LineOf(t, c.at)
        BY <1>1, <2>1, <4>1 DEF NoReturns, Placed
      <4>3. d.line = IF ch = "LF" THEN c.line + 1 ELSE c.line
        BY <2>2, <4>2
      <4> HIDE DEF ch
      <4> QED
        BY <2>3, <3>1, <4>2, <4>3 DEF LineOf
    <3> QED
      BY <1>3, <3>1, <3>2, <3>3 DEF Placed, d
  <2> QED
    BY <2>4, <2>5
<1> QED
  BY <1>2, <1>3

LEMMA BumpFrom ==
  ASSUME NEW t \in Seq(Chars), NEW c, Placed(t, c)
  PROVE  From(t, c, Bump(t, c))
<1>1. Placed(t, Bump(t, c)) /\ IF AtEnd(t, c) THEN Bump(t, c) = c ELSE c.at < Bump(t, c).at
  BY BumpPlaced
<1> QED
  BY <1>1 DEF From, Placed

LEMMA FromTransitive ==
  ASSUME NEW t \in Seq(Chars), NEW c, NEW d, NEW e, Placed(t, c), From(t, c, d), From(t, d, e)
  PROVE  From(t, c, e)
<1>1. c.at \in Int /\ d.at \in Int /\ e.at \in Int
  BY DEF From, Placed
<1> QED
  BY <1>1 DEF From

(* Several bumps: no further back than one.                                *)
LEMMA BumpsFrom ==
  ASSUME NEW t \in Seq(Chars), NEW c, Placed(t, c)
  PROVE  /\ From(t, Bump(t, c), Bump2(t, c))
         /\ From(t, Bump(t, c), Bump4(t, c))
         /\ From(t, Bump(t, c), Bump7(t, c))
<1>1. \A d : Placed(t, d) => From(t, d, Bump(t, d)) /\ Placed(t, Bump(t, d))
  BY BumpFrom DEF From
<1>2. \A d : Placed(t, d) => /\ From(t, Bump(t, d), Bump2(t, d))
                             /\ From(t, d, Bump2(t, d)) /\ Placed(t, Bump2(t, d))
  <2>1. TAKE d
  <2>2. HAVE Placed(t, d)
  <2>3. From(t, Bump(t, d), Bump2(t, d)) /\ From(t, d, Bump(t, d)) /\ Placed(t, Bump2(t, d))
    BY <1>1, <2>2 DEF Bump2, From
  <2> QED
    BY <2>2, <2>3, FromTransitive
<1>3. \A d : Placed(t, d) => /\ From(t, Bump(t, d), Bump4(t, d))
                             /\ From(t, d, Bump4(t, d)) /\ Placed(t, Bump4(t, d))
  <2>1. TAKE d
  <2>2. HAVE Placed(t, d)
  <2>3. From(t, Bump2(t, d), Bump4(t, d)) /\ Placed(t, Bump4(t, d))
    BY <1>2, <2>2 DEF Bump4
  <2>4. From(t, Bump(t, d), Bump2(t, d)) /\ From(t, d, Bump2(t, d)) /\ Placed(t, Bump(t, d))
    BY <1>1, <1>2, <2>2
  <2> QED
    BY <2>2, <2>3, <2>4, FromTransitive
<1>4. From(t, Bump(t, c), Bump7(t, c))
  <2> DEFINE c4 == Bump4(t, c)
             c6 == Bump2(t, c4)
  <2>1. Placed(t, c4) /\ From(t, Bump(t, c), c4) /\ Placed(t, Bump(t, c))
    BY <1>1, <1>3
  <2> HIDE DEF c4
  <2>2. From(t, c4, c6) /\ Placed(t, c6)
    BY <1>2, <2>1
  <2>3. From(t, Bump(t, c), c6)
    BY <2>1, <2>2, FromTransitive
  <2> HIDE DEF c6
  <2>4. From(t, c6, Bump(t, c6))
    BY <1>1, <2>2
  <2>5. Bump7(t, c) = Bump(t, c6)
    BY DEF Bump7, c6, c4
  <2> QED
    BY <2>1, <2>3, <2>4, <2>5, FromTransitive
<1> QED
  BY <1>2, <1>3, <1>4

-----------------------------------------------------------------------------
(* Where readers go from a cursor: on in the text, and into a loop that    *)
(* ends at the end of the text, or to a token that is read.                *)
Loops == {"while", "closing", "unicode", "counting", "nesting"}

LoopEnds(loop) == /\ loop.at \in Loops \cup {"read"}
                  /\ loop.at = "while" => "EOF" \notin loop.chars
                  /\ loop.at = "unicode" => loop.quote # "EOF"
                  /\ loop.at = "nesting" => loop.depth \in Nat

Goes(t, c, r) == From(t, c, r.c) /\ LoopEnds(r.loop)

LEMMA EofIsNoCharacter ==
  /\ "EOF" \notin Chars /\ "EOF" \notin IdentPart /\ "EOF" \notin Digits /\ "EOF" \notin Blank
  /\ "EOF" \notin Digits \cup {"a", "e"}
<1>1. DOMAIN Longer = Single \cup {"+", "-", "*", "/", "<", ">", "!", "|", "."}
  BY DEF Longer
<1> QED
  BY <1>1 DEF Chars, IdentPart, IdentStart, AsciiLetters, Digits, Blank, Single

LEMMA ReadGoes ==
  ASSUME NEW t, NEW c, NEW d, From(t, c, d), NEW kind
  PROVE  /\ Goes(t, c, Read(kind, d))
         /\ Read(kind, d).c = d /\ Read(kind, d).loop.at = "read" /\ Read(kind, d).loop.kind = kind
BY DEF Goes, Read, LoopEnds, Loops

LEMMA WhileGoes ==
  ASSUME NEW t, NEW c, NEW d, From(t, c, d), NEW kind, NEW chars, "EOF" \notin chars
  PROVE  /\ Goes(t, c, While(chars, kind, d))
         /\ While(chars, kind, d).c = d /\ While(chars, kind, d).loop.at = "while"
         /\ While(chars, kind, d).loop.chars = chars
BY DEF Goes, While, LoopEnds, Loops

LEMMA ClosingGoes ==
  ASSUME NEW t, NEW c, NEW d, From(t, c, d), NEW quote, NEW kind
  PROVE  /\ Goes(t, c, Closing(quote, kind, d))
         /\ Closing(quote, kind, d).c = d /\ Closing(quote, kind, d).loop.at = "closing"
BY DEF Goes, Closing, LoopEnds, Loops

LEMMA UnicodeGoes ==
  ASSUME NEW t, NEW c, NEW d, From(t, c, d), NEW quote, quote # "EOF"
  PROVE  /\ Goes(t, c, Unicode(quote, d))
         /\ Unicode(quote, d).c = d /\ Unicode(quote, d).loop.at = "unicode"
BY DEF Goes, Unicode, LoopEnds, Loops

LEMMA CountingGoes ==
  ASSUME NEW t, NEW c, NEW d, From(t, c, d), NEW dot, NEW exponent
  PROVE  /\ Goes(t, c, Counting(dot, exponent, d))
         /\ Counting(dot, exponent, d).c = d /\ Counting(dot, exponent, d).loop.at = "counting"
BY DEF Goes, Counting, LoopEnds, Loops

LEMMA NestingGoes ==
  ASSUME NEW t, NEW c, NEW d, From(t, c, d), NEW depth \in Nat
  PROVE  /\ Goes(t, c, Nesting(depth, d))
         /\ Nesting(depth, d).c = d /\ Nesting(depth, d).loop.at = "nesting"
BY DEF Goes, Nesting, LoopEnds, Loops

(* One turn of a reader's loop: it goes on in the text or has read.        *)
LoopGoesOn(t, c, loop) ==
  \/ loop.at = "while" /\ Current(t, c) \in loop.chars
  \/ loop.at = "counting" /\ Current(t, c) \in Digits

GoesOn(t, c, r) == Goes(t, c, r) /\ (r.loop.at = "read" \/ c.at < r.c.at)

LEMMA Stays ==
  ASSUME NEW t \in Seq(Chars), NEW c, Placed(t, c)
  PROVE  /\ From(t, c, c)
         /\ ~AtEnd(t, c) => c.at < Bump(t, c).at
         /\ \A d : From(t, Bump(t, c), d) => From(t, c, d) /\ (~AtEnd(t, c) => c.at < d.at)
<1>1. From(t, c, c)
  BY DEF From, Placed
<1>2. ~AtEnd(t, c) => c.at < Bump(t, c).at
  BY BumpPlaced
<1>3. From(t, c, Bump(t, c)) /\ Placed(t, Bump(t, c))
  BY BumpFrom DEF From
<1>4. ASSUME NEW d, From(t, Bump(t, c), d)
      PROVE  From(t, c, d) /\ (~AtEnd(t, c) => c.at < d.at)
  <2>1. c.at \in Int /\ Bump(t, c).at \in Int /\ d.at \in Int /\ Bump(t, c).at <= d.at
    BY <1>3, <1>4 DEF From, Placed
  <2>2. From(t, c, d)
    BY <1>3, <1>4, FromTransitive
  <2> QED
    BY <1>2, <2>1, <2>2
<1> QED
  BY <1>1, <1>2, <1>4

(* Every cursor a reader makes of c is c, or one bump further and more.    *)
LEMMA Cursors ==
  ASSUME NEW t \in Seq(Chars), NEW c, Placed(t, c), NEW n, n = Bump(t, c)
  PROVE  /\ From(t, c, c)
         /\ \A d \in {n, Bump(t, n), Bump2(t, c), Bump(t, Bump2(t, c)), Bump2(t, n), Bump4(t, n), Bump7(t, n)} :
              From(t, c, d) /\ (~AtEnd(t, c) => c.at < d.at)
<1>1. Placed(t, n) /\ From(t, n, n)
  BY BumpFrom, Stays DEF From
<1>2. /\ From(t, n, Bump(t, n)) /\ From(t, n, Bump2(t, c)) /\ Placed(t, Bump(t, n)) /\ Placed(t, Bump2(t, c))
  BY <1>1, BumpFrom, BumpsFrom DEF From
<1>3. From(t, n, Bump(t, Bump2(t, c)))
  BY <1>1, <1>2, BumpFrom, FromTransitive
<1>4. From(t, n, Bump2(t, n)) /\ From(t, n, Bump4(t, n)) /\ From(t, n, Bump7(t, n))
  BY <1>1, <1>2, BumpsFrom, FromTransitive
<1> QED
  BY <1>1, <1>2, <1>3, <1>4, Stays

LEMMA ReaderTurnGoesOn ==
  ASSUME NEW t \in Seq(Chars), NEW c, Placed(t, c), NEW loop, LoopEnds(loop), loop.at \in Loops
  PROVE  /\ GoesOn(t, c, ReaderTurn(t, c, loop))
         /\ LoopGoesOn(t, c, loop) => c.at < ReaderTurn(t, c, loop).c.at
<1> DEFINE n == Bump(t, c)
           r == ReaderTurn(t, c, loop)
<1>1. /\ From(t, c, c)
      /\ From(t, c, n) /\ From(t, c, Bump(t, n)) /\ From(t, c, Bump2(t, c))
      /\ From(t, c, Bump4(t, n)) /\ From(t, c, Bump7(t, n))
      /\ ~AtEnd(t, c) => /\ c.at < n.at /\ c.at < Bump(t, n).at /\ c.at < Bump2(t, c).at
                         /\ c.at < Bump4(t, n).at /\ c.at < Bump7(t, n).at
  BY Cursors
<1>2. AtEnd(t, c) => Current(t, c) = "EOF"
  BY DEF Current
<1>3. CASE loop.at = "while"
  <2>1. r = WhileTurn(t, c, loop) /\ "EOF" \notin loop.chars
    BY <1>3 DEF ReaderTurn, LoopEnds
  <2>2. CASE Current(t, c) \in loop.chars
    <3>1. r = While(loop.chars, loop.kind, n) /\ ~AtEnd(t, c)
      BY <1>2, <2>1, <2>2 DEF WhileTurn
    <3> QED
      BY <1>1, <2>1, <3>1, WhileGoes DEF GoesOn
  <2>3. CASE Current(t, c) \notin loop.chars
    <3>1. r = Read(loop.kind, c)
      BY <2>1, <2>3 DEF WhileTurn
    <3>2. ~LoopGoesOn(t, c, loop)
      BY <1>3, <2>3 DEF LoopGoesOn
    <3> QED
      BY <1>1, <3>1, <3>2, ReadGoes DEF GoesOn
  <2> QED
    BY <2>2, <2>3
<1>4. CASE loop.at = "closing"
  <2>1. r = ClosingTurn(t, c, loop) /\ ~LoopGoesOn(t, c, loop)
    BY <1>4 DEF ReaderTurn, LoopGoesOn
  <2>2. \/ r = Read("Error", c)
        \/ r = Closing(loop.quote, loop.kind, n) /\ ~AtEnd(t, c)
        \/ r = Closing(loop.quote, loop.kind, Bump2(t, c)) /\ ~AtEnd(t, c)
        \/ r = Read(loop.kind, n)
    BY <2>1 DEF ClosingTurn
  <2> QED
    BY <1>1, <2>1, <2>2, ReadGoes, ClosingGoes DEF GoesOn
<1>5. CASE loop.at = "unicode"
  <2>1. r = UnicodeTurn(t, c, loop) /\ ~LoopGoesOn(t, c, loop) /\ loop.quote # "EOF"
    BY <1>5 DEF ReaderTurn, LoopGoesOn, LoopEnds
  <2>2. \/ r = Read("UnicodeString", c)
        \/ r = Read("UnicodeString", n)
        \/ r = Unicode(loop.quote, Bump2(t, c)) /\ ~AtEnd(t, c)
        \/ r = Unicode(loop.quote, Bump7(t, n)) /\ ~AtEnd(t, c)
        \/ r = Unicode(loop.quote, Bump4(t, n)) /\ ~AtEnd(t, c)
        \/ r = Unicode(loop.quote, n) /\ ~AtEnd(t, c)
    <3>1. CASE AtEnd(t, c)
      <4>1. Current(t, c) # loop.quote /\ Current(t, c) # "\\"
        BY <1>2, <2>1, <3>1
      <4> QED
        BY <2>1, <3>1, <4>1 DEF UnicodeTurn
    <3>2. CASE ~AtEnd(t, c) /\ Current(t, c) = loop.quote
      BY <2>1, <3>2 DEF UnicodeTurn
    <3>3. CASE ~AtEnd(t, c) /\ Current(t, c) # loop.quote
      BY <2>1, <3>3 DEF UnicodeTurn
    <3> QED
      BY <3>1, <3>2, <3>3
  <2> QED
    <3>1. CASE \E d : r = Read("UnicodeString", d) /\ From(t, c, d)
      BY <2>1, <3>1, ReadGoes DEF GoesOn
    <3>2. CASE \E d : r = Unicode(loop.quote, d) /\ From(t, c, d) /\ c.at < d.at
      BY <2>1, <3>2, UnicodeGoes DEF GoesOn
    <3> QED
      BY <1>1, <2>2, <3>1, <3>2
<1>6. CASE loop.at = "counting"
  <2>1. r = CountingTurn(t, c, loop)
    BY <1>6 DEF ReaderTurn
  <2>2. LoopGoesOn(t, c, loop) <=> Current(t, c) \in Digits
    BY <1>6 DEF LoopGoesOn
  <2>3. Current(t, c) \in Digits \cup {".", "e"} => ~AtEnd(t, c)
    BY <1>2, EofIsNoCharacter
  <2>4. \/ r = Counting(loop.dot, loop.exponent, n) /\ Current(t, c) \in Digits
        \/ r = Counting(TRUE, loop.exponent, n) /\ ~AtEnd(t, c) /\ Current(t, c) \notin Digits
        \/ r = Read("FloatLiteral", n) /\ Current(t, c) \notin Digits
        \/ r = Counting(loop.dot, TRUE, Bump(t, n)) /\ ~AtEnd(t, c) /\ Current(t, c) \notin Digits
        \/ r = Counting(loop.dot, TRUE, n) /\ ~AtEnd(t, c) /\ Current(t, c) \notin Digits
        \/ Current(t, c) \notin Digits /\ \E kind : r = Read(kind, c)
    <3>1. CASE Current(t, c) \in Digits
      <4>1. Current(t, c) # "." /\ Current(t, c) # "e"
        BY <3>1 DEF Digits
      <4> QED
        BY <2>1, <3>1, <4>1 DEF CountingTurn
    <3>2. CASE Current(t, c) \notin Digits /\ Current(t, c) = "." /\ ~loop.dot
      BY <2>1, <2>3, <3>2 DEF CountingTurn
    <3>3. CASE Current(t, c) \notin Digits /\ Current(t, c) = "e" /\ ~loop.exponent
      BY <2>1, <2>3, <3>3 DEF CountingTurn
    <3>4. CASE Current(t, c) \notin Digits /\ ~(Current(t, c) = "." /\ ~loop.dot)
                 /\ ~(Current(t, c) = "e" /\ ~loop.exponent)
      <4>1. r = Read(IF loop.dot \/ loop.exponent THEN "FloatLiteral" ELSE "Number", c)
        BY <2>1, <3>4 DEF CountingTurn
      <4> QED
        BY <3>4, <4>1
    <3> QED
      BY <3>1, <3>2, <3>3, <3>4
  <2>5. CASE Current(t, c) \in Digits
    <3>1. r = Counting(loop.dot, loop.exponent, n) /\ ~AtEnd(t, c)
      BY <2>3, <2>4, <2>5
    <3> QED
      BY <1>1, <3>1, CountingGoes DEF GoesOn
  <2>6. CASE Current(t, c) \notin Digits
    <3>1. GoesOn(t, c, r)
      <4>1. CASE \E kind, d : r = Read(kind, d) /\ From(t, c, d)
        BY <4>1, ReadGoes DEF GoesOn
      <4>2. CASE \E dot, d : r = Counting(dot, loop.exponent, d) /\ From(t, c, d) /\ c.at < d.at
        BY <4>2, CountingGoes DEF GoesOn
      <4>3. CASE \E d : r = Counting(loop.dot, TRUE, d) /\ From(t, c, d) /\ c.at < d.at
        <5>1. PICK d : r = Counting(loop.dot, TRUE, d) /\ From(t, c, d) /\ c.at < d.at
          BY <4>3
        <5>2. Goes(t, c, Counting(loop.dot, TRUE, d)) /\ Counting(loop.dot, TRUE, d).c = d
          BY <5>1, CountingGoes
        <5> HIDE DEF r
        <5> QED
          BY <5>1, <5>2 DEF GoesOn
      <4> QED
        BY <1>1, <2>4, <2>6, <4>1, <4>2, <4>3
    <3> QED
      BY <2>2, <2>6, <3>1
  <2> QED
    BY <2>5, <2>6
<1>7. CASE loop.at = "nesting"
  <2>1. r = NestingTurn(t, c, loop) /\ ~LoopGoesOn(t, c, loop) /\ loop.depth \in Nat
    BY <1>7 DEF ReaderTurn, LoopGoesOn, LoopEnds
  <2>2. \/ r = Read("BlockComment", c)
        \/ r = Read("Error", c)
        \/ ~AtEnd(t, c) /\ \E depth \in Nat : r = Nesting(depth, Bump2(t, c))
        \/ ~AtEnd(t, c) /\ r = Nesting(loop.depth, n)
    <3> DEFINE pair == <<Current(t, c), Peek(t, c)>>
    <3>1. CASE loop.depth = 0
      BY <2>1, <3>1 DEF NestingTurn
    <3>2. CASE loop.depth # 0 /\ loop.depth > 0 /\ AtEnd(t, c)
      <4>1. pair # <<"/", "*">> /\ pair # <<"*", "/">>
        BY <1>2, <3>2
      <4> QED
        BY <2>1, <3>2, <4>1 DEF NestingTurn
    <3>3. CASE loop.depth # 0 /\ ~AtEnd(t, c)
      <4>1. r \in {Nesting(loop.depth + 1, Bump2(t, c)), Nesting(loop.depth - 1, Bump2(t, c)), Nesting(loop.depth, n)}
        BY <2>1, <3>3 DEF NestingTurn
      <4>2. loop.depth + 1 \in Nat /\ loop.depth - 1 \in Nat
        BY <2>1, <3>3
      <4> QED
        BY <3>3, <4>1, <4>2
    <3> QED
      BY <2>1, <3>1, <3>2, <3>3
  <2> QED
    BY <1>1, <2>1, <2>2, ReadGoes, NestingGoes DEF GoesOn
<1> QED
  BY <1>3, <1>4, <1>5, <1>6, <1>7 DEF Loops

(* A reader's beginning: it moves, or its loop will, or it is an error.    *)
Begins(t, c, r) ==
  /\ Goes(t, c, r)
  /\ r.c.at = c.at => \/ r.loop.at \in Loops /\ LoopGoesOn(t, r.c, r.loop)
                      \/ r.loop.at = "read" /\ r.loop.kind = "Error"

(* The reader is one of these, that of numbers at a digit, that of words   *)
(* at a letter.                                                            *)
OtherReaders(t, c) ==
  {ReadBlockComment(t, c), ReadLineComment(t, c), ReadPrefixed(t, c, "LocalVar", "GlobalVar"),
   ReadPrefixed(t, c, "TempTable", "GlobalTempTable"), ReadBracketIdent(t, c), ReadQuotedIdent(t, c),
   ReadString(t, c), ReadOperator(t, c), ReadUnicodeString(t, c), ReadNationalString(t, c), Read("Error", c)}

LEMMA ReadTokenIs ==
  ASSUME NEW t, NEW c
  PROVE  \/ ReadToken(t, c) = ReadNumber(t, c) /\ Current(t, c) \in Digits
         \/ ReadToken(t, c) = ReadIdentOrKeyword(t, c) /\ Current(t, c) \in IdentStart
         \/ ReadToken(t, c) \in OtherReaders(t, c)
<1>1. ReadToken(t, c) \in OtherReaders(t, c) \cup {ReadNumber(t, c), ReadIdentOrKeyword(t, c)}
  BY Zenon DEF ReadToken, OtherReaders
<1>2. Current(t, c) \notin Digits => ReadToken(t, c) \in OtherReaders(t, c) \cup {ReadIdentOrKeyword(t, c)}
  BY Zenon DEF ReadToken, OtherReaders
<1>3. Current(t, c) \notin IdentStart => ReadToken(t, c) \in OtherReaders(t, c) \cup {ReadNumber(t, c)}
  BY Zenon DEF ReadToken, OtherReaders
<1>4. Current(t, c) \notin Digits /\ Current(t, c) \notin IdentStart => ReadToken(t, c) \in OtherReaders(t, c)
  BY Zenon DEF ReadToken, OtherReaders
<1> QED
  BY <1>1, <1>2, <1>3, <1>4

LEMMA ReadTokenBegins ==
  ASSUME NEW t \in Seq(Chars), NEW c, Placed(t, c), ~AtEnd(t, c)
  PROVE  Begins(t, c, ReadToken(t, c))
<1> DEFINE n == Bump(t, c)
           r == ReadToken(t, c)
<1>1. /\ From(t, c, c)
      /\ \A d \in {n, Bump(t, n), Bump2(t, c), Bump(t, Bump2(t, c))} : From(t, c, d) /\ c.at < d.at
  BY Cursors
<1>3. /\ \A kind : \A d \in {n, Bump(t, n), Bump2(t, c)} : Begins(t, c, Read(kind, d))
      /\ \A kind, chars : "EOF" \notin chars =>
           \A d \in {n, Bump(t, n), Bump2(t, c)} : Begins(t, c, While(chars, kind, d))
      /\ \A kind, quote : quote # "EOF" => Begins(t, c, Closing(quote, kind, n))
      /\ \A quote : quote # "EOF" => Begins(t, c, Unicode(quote, Bump(t, Bump2(t, c))))
      /\ Begins(t, c, Nesting(1, Bump2(t, c)))
  <2> HIDE DEF n
  <2>2. ASSUME NEW d \in {n, Bump(t, n), Bump2(t, c), Bump(t, Bump2(t, c))}
        PROVE  /\ \A kind : Begins(t, c, Read(kind, d))
               /\ \A kind, chars : "EOF" \notin chars => Begins(t, c, While(chars, kind, d))
               /\ \A kind, quote : quote # "EOF" => Begins(t, c, Closing(quote, kind, d))
               /\ \A quote : quote # "EOF" => Begins(t, c, Unicode(quote, d))
               /\ Begins(t, c, Nesting(1, d))
    <3>1. From(t, c, d) /\ d.at # c.at
      BY <1>1 DEF From, Placed
    <3>2. \A kind : Begins(t, c, Read(kind, d))
      BY <3>1, ReadGoes DEF Begins
    <3>3. \A kind, chars : "EOF" \notin chars => Begins(t, c, While(chars, kind, d))
      BY <3>1, WhileGoes DEF Begins
    <3>4. \A kind, quote : quote # "EOF" => Begins(t, c, Closing(quote, kind, d))
      BY <3>1, ClosingGoes DEF Begins
    <3>5. \A quote : quote # "EOF" => Begins(t, c, Unicode(quote, d))
      BY <3>1, UnicodeGoes DEF Begins
    <3>6. Begins(t, c, Nesting(1, d))
      BY <3>1, NestingGoes DEF Begins
    <3> QED
      BY <3>2, <3>3, <3>4, <3>5, <3>6
  <2> QED
    BY <2>2
<1>4. CASE r = ReadBlockComment(t, c)
  BY <1>3, <1>4 DEF ReadBlockComment
<1>5. CASE r = ReadLineComment(t, c)
  <2>1. "EOF" \notin Chars \ {"LF"}
    BY EofIsNoCharacter
  <2> QED
    BY <1>3, <1>5, <2>1 DEF ReadLineComment
<1>6. CASE \/ r = ReadPrefixed(t, c, "LocalVar", "GlobalVar")
           \/ r = ReadPrefixed(t, c, "TempTable", "GlobalTempTable")
  <2>1. PICK one, two : r = ReadPrefixed(t, c, one, two)
    BY <1>6
  <2>2. r = While(IdentPart, two, Bump(t, n)) \/ r = While(IdentPart, one, n)
    BY <2>1 DEF ReadPrefixed
  <2>3. "EOF" \notin IdentPart
    BY EofIsNoCharacter
  <2> QED
    BY <1>3, <2>2, <2>3
<1>7. CASE r = ReadBracketIdent(t, c)
  <2>1. r = Read("[", n) \/ r = Closing("]", "QuotedIdent", n)
    BY <1>7 DEF ReadBracketIdent
  <2>2. "]" # "EOF"
    OBVIOUS
  <2> QED
    BY <1>3, <2>1, <2>2
<1>8. CASE r = ReadQuotedIdent(t, c) \/ r = ReadString(t, c) \/ r = ReadNationalString(t, c)
  <2>1. \E quote, kind : quote # "EOF" /\ r = Closing(quote, kind, n)
    BY <1>8, Zenon DEF ReadQuotedIdent, ReadString, ReadNationalString
  <2> QED
    BY <1>3, <2>1
<1>9. CASE r = ReadNumber(t, c) /\ Current(t, c) \in Digits
  <2>1. CASE r = Counting(FALSE, FALSE, c)
    <3>1. Goes(t, c, r) /\ r.c = c /\ r.loop.at = "counting"
      <4> HIDE DEF r
      <4> QED
        BY <1>1, <2>1 DEF Goes, Counting, LoopEnds, Loops
    <3>2. LoopGoesOn(t, r.c, r.loop)
      BY <1>9, <3>1 DEF LoopGoesOn
    <3> QED
      BY <3>1, <3>2 DEF Begins, Loops
  <2>2. CASE r = While(Digits \cup {"a", "e"}, "HexString", Bump2(t, c))
    BY <1>3, <2>2, EofIsNoCharacter
  <2> QED
    BY <1>9, <2>1, <2>2 DEF ReadNumber
<1>10. CASE r = ReadOperator(t, c)
  <2>1. \E kind : r = Read(kind, Bump(t, n)) \/ r = Read(kind, n)
    BY <1>10 DEF ReadOperator
  <2> QED
    BY <1>3, <2>1
<1>11. CASE r = ReadUnicodeString(t, c)
  <2>1. \/ \E quote : quote # "EOF" /\ r = Unicode(quote, Bump(t, Bump2(t, c)))
        \/ r = Read("Error", Bump2(t, c))
    BY <1>11, Zenon DEF ReadUnicodeString
  <2> QED
    BY <1>3, <2>1
<1>12. CASE r = ReadIdentOrKeyword(t, c) /\ Current(t, c) \in IdentStart
  <2>1. r = While(IdentPart, "Ident", c)
    BY <1>12 DEF ReadIdentOrKeyword
  <2>2. Goes(t, c, r) /\ r.c = c /\ r.loop.at = "while" /\ r.loop.chars = IdentPart
    BY <1>1, <2>1, WhileGoes, EofIsNoCharacter
  <2>3. LoopGoesOn(t, r.c, r.loop)
    BY <1>12, <2>2 DEF LoopGoesOn, IdentPart
  <2> QED
    BY <2>2, <2>3 DEF Begins, Loops
<1>13. CASE r = Read("Error", c)
  BY <1>1, <1>13, ReadGoes DEF Begins
<1> QED
  BY <1>4, <1>5, <1>6, <1>7, <1>8, <1>9, <1>10, <1>11, <1>12, <1>13, ReadTokenIs DEF OtherReaders

-----------------------------------------------------------------------------
(* A token: its text is cut from where it starts to the cursor.            *)
LEMMA PlacedBytes ==
  ASSUME NEW t \in Seq(Chars), NEW c, Placed(t, c)
  PROVE  c.at \in Nat \ {0} /\ c.at <= Len(t) + 1 /\ Len(t) \in Nat /\ BytesBefore(t, c.at) \in Nat
<1>1. c.at \in Nat \ {0} /\ c.at <= Len(t) + 1 /\ Len(t) \in Nat
  BY DEF Placed
<1> QED
  BY <1>1, BytesBeforeType

LEMMA TokenIs ==
  ASSUME NEW t \in Seq(Chars), Unbroken(t), NEW start, NEW c, Placed(t, start), From(t, start, c),
         NEW kind, NEW token, token = Token(t, start, kind, c)
  PROVE  /\ token.start = BytesBefore(t, start.at) /\ token.line = start.line
         /\ kind = "Error" => token.text = <<>> /\ token.end = token.start /\ token.kind = "Unknown"
         /\ kind # "Error" => /\ token.text = SubSeq(t, start.at, c.at - 1)
                              /\ token.end = BytesBefore(t, c.at)
<1> DEFINE piece == TextOf(t, start, kind, c)
<1>1. /\ start.at \in Nat \ {0} /\ c.at \in Nat \ {0} /\ start.at <= c.at /\ c.at <= Len(t) + 1
      /\ BytesBefore(t, start.at) \in Nat /\ BytesBefore(t, c.at) \in Nat
      /\ start.offset = BytesBefore(t, start.at) /\ c.offset = BytesBefore(t, c.at)
  BY PlacedBytes DEF From, Placed
<1>2. /\ token.start = start.offset /\ token.line = start.line
      /\ token.text = piece /\ token.end = start.offset + Size(piece) /\ token.kind = KindOf(kind, piece)
  BY DEF Token
<1>3. CASE kind = "Error"
  <2>1. piece = <<>> /\ KindOf(kind, piece) = "Unknown"
    BY <1>3 DEF TextOf, KindOf
  <2>2. Size(<<>>) = 0
    <3>1. Len(<<>>) + 1 = 1
      OBVIOUS
    <3> QED
      BY <3>1, NoneBeforeTheFirst DEF Size
  <2> HIDE DEF piece
  <2> QED
    BY <1>1, <1>2, <1>3, <2>1, <2>2
<1>4. CASE kind # "Error"
  <2>1. Slice(t, start.offset, c.offset) = SubSeq(t, start.at, c.at - 1)
    BY <1>1, SliceIs
  <2>2. piece = SubSeq(t, start.at, c.at - 1)
    BY <1>4, <2>1 DEF TextOf
  <2>3. Size(SubSeq(t, start.at, c.at - 1)) = BytesBefore(t, c.at) - BytesBefore(t, start.at)
    BY <1>1, SizeOfPart
  <2> HIDE DEF piece
  <2> QED
    BY <1>1, <1>2, <1>4, <2>2, <2>3
<1> QED
  BY <1>3, <1>4

-----------------------------------------------------------------------------
(* What a turn makes of a lexer.                                           *)
Shape(m) ==
  /\ m = [c |-> m.c, start |-> m.start, loop |-> m.loop, tokens |-> m.tokens, preserve |-> m.preserve]
  /\ \E S : m.tokens \in Seq(S)

Comment(m) == m.loop.kind \in {"BlockComment", "LineComment"} /\ ~m.preserve
Given(t, m) == Token(t, m.start, m.loop.kind, m.c)

Skips(t, m, n) ==
  /\ m.loop.at = "between" /\ Current(t, m.c) \in Blank
  /\ n.c = Bump(t, m.c) /\ n.start = m.start /\ n.loop = m.loop /\ n.tokens = m.tokens
Starts(t, m, n) ==
  /\ m.loop.at = "between"
  /\ n.c = ReadToken(t, m.c).c /\ n.loop = ReadToken(t, m.c).loop /\ n.start = m.c /\ n.tokens = m.tokens
GoesAround(t, m, n) ==
  /\ m.loop.at \in Loops
  /\ n.c = ReaderTurn(t, m.c, m.loop).c /\ n.loop = ReaderTurn(t, m.c, m.loop).loop
  /\ n.start = m.start /\ n.tokens = m.tokens
DropsComment(t, m, n) ==
  /\ m.loop.at = "read" /\ Comment(m)
  /\ n.c = m.c /\ n.start = m.start /\ n.loop = Between /\ n.tokens = m.tokens
GivesError(t, m, n) ==
  /\ m.loop.at = "read" /\ m.loop.kind = "Error"
  /\ n.c = Bump(t, m.c) /\ n.start = m.start /\ n.loop = Synchronizing /\ n.tokens = Append(m.tokens, Given(t, m))
GivesToken(t, m, n) ==
  /\ m.loop.at = "read" /\ m.loop.kind # "Error"
  /\ n.c = m.c /\ n.start = m.start /\ n.loop = Between /\ n.tokens = Append(m.tokens, Given(t, m))
Resumes(t, m, n) ==
  /\ m.loop.at = "synchronizing"
  /\ n.c \in {m.c, Bump(t, m.c)} /\ n.start = m.start /\ n.loop = Between /\ n.tokens = m.tokens
Searches(t, m, n) ==
  /\ m.loop.at = "synchronizing" /\ ~AtEnd(t, m.c)
  /\ n.c = Bump(t, m.c) /\ n.start = m.start /\ n.loop = m.loop /\ n.tokens = m.tokens

LEMMA TurnIs ==
  ASSUME NEW t, NEW m, Shape(m), m.loop.at \in Loops \cup {"between", "read", "synchronizing"},
         NEW n, n = Turn(t, m)
  PROVE  /\ Shape(n) /\ n.preserve = m.preserve
         /\ \/ Skips(t, m, n) \/ Starts(t, m, n) \/ GoesAround(t, m, n) \/ DropsComment(t, m, n)
            \/ GivesError(t, m, n) \/ GivesToken(t, m, n) \/ Resumes(t, m, n) \/ Searches(t, m, n)
<1>1. /\ m = [c |-> m.c, start |-> m.start, loop |-> m.loop, tokens |-> m.tokens, preserve |-> m.preserve]
      /\ \E S : m.tokens \in Seq(S)
  BY DEF Shape
<1>2. \A token : \E S : Append(m.tokens, token) \in Seq(S)
  <2>1. TAKE token
  <2>2. PICK S : m.tokens \in Seq(S)
    BY <1>1
  <2>3. m.tokens \in Seq(S \cup {token}) /\ token \in S \cup {token}
    BY <2>2
  <2>4. Append(m.tokens, token) \in Seq(S \cup {token})
    BY <2>3, AppendProperties
  <2> QED
    BY <2>4
<1>3. CASE m.loop.at = "between" /\ Current(t, m.c) \in Blank
  <2>1. n = [m EXCEPT !.c = Bump(t, m.c)]
    BY <1>3 DEF Turn, SkipBlank
  <2> QED
    BY <1>1, <1>3, <2>1 DEF Shape, Skips
<1>4. CASE m.loop.at = "between" /\ Current(t, m.c) \notin Blank
  <2> DEFINE r == ReadToken(t, m.c)
  <2>1. n = [m EXCEPT !.start = m.c, !.c = r.c, !.loop = r.loop]
    BY <1>4 DEF Turn, Begin
  <2> HIDE DEF r
  <2>2. /\ n = [c |-> r.c, start |-> m.c, loop |-> r.loop, tokens |-> m.tokens, preserve |-> m.preserve]
    BY <1>1, <2>1
  <2> QED
    BY <1>1, <1>4, <2>2 DEF Shape, Starts, r
<1>5. CASE m.loop.at \in Loops
  <2> DEFINE r == ReaderTurn(t, m.c, m.loop)
  <2>1. n = [m EXCEPT !.c = r.c, !.loop = r.loop]
    BY <1>5 DEF Turn, ReadOn, Loops
  <2> HIDE DEF r
  <2>2. /\ n = [c |-> r.c, start |-> m.start, loop |-> r.loop, tokens |-> m.tokens, preserve |-> m.preserve]
    BY <1>1, <2>1
  <2> QED
    BY <1>1, <1>5, <2>2 DEF Shape, GoesAround, r
<1>6. CASE m.loop.at = "read"
  <2>1. n = Give(t, m)
    BY <1>6 DEF Turn
  <2>2. CASE Comment(m)
    <3>1. n = [m EXCEPT !.loop = Between]
      BY <2>1, <2>2 DEF Give, Comment
    <3>2. n = [c |-> m.c, start |-> m.start, loop |-> Between, tokens |-> m.tokens, preserve |-> m.preserve]
      BY <1>1, <3>1
    <3> QED
      BY <1>1, <1>6, <2>2, <3>2 DEF Shape, DropsComment
  <2>3. CASE ~Comment(m) /\ m.loop.kind = "Error"
    <3>1. n = [m EXCEPT !.tokens = Append(m.tokens, Given(t, m)), !.c = Bump(t, m.c), !.loop = Synchronizing]
      BY <2>1, <2>3 DEF Give, Comment, Given
    <3>2. n = [c |-> Bump(t, m.c), start |-> m.start, loop |-> Synchronizing, tokens |-> Append(m.tokens, Given(t, m)), preserve |-> m.preserve]
      BY <1>1, <3>1
    <3>3. n.tokens = Append(m.tokens, Given(t, m))
      BY <3>2
    <3>4. \E S : n.tokens \in Seq(S)
      BY <1>2, <3>3
    <3>5. Shape(n) /\ n.preserve = m.preserve
      BY <3>2, <3>4 DEF Shape
    <3>6. GivesError(t, m, n)
      BY <1>6, <2>3, <3>2 DEF GivesError
    <3> QED
      BY <3>5, <3>6
  <2>4. CASE ~Comment(m) /\ m.loop.kind # "Error"
    <3>1. n = [m EXCEPT !.tokens = Append(m.tokens, Given(t, m)), !.loop = Between]
      BY <2>1, <2>4 DEF Give, Comment, Given
    <3>2. n = [c |-> m.c, start |-> m.start, loop |-> Between, tokens |-> Append(m.tokens, Given(t, m)), preserve |-> m.preserve]
      BY <1>1, <3>1
    <3>3. n.tokens = Append(m.tokens, Given(t, m))
      BY <3>2
    <3>4. \E S : n.tokens \in Seq(S)
      BY <1>2, <3>3
    <3>5. Shape(n) /\ n.preserve = m.preserve
      BY <3>2, <3>4 DEF Shape
    <3>6. GivesToken(t, m, n)
      BY <1>6, <2>4, <3>2 DEF GivesToken
    <3> QED
      BY <3>5, <3>6
  <2> QED
    BY <2>2, <2>3, <2>4
<1>7. CASE m.loop.at = "synchronizing"
  <2>1. n = Synchronize(t, m)
    BY <1>7 DEF Turn
  <2>2. \/ n = [m EXCEPT !.loop = Between]
        \/ n = [m EXCEPT !.c = Bump(t, m.c), !.loop = Between]
        \/ n = [m EXCEPT !.c = Bump(t, m.c)] /\ ~AtEnd(t, m.c)
    BY <2>1 DEF Synchronize, Current
  <2>3. \/ n = [c |-> m.c, start |-> m.start, loop |-> Between, tokens |-> m.tokens, preserve |-> m.preserve]
        \/ n = [c |-> Bump(t, m.c), start |-> m.start, loop |-> Between, tokens |-> m.tokens, preserve |-> m.preserve]
        \/ /\ n = [c |-> Bump(t, m.c), start |-> m.start, loop |-> m.loop, tokens |-> m.tokens, preserve |-> m.preserve]
           /\ ~AtEnd(t, m.c)
    BY <1>1, <2>2
  <2> QED
    BY <1>1, <1>7, <2>3 DEF Shape, Resumes, Searches
<1> QED
  BY <1>3, <1>4, <1>5, <1>6, <1>7

-----------------------------------------------------------------------------
(* Where a lexer stands: in the text, no further back than the token it    *)
(* reads; and where that has no character yet, the loop takes the next one *)
(* or it is an error, after which a character is skipped.                  *)
Standing(t, m) ==
  /\ Shape(m)
  /\ Placed(t, m.start) /\ From(t, m.start, m.c)
  /\ m.loop.at \in {"between", "synchronizing"} \/ LoopEnds(m.loop)
  /\ m.start.at = m.c.at =>
       /\ m.loop.at \in Loops => LoopGoesOn(t, m.c, m.loop)
       /\ m.loop.at = "read" => m.loop.kind = "Error" /\ ~AtEnd(t, m.c)

LEMMA LoopNames ==
  /\ "between" \notin Loops /\ "read" \notin Loops /\ "synchronizing" \notin Loops
  /\ Between.at = "between" /\ Synchronizing.at = "synchronizing"
BY DEF Loops, Between, Synchronizing

LEMMA StandingTurn ==
  ASSUME NEW t \in Seq(Chars), NEW m, Standing(t, m), NEW n, n = Turn(t, m)
  PROVE  /\ Shape(n) /\ n.preserve = m.preserve
         /\ \/ Skips(t, m, n) \/ Starts(t, m, n) \/ GoesAround(t, m, n) \/ DropsComment(t, m, n)
            \/ GivesError(t, m, n) \/ GivesToken(t, m, n) \/ Resumes(t, m, n) \/ Searches(t, m, n)
<1>1. Shape(m) /\ m.loop.at \in Loops \cup {"between", "read", "synchronizing"}
  BY DEF Standing, LoopEnds
<1> QED
  BY <1>1, TurnIs

LEMMA StandingKept ==
  ASSUME NEW t \in Seq(Chars), NEW m, Standing(t, m), ~Finished(t, m), NEW n, n = Turn(t, m)
  PROVE  Standing(t, n)
<1>1. /\ Shape(n)
      /\ \/ Skips(t, m, n) \/ Starts(t, m, n) \/ GoesAround(t, m, n) \/ DropsComment(t, m, n)
         \/ GivesError(t, m, n) \/ GivesToken(t, m, n) \/ Resumes(t, m, n) \/ Searches(t, m, n)
  BY StandingTurn
<1>2. Placed(t, m.start) /\ From(t, m.start, m.c) /\ Placed(t, m.c)
  BY DEF Standing, From
<1>3. From(t, m.start, Bump(t, m.c))
  BY <1>2, BumpFrom, FromTransitive
<1>4. CASE Skips(t, m, n)
  BY <1>1, <1>2, <1>3, <1>4, LoopNames DEF Skips, Standing
<1>5. CASE Starts(t, m, n)
  <2> DEFINE r == ReadToken(t, m.c)
  <2>1. n.c = r.c /\ n.loop = r.loop /\ n.start = m.c /\ ~AtEnd(t, m.c)
    BY <1>5 DEF Starts, Finished
  <2>2. Begins(t, m.c, r)
    BY <1>2, <2>1, ReadTokenBegins
  <2> HIDE DEF r
  <2>3. From(t, n.start, n.c) /\ LoopEnds(n.loop)
    BY <2>1, <2>2 DEF Begins, Goes
  <2>4. ASSUME n.start.at = n.c.at
        PROVE  /\ n.loop.at \in Loops => LoopGoesOn(t, n.c, n.loop)
               /\ n.loop.at = "read" => n.loop.kind = "Error" /\ ~AtEnd(t, n.c)
    <3>1. \/ n.loop.at \in Loops /\ LoopGoesOn(t, n.c, n.loop)
          \/ n.loop.at = "read" /\ n.loop.kind = "Error"
      BY <2>1, <2>2, <2>4 DEF Begins
    <3>2. ~AtEnd(t, n.c)
      BY <2>1, <2>4 DEF AtEnd
    <3> QED
      BY <3>1, <3>2, LoopNames
  <2> QED
    BY <1>1, <1>2, <2>1, <2>3, <2>4 DEF Standing
<1>6. CASE GoesAround(t, m, n)
  <2> DEFINE r == ReaderTurn(t, m.c, m.loop)
  <2>1. n.c = r.c /\ n.loop = r.loop /\ n.start = m.start /\ m.loop.at \in Loops
    BY <1>6 DEF GoesAround
  <2>2. LoopEnds(m.loop)
    BY <2>1, LoopNames DEF Standing
  <2>3. GoesOn(t, m.c, r) /\ (LoopGoesOn(t, m.c, m.loop) => m.c.at < r.c.at)
    BY <1>2, <2>1, <2>2, ReaderTurnGoesOn
  <2> HIDE DEF r
  <2>4. From(t, m.c, n.c) /\ LoopEnds(n.loop)
    BY <2>1, <2>3 DEF GoesOn, Goes
  <2>5. From(t, n.start, n.c)
    BY <1>2, <2>1, <2>4, FromTransitive
  <2>6. n.start.at # n.c.at
    <3>1. m.start.at <= m.c.at /\ m.c.at <= n.c.at /\ m.start.at \in Int /\ m.c.at \in Int /\ n.c.at \in Int
      BY <1>2, <2>4 DEF From, Placed
    <3>2. m.start.at = m.c.at => m.c.at < n.c.at
      BY <2>1, <2>3 DEF Standing
    <3> QED
      BY <2>1, <3>1, <3>2
  <2> QED
    BY <1>1, <1>2, <2>1, <2>4, <2>5, <2>6 DEF Standing
<1>7. CASE DropsComment(t, m, n) \/ GivesToken(t, m, n)
  <2>1. n.c = m.c /\ n.start = m.start /\ n.loop = Between
    BY <1>7 DEF DropsComment, GivesToken
  <2> QED
    BY <1>1, <1>2, <2>1, LoopNames DEF Standing
<1>8. CASE GivesError(t, m, n)
  <2>1. n.c = Bump(t, m.c) /\ n.start = m.start /\ n.loop = Synchronizing
    BY <1>8 DEF GivesError
  <2> QED
    BY <1>1, <1>2, <1>3, <2>1, LoopNames DEF Standing
<1>9. CASE Resumes(t, m, n)
  <2>1. n.c \in {m.c, Bump(t, m.c)} /\ n.start = m.start /\ n.loop = Between
    BY <1>9 DEF Resumes
  <2> QED
    BY <1>1, <1>2, <1>3, <2>1, LoopNames DEF Standing
<1>10. CASE Searches(t, m, n)
  <2>1. n.c = Bump(t, m.c) /\ n.start = m.start /\ n.loop.at = "synchronizing"
    BY <1>10 DEF Searches
  <2> QED
    BY <1>1, <1>2, <1>3, <2>1, LoopNames DEF Standing
<1> QED
  BY <1>1, <1>4, <1>5, <1>6, <1>7, <1>8, <1>9, <1>10

LEMMA StandingAtFirst ==
  ASSUME NEW t \in Seq(Chars), NEW preserve
  PROVE  Standing(t, LexerNew(preserve))
<1> DEFINE m == LexerNew(preserve)
<1>1. m.c = Start /\ m.start = Start /\ m.loop = Between /\ m.tokens = <<>> /\ m.preserve = preserve
  BY DEF LexerNew
<1>2. m = [c |-> m.c, start |-> m.start, loop |-> m.loop, tokens |-> m.tokens, preserve |-> m.preserve]
  BY DEF LexerNew
<1>3. m.tokens \in Seq({})
  BY <1>1
<1> HIDE DEF m
<1>4. Shape(m)
  BY <1>2, <1>3 DEF Shape
<1>5. From(t, m.start, m.c) /\ Placed(t, m.start)
  BY <1>1, StartPlaced, Stays
<1>6. m.loop.at = "between"
  BY <1>1, LoopNames
<1>7. Standing(t, m)
  BY <1>4, <1>5, <1>6, LoopNames DEF Standing
<1> QED
  BY <1>7 DEF m

-----------------------------------------------------------------------------
(* What a lexer still has to do: characters, and what is left to do where  *)
(* it stands, which is least where the next turn must take a character.    *)
Rank(m) ==
  CASE m.loop.at = "synchronizing" -> 4
    [] m.loop.at = "between" -> 3
    [] m.loop.at = "read" -> IF m.start.at = m.c.at THEN 2 ELSE 5
    [] OTHER -> IF m.start.at = m.c.at THEN 2 ELSE 6

TurnsLeft(t, m) == 8 * (Len(t) + 1 - m.c.at) + Rank(m)

LEMMA RankIs ==
  ASSUME NEW m
  PROVE  /\ m.loop.at = "synchronizing" => Rank(m) = 4
         /\ m.loop.at = "between" => Rank(m) = 3
         /\ m.loop.at = "read" => Rank(m) = IF m.start.at = m.c.at THEN 2 ELSE 5
         /\ m.loop.at \in Loops => Rank(m) = IF m.start.at = m.c.at THEN 2 ELSE 6
BY DEF Rank, Loops

LEMMA TurnsLeftType ==
  ASSUME NEW t \in Seq(Chars), NEW m, Standing(t, m)
  PROVE  TurnsLeft(t, m) \in Nat
<1>1. m.c.at \in 1 .. Len(t) + 1 /\ Len(t) \in Nat
  BY DEF Standing, From, Placed
<1>2. Rank(m) \in 2 .. 6
  BY RankIs DEF Standing, LoopEnds
<1>3. \A l \in Nat : \A a \in 1 .. l + 1 : \A r \in 2 .. 6 : 8 * (l + 1 - a) + r \in Nat
  OBVIOUS
<1> QED
  BY <1>1, <1>2, <1>3 DEF TurnsLeft

LEMMA TurnLowers ==
  ASSUME NEW t \in Seq(Chars), NEW m, Standing(t, m), ~Finished(t, m), NEW n, n = Turn(t, m)
  PROVE  TurnsLeft(t, n) < TurnsLeft(t, m)
<1> DEFINE before == Len(t) + 1 - m.c.at
           after == Len(t) + 1 - n.c.at
<1>1. Standing(t, n)
  BY StandingKept
<1>2. /\ m.c.at \in 1 .. Len(t) + 1 /\ n.c.at \in 1 .. Len(t) + 1 /\ Len(t) \in Nat
      /\ m.start.at \in 1 .. Len(t) + 1 /\ Placed(t, m.c) /\ m.start.at <= m.c.at
  BY <1>1 DEF Standing, From, Placed
<1>3. /\ before \in Nat /\ after \in Nat
      /\ m.c.at < n.c.at => after <= before - 1
      /\ m.c.at <= n.c.at => after <= before
      /\ m.c.at = n.c.at => after = before
  <2>1. \A l \in Nat : \A a, b \in 1 .. l + 1 :
          /\ l + 1 - a \in Nat
          /\ a < b => l + 1 - b <= (l + 1 - a) - 1
          /\ a <= b => l + 1 - b <= l + 1 - a
    OBVIOUS
  <2> QED
    BY <1>2, <2>1
<1>4. TurnsLeft(t, m) = 8 * before + Rank(m) /\ TurnsLeft(t, n) = 8 * after + Rank(n)
  BY DEF TurnsLeft
<1>5. /\ \/ Skips(t, m, n) \/ Starts(t, m, n) \/ GoesAround(t, m, n) \/ DropsComment(t, m, n)
         \/ GivesError(t, m, n) \/ GivesToken(t, m, n) \/ Resumes(t, m, n) \/ Searches(t, m, n)
  BY StandingTurn
<1>6. /\ m.c.at <= Bump(t, m.c).at
      /\ ~AtEnd(t, m.c) => m.c.at < Bump(t, m.c).at
  BY <1>2, BumpFrom, Stays DEF From
<1> HIDE DEF before, after
<1>7. CASE Skips(t, m, n)
  <2>1. n.c = Bump(t, m.c) /\ n.loop.at = "between" /\ m.loop.at = "between"
    BY <1>7 DEF Skips
  <2>2. ~AtEnd(t, m.c)
    BY <2>1 DEF Finished
  <2>3. Rank(m) = 3 /\ Rank(n) = 3
    BY <2>1, RankIs
  <2> QED
    BY <1>3, <1>4, <1>6, <2>1, <2>2, <2>3
<1>8. CASE Starts(t, m, n)
  <2>1. m.loop.at = "between" /\ n.start = m.c /\ n.c = ReadToken(t, m.c).c /\ n.loop = ReadToken(t, m.c).loop
    BY <1>8 DEF Starts
  <2>2. Begins(t, m.c, ReadToken(t, m.c))
    BY <1>2, <2>1, ReadTokenBegins DEF Finished
  <2>3. n.loop.at \in Loops \cup {"read"} /\ m.c.at <= n.c.at
    BY <2>1, <2>2 DEF Begins, Goes, LoopEnds, From
  <2>4. Rank(m) = 3
    BY <2>1, RankIs
  <2>5. Rank(n) \in 2 .. 6 /\ (m.c.at = n.c.at => Rank(n) = 2)
    BY <2>1, <2>3, RankIs
  <2>6. m.c.at = n.c.at \/ m.c.at < n.c.at
    BY <1>2, <2>3
  <2> QED
    BY <1>3, <1>4, <2>4, <2>5, <2>6
<1>9. CASE GoesAround(t, m, n)
  <2>1. m.loop.at \in Loops /\ n.start = m.start /\ n.c = ReaderTurn(t, m.c, m.loop).c /\ n.loop = ReaderTurn(t, m.c, m.loop).loop
    BY <1>9 DEF GoesAround
  <2>2. LoopEnds(m.loop)
    BY <2>1, LoopNames DEF Standing
  <2>3. GoesOn(t, m.c, ReaderTurn(t, m.c, m.loop)) /\ (LoopGoesOn(t, m.c, m.loop) => m.c.at < ReaderTurn(t, m.c, m.loop).c.at)
    BY <1>2, <2>1, <2>2, ReaderTurnGoesOn
  <2>4. n.loop.at \in Loops \cup {"read"} /\ m.c.at <= n.c.at /\ (n.loop.at = "read" \/ m.c.at < n.c.at)
    BY <2>1, <2>3 DEF GoesOn, Goes, LoopEnds, From
  <2>5. CASE m.start.at = m.c.at
    <3>1. m.c.at < n.c.at
      BY <2>1, <2>3, <2>5 DEF Standing
    <3>2. Rank(m) = 2 /\ Rank(n) \in 2 .. 6
      BY <2>1, <2>4, <2>5, RankIs
    <3> QED
      BY <1>3, <1>4, <3>1, <3>2
  <2>6. CASE m.start.at # m.c.at
    <3>1. Rank(m) = 6 /\ n.start.at # n.c.at
      BY <1>2, <2>1, <2>4, <2>6, RankIs
    <3>2. IF n.loop.at = "read" THEN Rank(n) = 5 ELSE Rank(n) = 6 /\ m.c.at < n.c.at
      BY <2>4, <3>1, RankIs
    <3> QED
      BY <1>3, <1>4, <2>4, <3>1, <3>2
  <2> QED
    BY <2>5, <2>6
<1>10. CASE DropsComment(t, m, n) \/ GivesToken(t, m, n)
  <2>1. n.c = m.c /\ n.loop.at = "between" /\ m.loop.at = "read" /\ m.loop.kind # "Error"
    BY <1>10, LoopNames DEF DropsComment, Comment, GivesToken
  <2>2. m.start.at # m.c.at
    BY <2>1 DEF Standing
  <2>3. Rank(m) = 5 /\ Rank(n) = 3
    BY <2>1, <2>2, RankIs
  <2> QED
    BY <1>3, <1>4, <2>1, <2>3
<1>11. CASE GivesError(t, m, n)
  <2>1. n.c = Bump(t, m.c) /\ n.loop.at = "synchronizing" /\ m.loop.at = "read"
    BY <1>11, LoopNames DEF GivesError
  <2>2. Rank(n) = 4 /\ Rank(m) = IF m.start.at = m.c.at THEN 2 ELSE 5
    BY <2>1, RankIs
  <2>3. m.start.at = m.c.at => m.c.at < n.c.at
    BY <1>6, <2>1 DEF Standing
  <2> QED
    BY <1>3, <1>4, <1>6, <2>1, <2>2, <2>3
<1>12. CASE Resumes(t, m, n)
  <2>1. m.c.at <= n.c.at /\ n.loop.at = "between" /\ m.loop.at = "synchronizing"
    BY <1>2, <1>6, <1>12, LoopNames DEF Resumes
  <2>2. Rank(m) = 4 /\ Rank(n) = 3
    BY <2>1, RankIs
  <2> QED
    BY <1>3, <1>4, <2>1, <2>2
<1>13. CASE Searches(t, m, n)
  <2>1. m.c.at < n.c.at /\ n.loop.at = "synchronizing" /\ m.loop.at = "synchronizing"
    BY <1>6, <1>13 DEF Searches
  <2>2. Rank(m) = 4 /\ Rank(n) = 4
    BY <2>1, RankIs
  <2> QED
    BY <1>3, <1>4, <2>1, <2>2
<1> QED
  BY <1>5, <1>7, <1>8, <1>9, <1>10, <1>11, <1>12, <1>13

-----------------------------------------------------------------------------
(* The tokens a lexer has given lie in the text before its frontier, one   *)
(* after the other.                                                        *)
Frontier(m) == IF m.loop.at = "between" THEN m.c.at ELSE m.start.at

TokenAt(t, token, i, j) ==
  /\ i <= j /\ token.start = BytesBefore(t, i) /\ token.end = BytesBefore(t, j)
  /\ token.text = SubSeq(t, i, j - 1)
  /\ NoReturns(t) => token.line = LineOf(t, i)

Spans(t, m) ==
  /\ \A k \in DOMAIN m.tokens : \E i \in 1 .. Len(t) + 1, j \in 1 .. Frontier(m) : TokenAt(t, m.tokens[k], i, j)
  /\ \A k \in DOMAIN m.tokens : k < Len(m.tokens) => m.tokens[k].end <= m.tokens[k + 1].start

(* Nothing before the frontier is lost: it is blank, or in a token.        *)
Inside(t, token, i) == token.start <= BytesBefore(t, i) /\ BytesBefore(t, i) < token.end

Covered(t, m) ==
  m.preserve /\ (\A k \in DOMAIN m.tokens : m.tokens[k].kind # "Unknown") =>
    /\ m.loop.at # "synchronizing"
    /\ \A i \in 1 .. Frontier(m) - 1 : t[i] \in Blank \/ \E k \in DOMAIN m.tokens : Inside(t, m.tokens[k], i)

LEMMA Appended ==
  ASSUME NEW s, \E S : s \in Seq(S), NEW e, NEW u, u = Append(s, e)
  PROVE  /\ Len(s) \in Nat /\ DOMAIN s = 1 .. Len(s)
         /\ Len(u) = Len(s) + 1 /\ DOMAIN u = 1 .. Len(s) + 1
         /\ \A k \in 1 .. Len(s) : u[k] = s[k]
         /\ u[Len(s) + 1] = e
<1>1. PICK S : s \in Seq(S)
  OBVIOUS
<1>2. s \in Seq(S \cup {e}) /\ e \in S \cup {e}
  BY <1>1
<1>3. /\ u \in Seq(S \cup {e}) /\ Len(u) = Len(s) + 1
      /\ \A k \in 1 .. Len(s) : u[k] = s[k]
      /\ u[Len(s) + 1] = e
  BY <1>2, AppendProperties
<1>4. Len(s) \in Nat /\ DOMAIN s = 1 .. Len(s) /\ DOMAIN u = 1 .. Len(u)
  BY <1>2, <1>3
<1> QED
  BY <1>3, <1>4

LEMMA FrontierMoves ==
  ASSUME NEW t \in Seq(Chars), NEW m, Standing(t, m), ~Finished(t, m), NEW n, n = Turn(t, m)
  PROVE  /\ Frontier(m) \in 1 .. Len(t) + 1 /\ Frontier(n) \in 1 .. Len(t) + 1 /\ Len(t) \in Nat
         /\ Frontier(m) <= Frontier(n)
         /\ Starts(t, m, n) \/ GoesAround(t, m, n) \/ GivesError(t, m, n) \/ Searches(t, m, n) => Frontier(n) = Frontier(m)
<1>1. Standing(t, n)
  BY StandingKept
<1>2. /\ m.c.at \in 1 .. Len(t) + 1 /\ m.start.at \in 1 .. Len(t) + 1 /\ m.start.at <= m.c.at
      /\ n.c.at \in 1 .. Len(t) + 1 /\ n.start.at \in 1 .. Len(t) + 1 /\ n.start.at <= n.c.at
      /\ Len(t) \in Nat /\ Placed(t, m.c)
  BY <1>1 DEF Standing, From, Placed
<1>3. m.c.at <= Bump(t, m.c).at
  BY <1>2, BumpFrom DEF From
<1>4. \/ Skips(t, m, n) \/ Starts(t, m, n) \/ GoesAround(t, m, n) \/ DropsComment(t, m, n)
      \/ GivesError(t, m, n) \/ GivesToken(t, m, n) \/ Resumes(t, m, n) \/ Searches(t, m, n)
  BY StandingTurn
<1>5. Frontier(m) \in 1 .. Len(t) + 1 /\ Frontier(n) \in 1 .. Len(t) + 1
  BY <1>2 DEF Frontier
<1>6. ASSUME Starts(t, m, n) \/ GoesAround(t, m, n) \/ GivesError(t, m, n) \/ Searches(t, m, n)
      PROVE  Frontier(n) = Frontier(m)
  <2>1. CASE Starts(t, m, n)
    <3>1. m.loop.at = "between" /\ n.start = m.c /\ n.loop = ReadToken(t, m.c).loop
      BY <2>1 DEF Starts
    <3>2. LoopEnds(n.loop)
      BY <1>2, <3>1, ReadTokenBegins DEF Finished, Begins, Goes
    <3> QED
      BY <3>1, <3>2, LoopNames DEF Frontier, LoopEnds
  <2>2. CASE GoesAround(t, m, n)
    <3>1. m.loop.at \in Loops /\ n.start = m.start /\ n.loop = ReaderTurn(t, m.c, m.loop).loop
      BY <2>2 DEF GoesAround
    <3>2. LoopEnds(m.loop)
      BY <3>1, LoopNames DEF Standing
    <3>3. LoopEnds(n.loop)
      BY <1>2, <3>1, <3>2, ReaderTurnGoesOn DEF GoesOn, Goes
    <3> QED
      BY <3>1, <3>3, LoopNames DEF Frontier, LoopEnds
  <2>3. CASE GivesError(t, m, n)
    BY <2>3, LoopNames DEF GivesError, Frontier
  <2>4. CASE Searches(t, m, n)
    BY <2>4 DEF Searches, Frontier
  <2> QED
    BY <1>6, <2>1, <2>2, <2>3, <2>4
<1>7. CASE Skips(t, m, n)
  BY <1>2, <1>3, <1>5, <1>6, <1>7 DEF Skips, Frontier
<1>8. CASE DropsComment(t, m, n) \/ GivesToken(t, m, n)
  BY <1>2, <1>5, <1>6, <1>8, LoopNames DEF DropsComment, GivesToken, Frontier
<1>9. CASE Resumes(t, m, n)
  <2>1. m.loop.at = "synchronizing" /\ n.loop.at = "between" /\ m.c.at <= n.c.at
    BY <1>2, <1>3, <1>9, LoopNames DEF Resumes
  <2> QED
    BY <1>2, <1>5, <1>6, <2>1 DEF Frontier
<1> QED
  BY <1>2, <1>4, <1>5, <1>6, <1>7, <1>8, <1>9

(* The token that is given lies between the old frontier and the new one.  *)
LEMMA GivenAt ==
  ASSUME NEW t \in Seq(Chars), Unbroken(t), NEW m, Standing(t, m), NEW n,
         GivesError(t, m, n) \/ GivesToken(t, m, n)
  PROVE  /\ m.loop.at = "read" /\ n.tokens = Append(m.tokens, Given(t, m))
         /\ m.start.at \in 1 .. Len(t) + 1 /\ Frontier(m) = m.start.at
         /\ TokenAt(t, Given(t, m), m.start.at, Frontier(n))
         /\ GivesError(t, m, n) => Given(t, m).kind = "Unknown"
<1> DEFINE token == Given(t, m)
<1>1. Placed(t, m.start) /\ From(t, m.start, m.c)
  BY DEF Standing
<1>2. /\ token.start = BytesBefore(t, m.start.at) /\ token.line = m.start.line
      /\ m.loop.kind = "Error" => token.text = <<>> /\ token.end = token.start /\ token.kind = "Unknown"
      /\ m.loop.kind # "Error" => /\ token.text = SubSeq(t, m.start.at, m.c.at - 1)
                                  /\ token.end = BytesBefore(t, m.c.at)
  BY <1>1, TokenIs DEF Given
<1>3. /\ m.start.at \in 1 .. Len(t) + 1 /\ m.c.at \in 1 .. Len(t) + 1 /\ Len(t) \in Nat /\ m.start.at <= m.c.at
      /\ NoReturns(t) => m.start.line = LineOf(t, m.start.at)
  BY <1>1 DEF From, Placed
<1>4. m.loop.at = "read" /\ n.tokens = Append(m.tokens, Given(t, m)) /\ n.start = m.start
  BY DEF GivesError, GivesToken
<1>5. Frontier(m) = m.start.at
  BY <1>4 DEF Frontier
<1> HIDE DEF token
<1>6. CASE GivesError(t, m, n)
  <2>1. m.loop.kind = "Error" /\ Frontier(n) = m.start.at
    BY <1>4, <1>6, LoopNames DEF GivesError, Frontier
  <2>2. SubSeq(t, m.start.at, m.start.at - 1) = <<>>
    BY <1>3, SubSeqEmpty
  <2>3. TokenAt(t, token, m.start.at, Frontier(n))
    <3>1. token.text = SubSeq(t, m.start.at, m.start.at - 1)
      BY <1>2, <2>1, <2>2
    <3>2. m.start.at <= m.start.at /\ token.end = BytesBefore(t, m.start.at)
      BY <1>2, <1>3, <2>1
    <3> QED
      BY <1>2, <1>3, <2>1, <3>1, <3>2 DEF TokenAt
  <2> QED
    BY <1>2, <1>3, <1>4, <1>5, <2>1, <2>3 DEF token
<1>7. CASE GivesToken(t, m, n)
  <2>1. m.loop.kind # "Error" /\ Frontier(n) = m.c.at
    BY <1>7, LoopNames DEF GivesToken, Frontier
  <2>2. TokenAt(t, token, m.start.at, Frontier(n))
    BY <1>2, <1>3, <2>1 DEF TokenAt
  <2>3. ~GivesError(t, m, n)
    BY <2>1 DEF GivesError
  <2> QED
    BY <1>3, <1>4, <1>5, <2>2, <2>3 DEF token
<1> QED
  BY <1>6, <1>7

LEMMA SpansKept ==
  ASSUME NEW t \in Seq(Chars), Unbroken(t), NEW m, Standing(t, m), ~Finished(t, m), Spans(t, m),
         NEW n, n = Turn(t, m)
  PROVE  Spans(t, n)
<1>1. /\ Frontier(m) \in 1 .. Len(t) + 1 /\ Frontier(n) \in 1 .. Len(t) + 1 /\ Len(t) \in Nat
      /\ Frontier(m) <= Frontier(n)
  BY FrontierMoves
<1>2. \A k \in DOMAIN m.tokens : \E i \in 1 .. Len(t) + 1, j \in 1 .. Frontier(n) : TokenAt(t, m.tokens[k], i, j)
  <2>1. \A j \in 1 .. Frontier(m) : j \in 1 .. Frontier(n)
    BY <1>1
  <2> QED
    BY <2>1 DEF Spans
<1>3. CASE n.tokens = m.tokens
  BY <1>2, <1>3 DEF Spans
<1>4. CASE GivesError(t, m, n) \/ GivesToken(t, m, n)
  <2> DEFINE token == Given(t, m)
             l == Len(m.tokens)
  <2>1. /\ n.tokens = Append(m.tokens, token)
        /\ m.start.at \in 1 .. Len(t) + 1 /\ Frontier(m) = m.start.at
        /\ TokenAt(t, token, m.start.at, Frontier(n))
    BY <1>4, GivenAt
  <2>2. \E S : m.tokens \in Seq(S)
    BY DEF Standing, Shape
  <2> HIDE DEF token
  <2>3. /\ l \in Nat /\ DOMAIN m.tokens = 1 .. l
        /\ Len(n.tokens) = l + 1 /\ DOMAIN n.tokens = 1 .. l + 1
        /\ \A k \in 1 .. l : n.tokens[k] = m.tokens[k]
        /\ n.tokens[l + 1] = token
    BY <2>1, <2>2, Appended
  <2> HIDE DEF l
  <2>4. \A k \in 1 .. l + 1 : k \in 1 .. l \/ k = l + 1
    BY <2>3
  <2>5. ASSUME NEW k \in DOMAIN n.tokens
        PROVE  \E i \in 1 .. Len(t) + 1, j \in 1 .. Frontier(n) : TokenAt(t, n.tokens[k], i, j)
    <3>1. CASE k \in 1 .. l
      BY <1>2, <2>3, <3>1
    <3>2. CASE k = l + 1
      <4>1. Frontier(n) \in 1 .. Frontier(n)
        BY <1>1
      <4>2. TokenAt(t, n.tokens[k], m.start.at, Frontier(n))
        BY <2>1, <2>3, <3>2
      <4> QED
        BY <2>1, <4>1, <4>2
    <3> QED
      BY <2>3, <2>4, <3>1, <3>2
  <2>6. ASSUME NEW k \in DOMAIN n.tokens, k < Len(n.tokens)
        PROVE  n.tokens[k].end <= n.tokens[k + 1].start
    <3>1. k \in 1 .. l /\ k \in DOMAIN m.tokens /\ n.tokens[k] = m.tokens[k]
      BY <2>3, <2>6
    <3>2. CASE k < l
      <4>1. k + 1 \in 1 .. l
        BY <2>3, <3>1, <3>2
      <4>2. n.tokens[k + 1] = m.tokens[k + 1]
        BY <2>3, <4>1
      <4>3. m.tokens[k].end <= m.tokens[k + 1].start
        BY <3>1, <3>2 DEF Spans, l
      <4> QED
        BY <3>1, <4>2, <4>3
    <3>3. CASE k = l
      <4>1. PICK i \in 1 .. Len(t) + 1, j \in 1 .. Frontier(m) : TokenAt(t, m.tokens[k], i, j)
        BY <3>1 DEF Spans
      <4>2. j \in Nat \ {0} /\ m.start.at \in Nat \ {0} /\ j <= m.start.at
        BY <1>1, <2>1, <4>1
      <4>3. BytesBefore(t, m.start.at) >= BytesBefore(t, j)
        BY <4>2, BytesBeforeOrder
      <4>4. BytesBefore(t, m.start.at) \in Nat /\ BytesBefore(t, j) \in Nat
        BY <4>2, BytesBeforeType
      <4>5. m.tokens[k].end = BytesBefore(t, j) /\ n.tokens[k + 1].start = BytesBefore(t, m.start.at)
        BY <2>1, <2>3, <3>3, <4>1 DEF TokenAt
      <4> QED
        BY <3>1, <4>3, <4>4, <4>5
    <3> QED
      BY <2>3, <3>1, <3>2, <3>3
  <2> QED
    BY <2>5, <2>6 DEF Spans
<1>5. n.tokens = m.tokens \/ GivesError(t, m, n) \/ GivesToken(t, m, n)
  <2>1. \/ Skips(t, m, n) \/ Starts(t, m, n) \/ GoesAround(t, m, n) \/ DropsComment(t, m, n)
        \/ GivesError(t, m, n) \/ GivesToken(t, m, n) \/ Resumes(t, m, n) \/ Searches(t, m, n)
    BY StandingTurn
  <2> QED
    BY <2>1 DEF Skips, Starts, GoesAround, DropsComment, Resumes, Searches
<1> QED
  BY <1>3, <1>4, <1>5

LEMMA CoveredKept ==
  ASSUME NEW t \in Seq(Chars), Unbroken(t), NEW m, Standing(t, m), ~Finished(t, m), Covered(t, m),
         NEW n, n = Turn(t, m)
  PROVE  Covered(t, n)
<1> SUFFICES ASSUME n.preserve, \A k \in DOMAIN n.tokens : n.tokens[k].kind # "Unknown"
             PROVE  /\ n.loop.at # "synchronizing"
                    /\ \A i \in 1 .. Frontier(n) - 1 : t[i] \in Blank \/ \E k \in DOMAIN n.tokens : Inside(t, n.tokens[k], i)
  BY DEF Covered
<1> DEFINE Kept(u, i) == t[i] \in Blank \/ \E k \in DOMAIN u.tokens : Inside(t, u.tokens[k], i)
<1>1. /\ n.preserve = m.preserve
      /\ \/ Skips(t, m, n) \/ Starts(t, m, n) \/ GoesAround(t, m, n) \/ DropsComment(t, m, n)
         \/ GivesError(t, m, n) \/ GivesToken(t, m, n) \/ Resumes(t, m, n) \/ Searches(t, m, n)
  BY StandingTurn
<1>2. /\ Frontier(m) \in 1 .. Len(t) + 1 /\ Frontier(n) \in 1 .. Len(t) + 1 /\ Len(t) \in Nat
      /\ Starts(t, m, n) \/ GoesAround(t, m, n) => Frontier(n) = Frontier(m)
  BY FrontierMoves
<1>3. Standing(t, n)
  BY StandingKept
<1>4. ASSUME n.tokens = m.tokens
      PROVE  m.loop.at # "synchronizing" /\ \A i \in 1 .. Frontier(m) - 1 : Kept(m, i)
  BY <1>1, <1>4 DEF Covered
<1>5. CASE Skips(t, m, n)
  <2>1. /\ m.loop.at = "between" /\ n.loop.at = "between" /\ n.tokens = m.tokens
        /\ n.c = Bump(t, m.c) /\ Current(t, m.c) \in Blank
    BY <1>5 DEF Skips
  <2>2. ~AtEnd(t, m.c) /\ m.c.at \in 1 .. Len(t)
    BY <1>2, <2>1 DEF Finished, AtEnd, Frontier
  <2>3. Frontier(m) = m.c.at /\ Frontier(n) = m.c.at + 1 /\ t[m.c.at] \in Blank
    <3>1. ~(t[m.c.at] = "CR" /\ Peek(t, m.c) = "LF")
      <4>1. m.c.at + 1 > Len(t) => Peek(t, m.c) = "EOF"
        BY DEF Peek
      <4>2. m.c.at + 1 <= Len(t) => Peek(t, m.c) = t[m.c.at + 1] /\ m.c.at < Len(t)
        BY <2>2 DEF Peek
      <4>3. m.c.at \in DOMAIN t
        BY <1>2, <2>2
      <4> QED
        BY <1>2, <2>2, <4>1, <4>2, <4>3 DEF Unbroken
    <3>2. Current(t, m.c) = t[m.c.at]
      BY <2>2 DEF Current
    <3>3. n.c.at = m.c.at + 1
      BY <2>1, <2>2, <3>1, <3>2 DEF Bump
    <3> QED
      BY <2>1, <3>2, <3>3 DEF Frontier
  <2>4. \A i \in 1 .. Frontier(n) - 1 : i = m.c.at \/ i \in 1 .. Frontier(m) - 1
    BY <2>2, <2>3
  <2> QED
    BY <1>4, <2>1, <2>3, <2>4
<1>6. CASE Starts(t, m, n) \/ GoesAround(t, m, n)
  <2>1. n.tokens = m.tokens /\ Frontier(n) = Frontier(m)
    BY <1>2, <1>6 DEF Starts, GoesAround
  <2>2. n.loop.at # "synchronizing"
    <3>1. CASE Starts(t, m, n)
      <4>1. ~AtEnd(t, m.c) /\ Placed(t, m.c)
        BY <3>1 DEF Starts, Finished, Standing, From
      <4>2. LoopEnds(n.loop)
        BY <3>1, <4>1, ReadTokenBegins DEF Starts, Begins, Goes
      <4> QED
        BY <4>2, LoopNames DEF LoopEnds
    <3>2. CASE GoesAround(t, m, n)
      <4>1. m.loop.at \in Loops /\ LoopEnds(m.loop) /\ Placed(t, m.c)
        BY <3>2, LoopNames DEF GoesAround, Standing, From
      <4>2. LoopEnds(n.loop)
        BY <3>2, <4>1, ReaderTurnGoesOn DEF GoesAround, GoesOn, Goes
      <4> QED
        BY <4>2, LoopNames DEF LoopEnds
    <3> QED
      BY <1>6, <3>1, <3>2
  <2> QED
    BY <1>4, <2>1, <2>2
<1>7. CASE DropsComment(t, m, n)
  BY <1>1, <1>7 DEF DropsComment, Comment
<1>8. CASE GivesError(t, m, n) \/ GivesToken(t, m, n)
  <2> DEFINE token == Given(t, m)
             l == Len(m.tokens)
  <2>1. /\ n.tokens = Append(m.tokens, token)
        /\ m.start.at \in 1 .. Len(t) + 1 /\ Frontier(m) = m.start.at
        /\ TokenAt(t, token, m.start.at, Frontier(n))
        /\ GivesError(t, m, n) => token.kind = "Unknown"
    BY <1>8, GivenAt
  <2>2. \E S : m.tokens \in Seq(S)
    BY DEF Standing, Shape
  <2> HIDE DEF token
  <2>3. /\ l \in Nat /\ DOMAIN m.tokens = 1 .. l
        /\ DOMAIN n.tokens = 1 .. l + 1
        /\ \A k \in 1 .. l : n.tokens[k] = m.tokens[k]
        /\ n.tokens[l + 1] = token
    BY <2>1, <2>2, Appended
  <2> HIDE DEF l
  <2>4. \A k \in DOMAIN m.tokens : k \in DOMAIN n.tokens /\ n.tokens[k] = m.tokens[k]
    BY <2>3
  <2>5. l + 1 \in DOMAIN n.tokens
    BY <2>3
  <2>6. ~GivesError(t, m, n)
    BY <2>1, <2>3, <2>5
  <2>7. n.loop.at = "between"
    BY <1>8, <2>6, LoopNames DEF GivesToken
  <2>8. \A i \in 1 .. Frontier(m) - 1 : Kept(m, i)
    BY <1>1, <2>4 DEF Covered
  <2>9. ASSUME NEW i \in 1 .. Frontier(n) - 1
        PROVE  Kept(n, i)
    <3>1. CASE i < m.start.at
      <4>1. Kept(m, i)
        BY <1>2, <2>1, <2>8, <3>1
      <4> QED
        BY <2>4, <4>1
    <3>2. CASE i >= m.start.at
      <4>1. /\ i \in Nat \ {0} /\ m.start.at \in Nat \ {0} /\ Frontier(n) \in Nat \ {0}
            /\ m.start.at <= i /\ i < Frontier(n)
        BY <1>2, <2>1, <3>2
      <4>2. BytesBefore(t, i) >= BytesBefore(t, m.start.at) /\ BytesBefore(t, i) < BytesBefore(t, Frontier(n))
        BY <4>1, BytesBeforeOrder
      <4>3. BytesBefore(t, i) \in Nat /\ BytesBefore(t, m.start.at) \in Nat
        BY <4>1, BytesBeforeType
      <4>4. token.start = BytesBefore(t, m.start.at) /\ token.end = BytesBefore(t, Frontier(n))
        BY <2>1 DEF TokenAt
      <4>5. Inside(t, token, i)
        BY <4>2, <4>3, <4>4 DEF Inside
      <4> QED
        BY <2>3, <2>5, <4>5
    <3> QED
      BY <1>2, <2>1, <3>1, <3>2
  <2> QED
    BY <2>7, <2>9
<1>9. CASE Resumes(t, m, n) \/ Searches(t, m, n)
  <2>1. n.tokens = m.tokens /\ m.loop.at = "synchronizing"
    BY <1>9 DEF Resumes, Searches
  <2> QED
    BY <1>4, <2>1
<1> QED
  BY <1>1, <1>5, <1>6, <1>7, <1>8, <1>9

-----------------------------------------------------------------------------
(* The lexer's invariant.                                                  *)
LexInv ==
  /\ text \in Seq(Chars)
  /\ Standing(text, lexer)
  /\ Unbroken(text) => Spans(text, lexer) /\ Covered(text, lexer)

LEMMA LexInvInit == LexInit => LexInv
<1> SUFFICES ASSUME LexInit PROVE LexInv
  OBVIOUS
<1>1. text \in Seq(Chars) /\ \E preserve \in BOOLEAN : lexer = LexerNew(preserve)
  BY DEF LexInit
<1>2. Standing(text, lexer)
  BY <1>1, StandingAtFirst
<1>3. lexer.tokens = <<>> /\ lexer.c.at = 1 /\ lexer.loop.at = "between"
  BY <1>1 DEF LexerNew, Between, Start
<1>4. DOMAIN lexer.tokens = {} /\ Frontier(lexer) = 1
  BY <1>3 DEF Frontier
<1>5. Spans(text, lexer)
  BY <1>4 DEF Spans
<1>6. Covered(text, lexer)
  <2>1. 1 .. Frontier(lexer) - 1 = {}
    BY <1>4
  <2> QED
    BY <1>3, <2>1 DEF Covered
<1> QED
  BY <1>1, <1>2, <1>5, <1>6 DEF LexInv

LEMMA LexInvStep ==
  ASSUME LexInv, [LexTurn]_lexVars
  PROVE  LexInv'
<1>1. CASE LexTurn
  <2>1. text' = text /\ lexer' = Turn(text, lexer) /\ ~Finished(text, lexer)
    BY <1>1 DEF LexTurn
  <2>2. Standing(text, lexer')
    BY <2>1, StandingKept DEF LexInv
  <2>3. Unbroken(text) => Spans(text, lexer') /\ Covered(text, lexer')
    BY <2>1, SpansKept, CoveredKept DEF LexInv
  <2>4. LexInv' <=> /\ text' \in Seq(Chars)
                    /\ Standing(text', lexer')
                    /\ Unbroken(text') => Spans(text', lexer') /\ Covered(text', lexer')
    BY DEF LexInv
  <2> QED
    BY <2>1, <2>2, <2>3, <2>4 DEF LexInv
<1>2. CASE UNCHANGED lexVars
  <2>1. text' = text /\ lexer' = lexer
    BY <1>2 DEF lexVars
  <2> QED
    BY <2>1 DEF LexInv
<1> QED
  BY <1>1, <1>2

LEMMA PositionsFromInv == LexInv => PositionsComeBack
<1> SUFFICES ASSUME LexInv, \A i \in DOMAIN text : text[i] # "CR", NEW k \in DOMAIN lexer.tokens
             PROVE  /\ OffsetToPosition(text, lexer.tokens[k].start).line = lexer.tokens[k].line - 1
                    /\ PositionToOffset(text, OffsetToPosition(text, lexer.tokens[k].start)) = lexer.tokens[k].start
  BY DEF PositionsComeBack
<1>1. text \in Seq(Chars) /\ NoReturns(text) /\ Unbroken(text)
  BY DEF LexInv, NoReturns, Unbroken
<1>2. PICK i \in 1 .. Len(text) + 1, j \in 1 .. Frontier(lexer) : TokenAt(text, lexer.tokens[k], i, j)
  BY <1>1 DEF LexInv, Spans
<1> DEFINE start == lexer.tokens[k].start
           line == lexer.tokens[k].line
<1>3. start = BytesBefore(text, i) /\ line = LineOf(text, i)
  BY <1>1, <1>2 DEF TokenAt
<1>4. PositionToOffset(text, OffsetToPosition(text, BytesBefore(text, i))) = BytesBefore(text, i)
  BY <1>1, PositionsRoundTrip
<1>5. OffsetToPosition(text, BytesBefore(text, i)).line = Cardinality(Below(LineFeeds(text), i))
  BY <1>1, LinesBefore DEF OffsetToPosition
<1>6. Cardinality(Below(LineFeeds(text), i)) \in Nat
  <2>1. Below(LineFeeds(text), i) \subseteq LineFeeds(text) /\ IsFiniteSet(LineFeeds(text))
    BY <1>1, LineFeedsFinite DEF Below
  <2> QED
    BY <2>1, FS_Subset, FS_CardinalityType
<1>7. line - 1 = Cardinality(Below(LineFeeds(text), i))
  BY <1>3, <1>6 DEF LineOf
<1> HIDE DEF start, line
<1>8. OffsetToPosition(text, start).line = line - 1 /\ PositionToOffset(text, OffsetToPosition(text, start)) = start
  BY <1>3, <1>4, <1>5, <1>7
<1> QED
  BY <1>8 DEF start, line

(* Whatever the text, as long as it has no carriage returns: the line the  *)
(* lexer counted for a token is the line of the line index, and the        *)
(* position the server sends for the token comes back as its offset.       *)
THEOREM PositionsOfTokens == LexSpec => []PositionsComeBack
<1> QED
  BY LexInvInit, LexInvStep, PositionsFromInv, PTL DEF LexSpec

(* Tokens lie in the text in the order they are given: the span of each    *)
(* cuts its text out of the source, ends in the source, and the next one   *)
(* starts no earlier.                                                      *)
SpansInOrder ==
  Unbroken(text) =>
    \A k \in DOMAIN lexer.tokens :
      LET token == lexer.tokens[k]
      IN /\ token.text = Slice(text, token.start, token.end)
         /\ token.start <= token.end /\ token.end <= Size(text)
         /\ k < Len(lexer.tokens) => token.end <= lexer.tokens[k + 1].start

LEMMA SpansFromInv == LexInv => SpansInOrder
<1> SUFFICES ASSUME LexInv, Unbroken(text), NEW k \in DOMAIN lexer.tokens
             PROVE  /\ lexer.tokens[k].text = Slice(text, lexer.tokens[k].start, lexer.tokens[k].end)
                    /\ lexer.tokens[k].start <= lexer.tokens[k].end /\ lexer.tokens[k].end <= Size(text)
                    /\ k < Len(lexer.tokens) => lexer.tokens[k].end <= lexer.tokens[k + 1].start
  BY DEF SpansInOrder
<1>1. text \in Seq(Chars) /\ Spans(text, lexer) /\ Frontier(lexer) \in 1 .. Len(text) + 1 /\ Len(text) \in Nat
  BY DEF LexInv, Standing, From, Placed, Frontier
<1>2. PICK i \in 1 .. Len(text) + 1, j \in 1 .. Frontier(lexer) : TokenAt(text, lexer.tokens[k], i, j)
  BY <1>1 DEF Spans
<1>3. /\ i \in Nat \ {0} /\ j \in Nat \ {0} /\ i <= j /\ j <= Len(text) + 1
      /\ Len(text) + 1 \in Nat \ {0}
  BY <1>1, <1>2 DEF TokenAt
<1>4. Slice(text, BytesBefore(text, i), BytesBefore(text, j)) = SubSeq(text, i, j - 1)
  BY <1>1, <1>3, SliceIs
<1>5. BytesBefore(text, j) >= BytesBefore(text, i) /\ Size(text) >= BytesBefore(text, j)
  BY <1>3, BytesBeforeOrder DEF Size
<1>6. BytesBefore(text, j) \in Nat /\ BytesBefore(text, i) \in Nat /\ Size(text) \in Nat
  BY <1>3, BytesBeforeType DEF Size
<1>7. /\ lexer.tokens[k].start = BytesBefore(text, i) /\ lexer.tokens[k].end = BytesBefore(text, j)
      /\ lexer.tokens[k].text = SubSeq(text, i, j - 1)
  BY <1>2 DEF TokenAt
<1>8. k < Len(lexer.tokens) => lexer.tokens[k].end <= lexer.tokens[k + 1].start
  BY <1>1 DEF Spans
<1> QED
  BY <1>4, <1>5, <1>6, <1>7, <1>8

(* On every text in which no line feed follows a carriage return, and at   *)
(* every step of the lexer, its tokens are pieces of the text one after    *)
(* the other.                                                              *)
THEOREM TokensArePieces == LexSpec => []SpansInOrder
<1> QED
  BY LexInvInit, LexInvStep, SpansFromInv, PTL DEF LexSpec

(* A lexer that keeps comments and has met no error loses nothing but      *)
(* blanks: every other character of the text is in some token.  The        *)
(* formatter writes what it writes from these tokens.                      *)
NothingIsLost ==
  /\ Unbroken(text) /\ lexer.preserve /\ Finished(text, lexer)
  /\ \A k \in DOMAIN lexer.tokens : lexer.tokens[k].kind # "Unknown"
  => \A i \in DOMAIN text : text[i] \in Blank \/ \E k \in DOMAIN lexer.tokens : Inside(text, lexer.tokens[k], i)

LEMMA NothingFromInv == LexInv => NothingIsLost
<1> SUFFICES ASSUME LexInv, Unbroken(text), lexer.preserve, Finished(text, lexer),
                    \A k \in DOMAIN lexer.tokens : lexer.tokens[k].kind # "Unknown",
                    NEW i \in DOMAIN text
             PROVE  text[i] \in Blank \/ \E k \in DOMAIN lexer.tokens : Inside(text, lexer.tokens[k], i)
  BY DEF NothingIsLost
<1>1. text \in Seq(Chars) /\ Covered(text, lexer) /\ lexer.c.at \in 1 .. Len(text) + 1 /\ Len(text) \in Nat
  BY DEF LexInv, Standing, From, Placed
<1>2. Frontier(lexer) = Len(text) + 1
  BY <1>1 DEF Finished, AtEnd, Frontier
<1>3. i \in 1 .. Frontier(lexer) - 1
  BY <1>1, <1>2
<1> QED
  BY <1>1, <1>3 DEF Covered

(* The tokens of a text, comments among them, have all of it.              *)
THEOREM TokensKeepTheText == LexSpec => []NothingIsLost
<1> QED
  BY LexInvInit, LexInvStep, NothingFromInv, PTL DEF LexSpec

-----------------------------------------------------------------------------
(* The lexer comes to the end of every text, errors and unclosed strings   *)
(* and comments included: every turn leaves it fewer turns, and it never   *)
(* has more than eight for each character and three more.                  *)
TurnsBounded == TurnsLeft(text, lexer) \in 0 .. 8 * Len(text) + 3

THEOREM LexerEnds ==
  LexSpec => []TurnsBounded /\ [][TurnsLeft(text', lexer') < TurnsLeft(text, lexer)]_lexVars
<1>1. LexInit => TurnsBounded
  <2> SUFFICES ASSUME LexInit PROVE TurnsBounded
    OBVIOUS
  <2>1. text \in Seq(Chars) /\ lexer.c.at = 1 /\ lexer.loop.at = "between"
    BY DEF LexInit, LexerNew, Start, Between
  <2>2. Len(text) \in Nat /\ Rank(lexer) = 3
    BY <2>1, RankIs
  <2>3. \A l \in Nat : 8 * (l + 1 - 1) + 3 \in 0 .. 8 * l + 3
    OBVIOUS
  <2> QED
    BY <2>1, <2>2, <2>3 DEF TurnsBounded, TurnsLeft
<1>2. LexInv /\ [LexTurn]_lexVars => [TurnsLeft(text', lexer') < TurnsLeft(text, lexer)]_lexVars
  <2> SUFFICES ASSUME LexInv, LexTurn PROVE TurnsLeft(text', lexer') < TurnsLeft(text, lexer)
    OBVIOUS
  <2>1. text' = text /\ lexer' = Turn(text, lexer) /\ ~Finished(text, lexer)
    BY DEF LexTurn
  <2>2. text \in Seq(Chars) /\ Standing(text, lexer)
    BY DEF LexInv
  <2>3. TurnsLeft(text, lexer') < TurnsLeft(text, lexer)
    BY <2>1, <2>2, TurnLowers
  <2> QED
    BY <2>1, <2>3
<1>3. LexInv /\ TurnsBounded /\ [LexTurn]_lexVars => TurnsBounded'
  <2> SUFFICES ASSUME LexInv, TurnsBounded, [LexTurn]_lexVars PROVE TurnsBounded'
    OBVIOUS
  <2>1. CASE LexTurn
    <3>1. text' = text /\ lexer' = Turn(text, lexer) /\ ~Finished(text, lexer)
      BY <2>1 DEF LexTurn
    <3>2. text \in Seq(Chars) /\ Standing(text, lexer) /\ Standing(text, lexer')
      BY <3>1, StandingKept DEF LexInv
    <3>3. TurnsLeft(text, lexer') < TurnsLeft(text, lexer) /\ TurnsLeft(text, lexer') \in Nat
      BY <3>1, <3>2, TurnLowers, TurnsLeftType
    <3>4. Len(text) \in Nat
      BY <3>2
    <3>5. \A l \in Nat : \A b \in 0 .. 8 * l + 3 : \A a \in Nat : a < b => a \in 0 .. 8 * l + 3
      OBVIOUS
    <3>6. TurnsLeft(text, lexer') \in 0 .. 8 * Len(text) + 3
      BY <3>3, <3>4, <3>5 DEF TurnsBounded
    <3> QED
      BY <3>1, <3>6 DEF TurnsBounded
  <2>2. CASE UNCHANGED lexVars
    BY <2>2 DEF TurnsBounded, lexVars
  <2> QED
    BY <2>1, <2>2
<1> QED
  BY <1>1, <1>2, <1>3, LexInvInit, LexInvStep, PTL DEF LexSpec

=============================================================================
