------------------------- MODULE TokenBufferProofs -------------------------
(***************************************************************************)
(* Theorems about TokenBuffer, for inputs of any length.                   *)
(***************************************************************************)
EXTENDS TokenBuffer, TLAPS

(* The inductive invariant: the window is full until the lexer has given   *)
(* its end-of-file token, and then the lexer has nothing left.             *)
IInv ==
  /\ input \in Seq(Tokens)
  /\ buffer \in [Slot -> Tokens \cup {Nothing}]
  /\ cursor \in Slot
  /\ filled \in cursor .. (cursor + 3)
  /\ eof_reached \in BOOLEAN
  /\ eof_reached => input = <<>>
  /\ ~eof_reached => filled = cursor + 3
  /\ SlotsFilled
  /\ taken \in Tokens \cup {Eof, Nothing}

-----------------------------------------------------------------------------
(* The ring.                                                               *)

LEMMA SlotOf ==
  /\ 0 % 3 = 0 /\ 1 % 3 = 1 /\ 2 % 3 = 2
  /\ 3 % 3 = 0 /\ 4 % 3 = 1 /\ 5 % 3 = 2
  /\ \A n \in Nat : n % 3 \in Slot
BY DEF Slot

(* What one turn of the refill loop makes of the ring.                     *)
LEMMA LoadNone ==
  ASSUME NEW b \in [Slot -> Tokens \cup {Nothing}]
  PROVE  Loaded(b, 0) = b
<1>1. 1 .. 0 = {}
  OBVIOUS
<1> QED
  BY <1>1 DEF Loaded

LEMMA LoadOne ==
  ASSUME NEW b \in [Slot -> Tokens \cup {Nothing}], IInv, filled = cursor + 3
  PROVE  Loaded(b, 1) = [b EXCEPT ![filled % 3] = input[1]]
<1>1. filled \in Nat /\ filled % 3 \in Slot
  BY SlotOf DEF IInv, Slot
<1>2. ASSUME NEW j \in Slot
      PROVE  (LET new == {i \in 1 .. 1 : (filled + i - 1) % 3 = j}
              IN IF new = {} THEN b[j] ELSE input[CHOOSE i \in new : TRUE])
               = [b EXCEPT ![filled % 3] = input[1]][j]
  <2> DEFINE new == {i \in 1 .. 1 : (filled + i - 1) % 3 = j}
  <2>1. 1 .. 1 = {1} /\ filled + 1 - 1 = filled
    BY <1>1
  <2>2. CASE filled % 3 = j
    <3>1. new = {1}
      BY <2>1, <2>2
    <3> QED
      BY <2>2, <3>1
  <2>3. CASE filled % 3 # j
    <3>1. new = {}
      BY <2>1, <2>3
    <3> QED
      BY <2>3, <3>1
  <2> QED
    BY <2>2, <2>3
<1> QED
  BY <1>2 DEF Loaded

(* The window between two numbers of the current token, c and c1.          *)
LEMMA WindowGrown ==
  \A f, c, f1, c1, i \in Int : \A k \in {0, 1} :
    f1 - c1 = f + k - (c + 1) /\ c1 + i < f1 /\ ~(c + 1 + i < f) => k = 1
OBVIOUS

(* A step of consume() while there are tokens: at most one is loaded, into *)
(* the slot that the one taken has left, and the window moves on by one.   *)
LEMMA TakeOne ==
  ASSUME IInv, cursor < filled,
         taken' = buffer[cursor % 3],
         Refill([buffer EXCEPT ![cursor % 3] = Nothing], cursor + 1)
  PROVE  \E k \in {0, 1} :
           /\ k = 0 => input = <<>> /\ eof_reached'
           /\ k = 1 => Len(input) >= 1 /\ ~eof_reached'
           /\ k = 1 => filled = cursor + 3 /\ filled' = cursor' + 3
           /\ input' = SubSeq(input, k + 1, Len(input))
           /\ eof_reached' \in BOOLEAN
           /\ cursor' \in Slot
           /\ filled' - cursor' = filled + k - (cursor + 1)
           /\ filled' \in cursor' .. (cursor' + 3)
           /\ buffer' \in [Slot -> Tokens \cup {Nothing}]
           /\ \A i \in Slot :
                cursor' + i < filled' =>
                  buffer'[(cursor' + i) % 3] =
                    IF cursor + 1 + i < filled THEN buffer[(cursor + 1 + i) % 3] ELSE input[1]
<1> DEFINE ring == [buffer EXCEPT ![cursor % 3] = Nothing]
           c == cursor + 1
           room == 3 - (filled - c)
           k == IF eof_reached THEN 0 ELSE Least(room, Len(input))
           loaded == Loaded(ring, k)
<1>1. /\ cursor \in 0 .. 2 /\ filled \in Nat /\ cursor < filled /\ filled <= cursor + 3
      /\ Len(input) \in Nat /\ cursor % 3 = cursor /\ cursor % 3 \in Slot
  BY SlotOf DEF IInv, Slot
<1>2. ring \in [Slot -> Tokens \cup {Nothing}]
  BY DEF IInv
<1>3. \/ k = 0 /\ input = <<>> /\ (eof_reached \/ Len(input) < room)
      \/ k = 1 /\ Len(input) >= 1 /\ filled = cursor + 3 /\ ~(eof_reached \/ Len(input) < room)
  <2>1. CASE eof_reached
    BY <2>1 DEF IInv
  <2>2. CASE ~eof_reached
    <3>1. room = 1 /\ filled = cursor + 3
      BY <1>1, <2>2 DEF IInv
    <3>2. CASE Len(input) = 0
      <4>1. input = <<>>
        BY <3>2 DEF IInv
      <4> QED
        BY <2>2, <3>1, <3>2, <4>1 DEF Least
    <3>3. CASE Len(input) >= 1
      <4>1. Least(room, Len(input)) = 1
        <5>1. \A n \in Nat : n >= 1 => Least(1, n) = 1
          BY DEF Least
        <5> QED
          BY <1>1, <3>1, <3>3, <5>1
      <4>2. ~(Len(input) < room)
        BY <1>1, <3>1, <3>3
      <4> QED
        BY <2>2, <3>1, <3>3, <4>1, <4>2
    <3> QED
      BY <1>1, <3>2, <3>3
  <2> QED
    BY <2>1, <2>2
<1>4. /\ input' = SubSeq(input, k + 1, Len(input))
      /\ eof_reached' = (eof_reached \/ Len(input) < room)
      /\ buffer' = IF c >= 3 THEN Shifted(loaded, c, filled + k) ELSE loaded
      /\ filled' = filled + k - (c \div 3) * 3
      /\ cursor' = c - (c \div 3) * 3
  BY DEF Refill
<1>12. \A j \in Slot : j # cursor => ring[j] = buffer[j]
  BY <1>1 DEF IInv
<1> HIDE DEF k, room, ring
<1>5. loaded \in [Slot -> Tokens \cup {Nothing}]
  <2>1. CASE k = 0
    BY <1>2, <2>1, LoadNone
  <2>2. CASE k = 1
    <3>1. input[1] \in Tokens
      BY <1>3, <2>2 DEF IInv
    <3>2. loaded = [ring EXCEPT ![filled % 3] = input[1]]
      BY <1>2, <1>3, <2>2, LoadOne
    <3> QED
      BY <1>2, <3>1, <3>2
  <2> QED
    BY <1>3, <2>1, <2>2
<1>6. ASSUME NEW i \in Slot, c + i < filled + k
      PROVE  loaded[(c + i) % 3] =
               IF c + i < filled THEN buffer[(c + i) % 3] ELSE input[1]
  <2>1. c + i \in Nat /\ (c + i) % 3 \in Slot
    BY <1>1, SlotOf DEF Slot
  <2>2. (c + i) % 3 # cursor => ring[(c + i) % 3] = buffer[(c + i) % 3]
    BY <1>12, <2>1
  <2>3. CASE c + i < filled
    <3>1. i \in {0, 1} /\ (c + i) % 3 # cursor
      BY <1>1, <2>3, SlotOf DEF Slot
    <3>2. CASE k = 0
      BY <1>2, <2>2, <2>3, <3>1, <3>2, LoadNone
    <3>3. CASE k = 1
      <4>1. filled % 3 = cursor
        BY <1>1, <1>3, <3>3, SlotOf
      <4>2. loaded = [ring EXCEPT ![filled % 3] = input[1]]
        BY <1>2, <1>3, <3>3, LoadOne
      <4> QED
        BY <1>2, <2>1, <2>2, <2>3, <3>1, <4>1, <4>2
    <3> QED
      BY <1>3, <3>2, <3>3
  <2>4. CASE ~(c + i < filled)
    <3>1. k = 1 /\ c + i = filled
      BY <1>1, <1>3, <1>6, <2>1, <2>4
    <3>2. loaded = [ring EXCEPT ![filled % 3] = input[1]]
      BY <1>2, <1>3, <3>1, LoadOne
    <3> QED
      BY <1>2, <2>1, <2>4, <3>1, <3>2
  <2> QED
    BY <2>3, <2>4
<1> HIDE DEF loaded
<1> DEFINE Moved ==
             /\ cursor' \in Slot
             /\ filled' - cursor' = filled + k - c
             /\ k = 1 => filled' = cursor' + 3
             /\ filled' \in cursor' .. (cursor' + 3)
             /\ buffer' \in [Slot -> Tokens \cup {Nothing}]
             /\ \A i \in Slot :
                  cursor' + i < filled' =>
                    buffer'[(cursor' + i) % 3] =
                      IF c + i < filled THEN buffer[(c + i) % 3] ELSE input[1]
<1>7. ASSUME c < 3
      PROVE  Moved
  <2>1. c \div 3 = 0
    BY <1>1, <1>7
  <2>2. buffer' = loaded /\ cursor' = c /\ filled' = filled + k
    BY <1>1, <1>3, <1>4, <1>7, <2>1
  <2>3. cursor' \in Slot /\ filled' - cursor' = filled + k - c
    BY <1>1, <1>3, <1>7, <2>2 DEF Slot
  <2>4. filled' \in cursor' .. (cursor' + 3)
    BY <1>1, <1>3, <1>7, <2>2
  <2>5. \A i \in Slot :
          c + i < filled + k =>
            loaded[(c + i) % 3] = IF c + i < filled THEN buffer[(c + i) % 3] ELSE input[1]
    BY <1>6
  <2>6. k = 1 => filled' = cursor' + 3
    BY <1>1, <1>3, <2>2
  <2> QED
    BY <1>5, <2>2, <2>3, <2>4, <2>5, <2>6
<1>8. ASSUME c = 3
      PROVE  Moved
  <2>1. c \div 3 = 1
    BY <1>8
  <2>2. buffer' = Shifted(loaded, 3, filled + k) /\ cursor' = 0 /\ filled' = filled + k - 3
    BY <1>1, <1>3, <1>4, <1>8, <2>1
  <2>3. ASSUME NEW i \in Slot
        PROVE  /\ i % 3 = i /\ (3 + i) % 3 = i
               /\ 3 + i < filled + k => buffer'[i] = loaded[i]
    <3>1. i % 3 = i /\ (3 + i) % 3 = i
      BY SlotOf DEF Slot
    <3> QED
      BY <2>2, <3>1 DEF Shifted
  <2>4. buffer' \in [Slot -> Tokens \cup {Nothing}]
    <3>1. \A i \in Slot : (3 + i) % 3 \in Slot
      BY <2>3
    <3> QED
      BY <1>5, <2>2, <3>1 DEF Shifted
  <2>5. ASSUME NEW i \in Slot, cursor' + i < filled'
        PROVE  buffer'[(cursor' + i) % 3] =
                 IF cursor + 1 + i < filled THEN buffer[(cursor + 1 + i) % 3] ELSE input[1]
    <3>1. 3 + i < filled + k
      BY <1>1, <1>3, <2>2, <2>5 DEF Slot
    <3>2. buffer'[(cursor' + i) % 3] = loaded[i]
      BY <2>2, <2>3, <3>1 DEF Slot
    <3> QED
      BY <1>6, <1>8, <2>3, <3>1, <3>2
  <2>6. cursor' \in Slot /\ filled' - cursor' = filled + k - c
    BY <1>1, <1>3, <1>8, <2>2 DEF Slot
  <2>7. filled' \in cursor' .. (cursor' + 3)
    BY <1>1, <1>3, <1>8, <2>2
  <2>8. k = 1 => filled' = cursor' + 3
    BY <1>1, <1>3, <1>8, <2>2
  <2> QED
    BY <2>4, <2>5, <2>6, <2>7, <2>8
<1>9. Moved
  BY <1>1, <1>7, <1>8
<1> HIDE DEF Moved
<1>10. k \in {0, 1}
  BY <1>3
<1>11. /\ k = 0 => input = <<>> /\ eof_reached'
       /\ k = 1 => Len(input) >= 1 /\ ~eof_reached'
       /\ k = 1 => filled = cursor + 3
       /\ input' = SubSeq(input, k + 1, Len(input))
       /\ eof_reached' \in BOOLEAN
  <2> DEFINE stop == eof_reached \/ Len(input) < room
  <2>3. eof_reached' = stop /\ stop \in BOOLEAN
    BY <1>4
  <2>4. k = 0 => stop /\ input = <<>>
    BY <1>3
  <2>5. k = 1 => ~stop /\ Len(input) >= 1 /\ filled = cursor + 3
    BY <1>3
  <2> HIDE DEF stop
  <2>1. CASE k = 0
    <3>1. k # 1
      BY <2>1
    <3>2. eof_reached' /\ eof_reached' \in BOOLEAN /\ input = <<>>
      BY <2>1, <2>3, <2>4
    <3> QED
      BY <1>4, <3>1, <3>2
  <2>2. CASE k = 1
    <3>1. k # 0
      BY <2>2
    <3>2. ~eof_reached' /\ eof_reached' \in BOOLEAN
      BY <2>2, <2>3, <2>5
    <3> QED
      BY <1>4, <2>5, <3>1, <3>2
  <2> QED
    BY <1>10, <2>1, <2>2
<1> QED
  BY <1>9, <1>10, <1>11 DEF Moved

-----------------------------------------------------------------------------
(* The invariant.                                                          *)

(* How many of the tokens of an input new() loads.                         *)
LEMMA Prefill ==
  ASSUME NEW s \in Inputs
  PROVE  /\ s \in Seq(Tokens) /\ Len(s) \in Nat
         /\ Least(Len(s), 3) \in 0 .. 3 /\ Least(Len(s), 3) <= Len(s)
         /\ Len(s) < 3 => Least(Len(s), 3) = Len(s)
         /\ ~(Len(s) < 3) => Least(Len(s), 3) = 3
<1>1. s \in Seq(Tokens) /\ Len(s) \in Nat
  BY InputsAssumption
<1>2. ASSUME NEW n \in Nat
      PROVE  /\ Least(n, 3) \in 0 .. 3 /\ Least(n, 3) <= n
             /\ n < 3 => Least(n, 3) = n
             /\ ~(n < 3) => Least(n, 3) = 3
  BY DEF Least
<1> QED
  BY <1>1, <1>2

LEMMA IInvInitial == Init => IInv
<1> SUFFICES ASSUME Init
             PROVE  IInv
  OBVIOUS
<1>1. PICK s \in Inputs :
        /\ buffer = [i \in Slot |-> IF i < Least(Len(s), 3) THEN s[i + 1] ELSE Nothing]
        /\ cursor = 0
        /\ filled = Least(Len(s), 3)
        /\ eof_reached = (Len(s) < 3)
        /\ input = SubSeq(s, Least(Len(s), 3) + 1, Len(s))
        /\ taken = Nothing
  BY DEF Init
<1> DEFINE k == Least(Len(s), 3)
<1>2. /\ s \in Seq(Tokens) /\ Len(s) \in Nat
      /\ k \in 0 .. 3 /\ k <= Len(s)
      /\ Len(s) < 3 => k = Len(s)
      /\ ~(Len(s) < 3) => k = 3
  BY Prefill
<1>3. /\ buffer = [i \in Slot |-> IF i < k THEN s[i + 1] ELSE Nothing]
      /\ input = SubSeq(s, k + 1, Len(s)) /\ filled = k /\ cursor = 0
  BY <1>1
<1>4. eof_reached = (Len(s) < 3) /\ taken = Nothing
  BY <1>1
<1> HIDE DEF k
<1>5. input \in Seq(Tokens)
  BY <1>2, <1>3
<1>6. \A i \in Slot : i < k => s[i + 1] \in Tokens
  BY <1>2 DEF Slot
<1>7. buffer \in [Slot -> Tokens \cup {Nothing}]
  BY <1>3, <1>6
<1>8. Len(s) < 3 => input = <<>>
  BY <1>2, <1>3
<1>9. ~(Len(s) < 3) => filled = cursor + 3
  BY <1>2, <1>3
<1>10. SlotsFilled
  <2>1. \A i \in Slot : i % 3 = i /\ 0 + i = i
    BY SlotOf DEF Slot
  <2> QED
    BY <1>3, <1>6, <2>1 DEF SlotsFilled
<1>11. cursor \in Slot /\ filled \in cursor .. (cursor + 3)
  BY <1>2, <1>3 DEF Slot
<1>12. eof_reached \in BOOLEAN /\ taken \in Tokens \cup {Eof, Nothing}
  BY <1>4
<1>13. (eof_reached => input = <<>>) /\ (~eof_reached => filled = cursor + 3)
  BY <1>4, <1>8, <1>9
<1> QED
  BY <1>5, <1>7, <1>10, <1>11, <1>12, <1>13 DEF IInv

(* consume() with tokens left, and at the end.                             *)
Taking ==
  /\ cursor < filled
  /\ taken' = buffer[cursor % 3]
  /\ Refill([buffer EXCEPT ![cursor % 3] = Nothing], cursor + 1)

AtEnd ==
  /\ cursor >= filled
  /\ taken' = Eof
  /\ UNCHANGED <<input, buffer, cursor, filled, eof_reached>>

LEMMA NextCases ==
  ASSUME [Next]_vars
  PROVE  UNCHANGED vars \/ Taking \/ AtEnd
BY DEF Next, consume_if, consume, Taking, AtEnd

(* The token taken is the window's first.                                  *)
LEMMA CurrentToken ==
  ASSUME IInv, cursor < filled
  PROVE  buffer[cursor % 3] \in Tokens
<1>1. 0 \in Slot /\ cursor + 0 = cursor
  BY DEF IInv, Slot
<1> QED
  BY <1>1 DEF IInv, SlotsFilled

LEMMA IInvStep == IInv /\ [Next]_vars => IInv'
<1> SUFFICES ASSUME IInv, [Next]_vars
             PROVE  IInv'
  OBVIOUS
<1>1. CASE UNCHANGED vars
  BY <1>1 DEF vars, IInv, SlotsFilled
<1>2. CASE AtEnd
  BY <1>2 DEF AtEnd, IInv, SlotsFilled
<1>3. CASE Taking
  <2>1. PICK k \in {0, 1} :
           /\ k = 0 => input = <<>> /\ eof_reached'
           /\ k = 1 => Len(input) >= 1 /\ ~eof_reached'
           /\ k = 1 => filled = cursor + 3 /\ filled' = cursor' + 3
           /\ input' = SubSeq(input, k + 1, Len(input))
           /\ eof_reached' \in BOOLEAN
           /\ cursor' \in Slot
           /\ filled' - cursor' = filled + k - (cursor + 1)
           /\ filled' \in cursor' .. (cursor' + 3)
           /\ buffer' \in [Slot -> Tokens \cup {Nothing}]
           /\ \A i \in Slot :
                cursor' + i < filled' =>
                  buffer'[(cursor' + i) % 3] =
                    IF cursor + 1 + i < filled THEN buffer[(cursor + 1 + i) % 3] ELSE input[1]
    BY <1>3, TakeOne DEF Taking
  <2>2. input \in Seq(Tokens) /\ Len(input) \in Nat
    BY DEF IInv
  <2>3. input' \in Seq(Tokens)
    BY <2>1, <2>2
  <2>4. eof_reached' => input' = <<>>
    <3>1. CASE k = 0
      BY <2>1, <3>1
    <3>2. CASE k = 1
      BY <2>1, <3>2
    <3> QED
      BY <3>1, <3>2
  <2>5. ~eof_reached' => filled' = cursor' + 3
    <3>1. CASE k = 0
      BY <2>1, <3>1
    <3>2. CASE k = 1
      BY <2>1, <3>2
    <3> QED
      BY <3>1, <3>2
  <2>6. ASSUME NEW i \in Slot, cursor' + i < filled'
        PROVE  buffer'[(cursor' + i) % 3] \in Tokens
    <3>1. CASE cursor + 1 + i < filled
      <4>1. i + 1 \in Slot /\ cursor + (i + 1) = cursor + 1 + i
        BY <3>1 DEF IInv, Slot
      <4>2. buffer[(cursor + 1 + i) % 3] \in Tokens
        BY <3>1, <4>1 DEF IInv, SlotsFilled
      <4> QED
        BY <2>1, <2>6, <3>1, <4>2
    <3>2. CASE ~(cursor + 1 + i < filled)
      <4>1. k = 1
        <5>1. cursor \in 0 .. 2 /\ cursor' \in 0 .. 2 /\ i \in 0 .. 2 /\ filled \in cursor .. (cursor + 3)
          BY <2>1 DEF IInv, Slot
        <5>2. filled' - cursor' = filled + k - (cursor + 1) /\ filled' \in cursor' .. (cursor' + 3) /\ k \in {0, 1}
          BY <2>1
        <5>3. /\ filled' \in Int /\ cursor' \in Int /\ filled \in Int
              /\ cursor \in Int /\ i \in Int
          BY <5>1, <5>2
        <5> QED
          BY <2>6, <3>2, <5>2, <5>3, WindowGrown
      <4>2. input[1] \in Tokens
        BY <2>1, <2>2, <4>1
      <4> QED
        BY <2>1, <2>6, <3>2, <4>2
    <3> QED
      BY <3>1, <3>2
  <2>7. SlotsFilled'
    BY <2>6 DEF SlotsFilled
  <2>8. taken' \in Tokens \cup {Eof, Nothing}
    BY <1>3, CurrentToken DEF Taking
  <2> QED
    BY <2>1, <2>3, <2>4, <2>5, <2>7, <2>8 DEF IInv
<1> QED
  BY <1>1, <1>2, <1>3, NextCases

LEMMA Invariance == Spec => []IInv
BY IInvInitial, IInvStep, PTL DEF Spec

(* The variables keep their types, whatever the length of the input: the   *)
(* counters never grow past a ring and a lookahead.                        *)
THEOREM TypeCorrect == Spec => []TypeOK
<1>1. IInv => TypeOK
  BY DEF IInv, TypeOK, Slot
<1> QED
  BY <1>1, Invariance, PTL

(* peek() and consume() never meet an empty slot.                          *)
THEOREM SlotsFilledCorrect == Spec => []SlotsFilled
<1>1. IInv => SlotsFilled
  BY DEF IInv
<1> QED
  BY <1>1, Invariance, PTL

-----------------------------------------------------------------------------
(* The refinement.  Unread is Rest, of a ring b with the cursor at c, f    *)
(* tokens loaded and the lexer still to give s.                            *)
Unread(b, c, f, s) ==
  [i \in 1 .. (f - c + Len(s)) |->
     IF i <= f - c THEN b[(c + i - 1) % 3] ELSE s[i - (f - c)]]

LEMMA RestIsUnread == Rest = Unread(buffer, cursor, filled, input)
BY DEF Rest, Window, Unread

(* A window that may be read: its slots hold tokens.                       *)
Readable(b, c, f, s) ==
  /\ c \in Slot /\ f \in c .. (c + 3) /\ s \in Seq(Tokens)
  /\ \A i \in Slot : c + i < f => b[(c + i) % 3] \in Tokens

LEMMA IInvReadable == IInv => Readable(buffer, cursor, filled, input)
BY DEF IInv, SlotsFilled, Readable

LEMMA UnreadSeq ==
  ASSUME NEW b, NEW c, NEW f, NEW s, Readable(b, c, f, s)
  PROVE  /\ Unread(b, c, f, s) \in Seq(Tokens)
         /\ Len(Unread(b, c, f, s)) = (f - c) + Len(s)
<1>1. c \in 0 .. 2 /\ f \in c .. (c + 3) /\ s \in Seq(Tokens) /\ Len(s) \in Nat
  BY DEF Readable, Slot
<1> DEFINE n == (f - c) + Len(s)
<1>2. n \in Nat /\ f - c \in 0 .. 3
  BY <1>1
<1>3. ASSUME NEW i \in 1 .. n
      PROVE  (IF i <= f - c THEN b[(c + i - 1) % 3] ELSE s[i - (f - c)]) \in Tokens
  <2>1. CASE i <= f - c
    <3>1. i - 1 \in Slot /\ c + (i - 1) < f /\ c + i - 1 = c + (i - 1)
      BY <1>1, <1>2, <2>1 DEF Slot
    <3>2. b[(c + (i - 1)) % 3] \in Tokens
      BY <3>1 DEF Readable
    <3> QED
      BY <2>1, <3>1, <3>2
  <2>2. CASE ~(i <= f - c)
    <3>1. i - (f - c) \in 1 .. Len(s)
      BY <1>1, <1>2, <2>2
    <3> QED
      BY <1>1, <2>2, <3>1
  <2> QED
    BY <2>1, <2>2
<1>4. Unread(b, c, f, s) = [i \in 1 .. n |-> IF i <= f - c THEN b[(c + i - 1) % 3] ELSE s[i - (f - c)]]
  BY DEF Unread
<1> HIDE DEF n
<1>5. Unread(b, c, f, s) \in [1 .. n -> Tokens]
  BY <1>3, <1>4
<1>6. Unread(b, c, f, s) \in Seq(Tokens) /\ Len(Unread(b, c, f, s)) = n
  BY <1>2, <1>5
<1> QED
  BY <1>6 DEF n

(* One token has been taken from the window and k loaded behind it.        *)
Advance(b, c, f, s, b1, c1, f1, s1, k) ==
  /\ k \in {0, 1} /\ k <= Len(s)
  /\ s1 = SubSeq(s, k + 1, Len(s))
  /\ k = 1 => f = c + 3
  /\ c < f
  /\ f1 - c1 = f + k - (c + 1)
  /\ \A i \in Slot :
       c1 + i < f1 =>
         b1[(c1 + i) % 3] = IF c + 1 + i < f THEN b[(c + 1 + i) % 3] ELSE s[1]

(* Then what is unread is the tail of what was.                            *)
LEMMA UnreadTail ==
  ASSUME NEW b, NEW c, NEW f, NEW s, NEW b1, NEW c1, NEW f1, NEW s1, NEW k,
         Readable(b, c, f, s), Readable(b1, c1, f1, s1),
         Advance(b, c, f, s, b1, c1, f1, s1, k)
  PROVE  /\ Unread(b, c, f, s) # <<>>
         /\ Unread(b, c, f, s)[1] = b[c % 3]
         /\ Unread(b1, c1, f1, s1) = Tail(Unread(b, c, f, s))
<1> DEFINE u == Unread(b, c, f, s)
           u1 == Unread(b1, c1, f1, s1)
<1>1. /\ c \in 0 .. 2 /\ f \in c .. (c + 3) /\ s \in Seq(Tokens) /\ Len(s) \in Nat
      /\ c1 \in 0 .. 2 /\ f1 \in c1 .. (c1 + 3) /\ s1 \in Seq(Tokens) /\ Len(s1) \in Nat
  BY DEF Readable, Slot
<1>2. /\ k \in {0, 1} /\ k <= Len(s) /\ s1 = SubSeq(s, k + 1, Len(s))
      /\ k = 1 => f = c + 3
      /\ c < f /\ f1 - c1 = f + k - (c + 1)
  BY DEF Advance
<1>3. /\ u \in Seq(Tokens) /\ Len(u) = (f - c) + Len(s)
      /\ u1 \in Seq(Tokens) /\ Len(u1) = (f1 - c1) + Len(s1)
  BY UnreadSeq
<1>4. \A i \in 1 .. Len(u) : u[i] = IF i <= f - c THEN b[(c + i - 1) % 3] ELSE s[i - (f - c)]
  BY <1>3 DEF Unread
<1>5. \A i \in 1 .. Len(u1) : u1[i] = IF i <= f1 - c1 THEN b1[(c1 + i - 1) % 3] ELSE s1[i - (f1 - c1)]
  BY <1>3 DEF Unread
<1>6. Len(s1) = Len(s) - k /\ \A i \in 1 .. Len(s1) : s1[i] = s[i + k]
  BY <1>1, <1>2
<1> HIDE DEF u, u1
<1>12. f - c \in Int /\ f1 - c1 \in Int
  BY <1>1
<1>13. (f1 - c1) = ((f - c) + k) - 1 /\ f - c >= 1
  <2>1. ASSUME NEW w \in Int, NEW w1 \in Int, w = f - c, w1 = f1 - c1
        PROVE  w1 = (w + k) - 1 /\ w >= 1
    BY <1>1, <1>2, <2>1
  <2> QED
    BY <1>12, <2>1
<1>7. Len(u1) = Len(u) - 1 /\ Len(u) >= 1
  <2>1. ASSUME NEW w \in Int, NEW w1 \in Int, NEW l \in Nat,
               w1 = (w + k) - 1, w >= 1
        PROVE  w1 + (l - k) = (w + l) - 1 /\ w + l >= 1
    BY <1>2, <2>1
  <2>2. (f1 - c1) + (Len(s) - k) = ((f - c) + Len(s)) - 1 /\ (f - c) + Len(s) >= 1
    BY <1>1, <1>12, <1>13, <2>1
  <2> QED
    BY <1>3, <1>6, <2>2
<1>8. ASSUME NEW i \in 1 .. Len(u1)
      PROVE  u1[i] = u[i + 1]
  <2>1. i + 1 \in 1 .. Len(u) /\ i \in Nat
    BY <1>3, <1>7
  <2>2. CASE i <= f1 - c1
    <3>1. i - 1 \in Slot /\ c1 + (i - 1) < f1 /\ c1 + i - 1 = c1 + (i - 1)
      BY <1>1, <2>1, <2>2, <1>8 DEF Slot
    <3>2. c + 1 + (i - 1) = c + i /\ c + (i + 1) - 1 = c + i
      BY <1>1, <2>1
    <3>3. u1[i] = b1[(c1 + (i - 1)) % 3]
      BY <1>5, <2>2, <3>1
    <3>4. b1[(c1 + (i - 1)) % 3] = IF c + i < f THEN b[(c + i) % 3] ELSE s[1]
      BY <3>1, <3>2 DEF Advance
    <3>5. CASE c + i < f
      <4>1. i + 1 <= f - c
        BY <1>1, <2>1, <3>5
      <4> QED
        BY <1>4, <2>1, <3>2, <3>3, <3>4, <3>5, <4>1
    <3>6. CASE ~(c + i < f)
      <4>1. ~(i + 1 <= f - c) /\ (i + 1) - (f - c) = 1
        BY <1>1, <1>2, <2>1, <2>2, <3>6
      <4> QED
        BY <1>4, <2>1, <3>3, <3>4, <3>6, <4>1
    <3> QED
      BY <3>5, <3>6
  <2>3. CASE ~(i <= f1 - c1)
    <3>1. /\ i - (f1 - c1) \in 1 .. Len(s1)
          /\ i - (f1 - c1) + k = (i + 1) - (f - c)
          /\ ~(i + 1 <= f - c)
      <4> DEFINE w == f - c
                 w1 == f1 - c1
      <4>1. w \in Int /\ w1 \in Int /\ w1 = (w + k) - 1 /\ ~(i <= w1)
        BY <1>12, <1>13, <2>3
      <4>2. i \in Int /\ i <= w1 + Len(s1) /\ Len(s1) \in Int
        BY <1>1, <1>3, <1>8, <2>1
      <4> HIDE DEF w, w1
      <4>3. i - w1 \in 1 .. Len(s1) /\ i - w1 + k = (i + 1) - w /\ ~(i + 1 <= w)
        <5>1. k \in {0, 1}
          BY <1>2
        <5> DEFINE l1 == Len(s1)
        <5>2. l1 \in Int /\ i <= w1 + l1
          BY <4>2
        <5> HIDE DEF l1
        <5>3. i - w1 \in 1 .. l1
          BY <4>1, <4>2, <5>2
        <5>4. i - w1 + k = (i + 1) - w
          BY <4>1, <4>2, <5>1
        <5>5. ~(i + 1 <= w)
          BY <4>1, <4>2, <5>1
        <5> QED
          BY <5>3, <5>4, <5>5 DEF l1
      <4> QED
        BY <4>3 DEF w, w1
    <3>2. u1[i] = s[(i + 1) - (f - c)]
      BY <1>5, <1>6, <2>3, <3>1
    <3> QED
      BY <1>4, <2>1, <3>1, <3>2
  <2> QED
    BY <2>2, <2>3
<1>9. u1 = Tail(u)
  BY <1>3, <1>7, <1>8
<1>10. u # <<>>
  BY <1>3, <1>7
<1>11. u[1] = b[c % 3]
  <2>1. 1 \in 1 .. Len(u) /\ 1 <= f - c /\ c + 1 - 1 = c
    BY <1>1, <1>2, <1>3, <1>7
  <2> QED
    BY <1>4, <2>1
<1> QED
  BY <1>9, <1>10, <1>11 DEF u, u1

-----------------------------------------------------------------------------

LEMMA TakingAdvances ==
  ASSUME IInv, Taking
  PROVE  \E k \in {0, 1} :
           Advance(buffer, cursor, filled, input, buffer', cursor', filled', input', k)
<1>1. PICK k \in {0, 1} :
        /\ k = 1 => Len(input) >= 1
        /\ k = 1 => filled = cursor + 3
        /\ input' = SubSeq(input, k + 1, Len(input))
        /\ filled' - cursor' = filled + k - (cursor + 1)
        /\ \A i \in Slot :
             cursor' + i < filled' =>
               buffer'[(cursor' + i) % 3] =
                 IF cursor + 1 + i < filled THEN buffer[(cursor + 1 + i) % 3] ELSE input[1]
  BY TakeOne DEF Taking
<1>2. cursor < filled
  BY DEF Taking
<1>3. k <= Len(input)
  <2>1. Len(input) \in Nat
    BY DEF IInv
  <2> QED
    BY <1>1, <2>1
<1> QED
  BY <1>1, <1>2, <1>3 DEF Advance

LEMMA ReadableNext == IInv' => Readable(buffer', cursor', filled', input')
BY DEF IInv, SlotsFilled, Readable

(* Init is the stream's: everything of the input is still to be taken.     *)
LEMMA StreamInitial == Init => Stream!Init
<1> SUFFICES ASSUME Init
             PROVE  Stream!Init
  OBVIOUS
<1>1. PICK s \in Inputs :
        /\ buffer = [i \in Slot |-> IF i < Least(Len(s), 3) THEN s[i + 1] ELSE Nothing]
        /\ cursor = 0
        /\ filled = Least(Len(s), 3)
        /\ input = SubSeq(s, Least(Len(s), 3) + 1, Len(s))
        /\ taken = Nothing
  BY DEF Init
<1> DEFINE k == Least(Len(s), 3)
<1>2. s \in Seq(Tokens) /\ Len(s) \in Nat /\ k \in 0 .. 3 /\ k <= Len(s)
  BY Prefill
<1>3. /\ buffer = [i \in Slot |-> IF i < k THEN s[i + 1] ELSE Nothing]
      /\ input = SubSeq(s, k + 1, Len(s)) /\ filled = k /\ cursor = 0
  BY <1>1
<1> HIDE DEF k
<1>4. Len(input) = Len(s) - k /\ \A i \in 1 .. Len(input) : input[i] = s[i + k]
  BY <1>2, <1>3
<1>5. /\ Rest \in Seq(Tokens) /\ Len(Rest) = Len(s)
      /\ \A i \in 1 .. Len(s) : Rest[i] = IF i <= k THEN buffer[(0 + i - 1) % 3] ELSE input[i - k]
  <2>1. Readable(buffer, 0, k, input)
    BY <1>3, IInvInitial, IInvReadable
  <2>2. Rest = Unread(buffer, 0, k, input)
    BY <1>3, RestIsUnread
  <2>3. Rest \in Seq(Tokens) /\ Len(Rest) = (k - 0) + Len(input)
    BY <2>1, <2>2, UnreadSeq
  <2>4. (k - 0) + Len(input) = Len(s) /\ k - 0 = k
    BY <1>2, <1>4
  <2> QED
    BY <2>2, <2>3, <2>4 DEF Unread
<1>6. ASSUME NEW i \in 1 .. Len(s)
      PROVE  Rest[i] = s[i]
  <2>1. CASE i <= k
    <3>1. i - 1 \in Slot /\ i - 1 < k /\ 0 + i - 1 = i - 1 /\ (i - 1) + 1 = i
      BY <1>2, <2>1 DEF Slot
    <3>2. (i - 1) % 3 = i - 1
      BY <3>1, SlotOf DEF Slot
    <3> QED
      BY <1>3, <1>5, <2>1, <3>1, <3>2
  <2>2. CASE ~(i <= k)
    <3>1. i - k \in 1 .. Len(input) /\ (i - k) + k = i
      BY <1>2, <1>4, <2>2
    <3> QED
      BY <1>4, <1>5, <2>2, <3>1
  <2> QED
    BY <2>1, <2>2
<1>7. Rest = s
  BY <1>2, <1>5, <1>6
<1> QED
  BY <1>1, <1>7 DEF Stream!Init

(* Every step is a step of the stream or changes nothing of it.            *)
LEMMA StreamStep ==
  ASSUME IInv, IInv', [Next]_vars
  PROVE  [Stream!Consume]_(Stream!vars)
<1>1. Readable(buffer, cursor, filled, input) /\ Readable(buffer', cursor', filled', input')
  BY IInvReadable, ReadableNext
<1>2. Rest = Unread(buffer, cursor, filled, input)
  BY RestIsUnread
<1>3. Rest' = Unread(buffer', cursor', filled', input')
  BY DEF Rest, Window, Unread
<1>4. CASE UNCHANGED vars
  BY <1>4 DEF vars, Rest, Window, Stream!vars
<1>5. CASE AtEnd
  <2>1. /\ cursor >= filled /\ taken' = Eof
        /\ UNCHANGED <<input, buffer, cursor, filled>>
    BY <1>5 DEF AtEnd
  <2>2. Rest' = Rest
    BY <2>1 DEF Rest, Window
  <2>3. filled - cursor = 0 /\ input = <<>>
    BY <2>1 DEF IInv, Slot
  <2>4. Rest \in Seq(Tokens) /\ Len(Rest) = 0
    BY <1>1, <1>2, <2>3, UnreadSeq
  <2>5. Rest = <<>>
    BY <2>4
  <2> QED
    BY <2>1, <2>2, <2>4, <2>5 DEF Stream!Consume, Stream!Peek
<1>6. CASE Taking
  <2>1. PICK k \in {0, 1} :
          Advance(buffer, cursor, filled, input, buffer', cursor', filled', input', k)
    BY <1>6, TakingAdvances
  <2>2. Rest # <<>> /\ Rest[1] = buffer[cursor % 3] /\ Rest' = Tail(Rest)
    BY <1>1, <1>2, <1>3, <2>1, UnreadTail
  <2>3. Rest \in Seq(Tokens)
    BY <1>1, <1>2, UnreadSeq
  <2>4. Stream!Peek(0) = Rest[1]
    BY <2>2, <2>3 DEF Stream!Peek, Stream!Lookahead
  <2>5. taken' = buffer[cursor % 3]
    BY <1>6 DEF Taking
  <2> QED
    BY <2>2, <2>4, <2>5 DEF Stream!Consume
<1> QED
  BY <1>4, <1>5, <1>6, NextCases

(* The ring implements the stream, whatever the length of the input: no    *)
(* token is lost, repeated or reordered.                                   *)
THEOREM Refinement == Spec => StreamSpec
BY Invariance, StreamInitial, StreamStep, PTL DEF Spec, StreamSpec, Stream!Spec

(* peek() shows the next tokens of the input, and end-of-file only where   *)
(* the input has ended.                                                    *)
THEOREM PeekExactCorrect == Spec => []PeekExact
<1>1. ASSUME IInv, NEW n \in Slot
      PROVE  peek(n) = Stream!Peek(n)
  <2>1. /\ cursor \in 0 .. 2 /\ filled \in cursor .. (cursor + 3) /\ n \in 0 .. 2
        /\ Len(input) \in Nat
    BY <1>1 DEF IInv, Slot
  <2>2. Rest \in Seq(Tokens) /\ Len(Rest) = (filled - cursor) + Len(input)
    BY <1>1, IInvReadable, RestIsUnread, UnreadSeq
  <2>3. CASE cursor + n < filled
    <3>1. /\ n + 1 \in 1 .. Len(Rest) /\ n + 1 <= filled - cursor
          /\ cursor + (n + 1) - 1 = cursor + n /\ n < 3 /\ n < Len(Rest)
      BY <2>1, <2>2, <2>3
    <3>2. Rest[n + 1] = buffer[(cursor + n) % 3]
      <4>1. n + 1 \in 1 .. (Window + Len(input)) /\ n + 1 <= Window
        BY <2>2, <3>1 DEF Window
      <4> QED
        BY <3>1, <4>1 DEF Rest
    <3> QED
      BY <2>3, <3>1, <3>2 DEF peek, Stream!Peek, Stream!Lookahead
  <2>4. CASE ~(cursor + n < filled)
    <3>1. eof_reached
      BY <1>1, <2>1, <2>4 DEF IInv
    <3>2. input = <<>>
      BY <1>1, <3>1 DEF IInv
    <3>3. ~(n < Len(Rest))
      BY <2>1, <2>2, <2>4, <3>2
    <3> QED
      BY <2>4, <3>3 DEF peek, Stream!Peek
  <2> QED
    BY <2>3, <2>4
<1>2. IInv => PeekExact
  BY <1>1 DEF PeekExact
<1> QED
  BY <1>2, Invariance, PTL

=============================================================================
