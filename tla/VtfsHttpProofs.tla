--------------------------- MODULE VtfsHttpProofs ---------------------------
(***************************************************************************)
(* Proofs about VtfsHttp and VtfsCodec, for buffers, answers and writes of *)
(* any size.                                                               *)
(***************************************************************************)
EXTENDS VtfsHttp, SequenceTheorems, TLAPS

-----------------------------------------------------------------------------
(* Numbers in digits *)

\* The four base64 digits of three bytes stand for the bytes.
LEMMA FourDigits ==
  ASSUME NEW w \in Nat, w < 16777216
  PROVE  262144 * ((w \div 262144) % 64) + 4096 * ((w \div 4096) % 64)
           + 64 * ((w \div 64) % 64) + (w % 64) = w
<1>1. w \div 262144 < 64
  BY SMT
<1>2. (w \div 262144) % 64 = w \div 262144
  BY <1>1, SMT
<1>3. w \div 4096 = 64 * (w \div 262144) + ((w \div 4096) % 64)
  BY SMT
<1>4. w \div 64 = 64 * (w \div 4096) + ((w \div 64) % 64)
  BY SMT
<1>5. w = 64 * (w \div 64) + (w % 64)
  BY SMT
<1> QED
  BY <1>2, <1>3, <1>4, <1>5, SMT

\* The powers of 64 that encode shifts by, and what it keeps of the shifted number.
LEMMA Powers ==
  64 ^ (3 - 0) = 262144 /\ 64 ^ (3 - 1) = 4096 /\ 64 ^ (3 - 2) = 64 /\ 64 ^ (3 - 3) = 1
BY SMT

\* A digit of base 64 is below 64.
LEMMA DigitRange ==
  ASSUME NEW w \in Nat, NEW p \in 0 .. 3
  PROVE  (w \div 64 ^ (3 - p)) % 64 \in 0 .. 63
<1>1. CASE p = 0
  BY <1>1, Powers, SMT
<1>2. CASE p = 1
  BY <1>2, Powers, SMT
<1>3. CASE p = 2
  BY <1>3, Powers, SMT
<1>4. CASE p = 3
  BY <1>4, Powers, SMT
<1> QED
  BY <1>1, <1>2, <1>3, <1>4

\* With one byte less, or two, the digits that encode leaves out are zero.
LEMMA LeftOut ==
  ASSUME NEW a \in 0 .. 255, NEW b \in 0 .. 255
  PROVE  /\ (65536 * a + 256 * b) % 64 = 0
         /\ ((65536 * a) \div 64) % 64 = 0
<1>1. 65536 * a + 256 * b = 64 * (1024 * a + 4 * b)
  BY SMT
<1>2. (65536 * a + 256 * b) % 64 = 0
  BY <1>1, SMT
<1>3. (65536 * a) \div 64 = 1024 * a
  BY SMT
<1>4. (1024 * a) % 64 = 0
  BY SMT
<1> QED
  BY <1>2, <1>3, <1>4, SMT

-----------------------------------------------------------------------------
(* encode and the decoder *)

\* A function on 1 .. n is a sequence.
LEMMA FunctionIsSeq ==
  ASSUME NEW S, NEW n \in Nat, NEW f \in [1 .. n -> S]
  PROVE  f \in Seq(S) /\ Len(f) = n /\ DOMAIN f = 1 .. n
OBVIOUS

\* strlen stops at the zero bytes behind a write that has none.
LEMMA CStringWhole ==
  ASSUME NEW s \in Seq(Nat), \A i \in DOMAIN s : s[i] # 0
  PROVE  CString(s \o <<0, 0>>) = s
<1> DEFINE t   == s \o <<0, 0>>
           end == {i \in DOMAIN t : t[i] = 0}
           n   == Len(s)
<1>1. /\ n \in Nat /\ DOMAIN s = 1 .. n /\ t \in Seq(Nat) /\ Len(t) = n + 2
      /\ DOMAIN t = 1 .. n + 2
      /\ \A i \in 1 .. n : t[i] = s[i]
      /\ t[n + 1] = 0 /\ t[n + 2] = 0
  OBVIOUS
<1> HIDE DEF t, n
<1>2. end = {n + 1, n + 2}
  BY <1>1
<1> HIDE DEF end
<1>3. (CHOOSE i \in end : \A j \in end : i <= j) = n + 1
  BY <1>1, <1>2
<1>4. CString(t) = SubSeq(t, 1, n)
  BY <1>1, <1>2, <1>3 DEF CString, end
<1>5. SubSeq(t, 1, n) = s
  <2>1. SubSeq(t, 1, n) \in Seq(Nat) /\ Len(SubSeq(t, 1, n)) = n
    BY <1>1
  <2>2. \A i \in 1 .. n : SubSeq(t, 1, n)[i] = s[i]
    BY <1>1
  <2> QED
    BY <1>1, <2>1, <2>2, SeqEqual DEF n
<1> QED
  BY <1>4, <1>5 DEF t

\* The group of a character or byte, and its place there.
LEMMA CharacterAt ==
  ASSUME NEW m \in Nat, NEW j \in 1 .. 4 * m
  PROVE  /\ (j - 1) \div 4 \in 0 .. m - 1 /\ (j - 1) % 4 \in 0 .. 3
         /\ j = 4 * ((j - 1) \div 4) + ((j - 1) % 4) + 1
<1> DEFINE x == j - 1
<1>1. x \in Nat /\ x < 4 * m /\ j = x + 1
  BY SMT
<1> HIDE DEF x
<1>2. x \div 4 \in Nat /\ x % 4 \in 0 .. 3 /\ x = 4 * (x \div 4) + (x % 4)
  BY <1>1, SMT
<1>3. x \div 4 <= m - 1
  BY <1>1, <1>2, SMT
<1> QED
  BY <1>1, <1>2, <1>3, SMT DEF x

LEMMA ByteAtPlace ==
  ASSUME NEW n \in Nat, NEW k \in 1 .. n
  PROVE  /\ (k - 1) \div 3 \in 0 .. ((n + 2) \div 3) - 1 /\ (k - 1) % 3 \in 0 .. 2
         /\ k = 3 * ((k - 1) \div 3) + ((k - 1) % 3) + 1
<1> DEFINE x == k - 1
           y == n + 2
<1>1. x \in Nat /\ y \in Nat /\ x + 3 <= y /\ k = x + 1
  BY SMT
<1> HIDE DEF x, y
<1>2. x \div 3 \in Nat /\ x % 3 \in 0 .. 2 /\ x = 3 * (x \div 3) + (x % 3)
  BY <1>1, SMT
<1>3. y \div 3 \in Nat /\ y % 3 \in 0 .. 2 /\ y = 3 * (y \div 3) + (y % 3)
  BY <1>1, SMT
<1>4. x \div 3 <= (y \div 3) - 1
  BY <1>1, <1>2, <1>3, SMT
<1> QED
  BY <1>1, <1>2, <1>3, <1>4, SMT DEF x, y

\* What a write has not got counts as zero.
LEMMA ByteAtIsByte ==
  ASSUME NEW s \in Seq(0 .. 255), NEW i \in Nat \ {0}
  PROVE  ByteAt(s, i) \in 0 .. 255
<1>1. CASE i <= Len(s)
  <2>1. i \in 1 .. Len(s)
    BY <1>1
  <2> QED
    BY <1>1, <2>1, ElementOfSeq DEF ByteAt
<1>2. CASE ~ (i <= Len(s))
  BY <1>2, SMT DEF ByteAt
<1> QED
  BY <1>1, <1>2

\* The number that encode makes of a group of three bytes.
Combined(s, g) == 65536 * ByteAt(s, 3 * g + 1) + 256 * ByteAt(s, 3 * g + 2) + ByteAt(s, 3 * g + 3)

\* Three bytes, or fewer, make a number.
LEMMA CombinedIsNat ==
  ASSUME NEW s \in Seq(0 .. 255), NEW g \in Nat
  PROVE  Combined(s, g) \in Nat /\ Combined(s, g) < 16777216
<1> DEFINE a == ByteAt(s, 3 * g + 1)
           b == ByteAt(s, 3 * g + 2)
           c == ByteAt(s, 3 * g + 3)
<1>1. a \in 0 .. 255 /\ b \in 0 .. 255 /\ c \in 0 .. 255
  BY ByteAtIsByte
<1>2. Combined(s, g) = 65536 * a + 256 * b + c
  BY SMT DEF Combined
<1> HIDE DEF a, b, c
<1> QED
  BY <1>1, <1>2, SMT

Groups(s) == (Len(s) + 2) \div 3

\* What encode writes: one character for each place of each group.
LEMMA EncodeIs ==
  ASSUME NEW s \in Seq(0 .. 255)
  PROVE  /\ Groups(s) \in Nat
         /\ Encode(s) \in Seq(0 .. 64) /\ Len(Encode(s)) = 4 * Groups(s)
         /\ \A g \in 0 .. Groups(s) - 1, p \in 0 .. 3 :
              Encode(s)[4 * g + p + 1] =
                IF Padded(Len(s), g, p) THEN 64 ELSE (Combined(s, g) \div 64 ^ (3 - p)) % 64
<1> DEFINE d == Encode(s)
           Char(g, p) == IF Padded(Len(s), g, p) THEN 64
                         ELSE (Combined(s, g) \div 64 ^ (3 - p)) % 64
<1>1. Len(s) \in Nat /\ Groups(s) \in Nat
  BY SMT DEF Groups
<1>2. /\ d = [j \in 1 .. 4 * Groups(s) |-> d[j]]
      /\ \A j \in 1 .. 4 * Groups(s) : d[j] = Char((j - 1) \div 4, (j - 1) % 4)
  BY DEF Encode, Groups, Combined, Equals
<1>3. ASSUME NEW g \in Nat, NEW p \in 0 .. 3
      PROVE  Char(g, p) \in 0 .. 64
  <2> DEFINE v == (Combined(s, g) \div 64 ^ (3 - p)) % 64
  <2>1. Combined(s, g) \in Nat
    BY CombinedIsNat, SMT
  <2>2. v \in 0 .. 63
    <3> HIDE DEF Char
    <3> QED
      BY <2>1, DigitRange, Zenon
  <2>3. Char(g, p) = 64 \/ Char(g, p) = v
    BY Zenon
  <2> HIDE DEF v, Char
  <2>4. v \in 0 .. 64 /\ 64 \in 0 .. 64
    BY <2>2, SMT
  <2> QED
    BY <2>3, <2>4, Zenon
<1> HIDE DEF Char
<1>5. ASSUME NEW j \in 1 .. 4 * Groups(s)
      PROVE  d[j] \in 0 .. 64
  <2>1. (j - 1) \div 4 \in Nat /\ (j - 1) % 4 \in 0 .. 3
    BY <1>1, SMT
  <2> QED
    BY <1>2, <1>3, <2>1
<1>6. ASSUME NEW g \in 0 .. Groups(s) - 1, NEW p \in 0 .. 3
      PROVE  d[4 * g + p + 1] = Char(g, p)
  <2> DEFINE j == 4 * g + p + 1
  <2>1. j \in 1 .. 4 * Groups(s) /\ (j - 1) \div 4 = g /\ (j - 1) % 4 = p
    BY <1>1, SMT
  <2> HIDE DEF j
  <2>2. d[j] = Char((j - 1) \div 4, (j - 1) % 4)
    BY <1>2, <2>1
  <2> QED
    BY <2>1, <2>2 DEF j
<1> HIDE DEF d
<1>7. d \in Seq(0 .. 64) /\ Len(d) = 4 * Groups(s)
  <2>1. d \in [1 .. 4 * Groups(s) -> 0 .. 64]
    BY <1>2, <1>5, Zenon
  <2> DEFINE m == 4 * Groups(s)
  <2>2. m \in Nat
    <3> HIDE DEF Groups
    <3> QED
      BY <1>1, SMT
  <2>3. d \in [1 .. m -> 0 .. 64]
    BY <2>1
  <2> HIDE DEF m
  <2>4. d \in Seq(0 .. 64) /\ Len(d) = m
    BY <2>2, <2>3, FunctionIsSeq
  <2> QED
    BY <2>4, Zenon DEF m
<1> QED
  BY <1>1, <1>6, <1>7, Zenon DEF d, Char

\* What the decoder makes of a character.
Value(d, j) == IF d[j] = Equals THEN 0 ELSE d[j]

Group(d, g) == 262144 * Value(d, 4 * g + 1) + 4096 * Value(d, 4 * g + 2)
               + 64 * Value(d, 4 * g + 3) + Value(d, 4 * g + 4)

\* Where encode pads, and only there, it writes an equals sign.
LEMMA EqualsIsPadding ==
  ASSUME NEW s \in Seq(0 .. 255), NEW g \in 0 .. Groups(s) - 1, NEW p \in 0 .. 3
  PROVE  /\ Encode(s)[4 * g + p + 1] = 64 <=> Padded(Len(s), g, p)
         /\ ~ Padded(Len(s), g, p) =>
              Encode(s)[4 * g + p + 1] = (Combined(s, g) \div 64 ^ (3 - p)) % 64
<1> DEFINE v == (Combined(s, g) \div 64 ^ (3 - p)) % 64
<1>1. g \in Nat
  BY EncodeIs, SMT
<1>2. Combined(s, g) \in Nat
  BY <1>1, CombinedIsNat, SMT
<1>3. v \in 0 .. 63
  BY <1>2, DigitRange, Zenon
<1>4. Encode(s)[4 * g + p + 1] = IF Padded(Len(s), g, p) THEN 64 ELSE v
  BY EncodeIs, Zenon
<1> HIDE DEF v
<1>5. v # 64
  BY <1>3, SMT
<1> QED
  BY <1>4, <1>5, Zenon DEF v

\* The decoder puts together the number that encode took apart.
LEMMA GroupIsCombined ==
  ASSUME NEW s \in Seq(0 .. 255), NEW g \in 0 .. Groups(s) - 1
  PROVE  Group(Encode(s), g) = Combined(s, g)
<1> DEFINE d == Encode(s)
           n == Len(s)
           w == Combined(s, g)
           a == ByteAt(s, 3 * g + 1)
           b == ByteAt(s, 3 * g + 2)
           c == ByteAt(s, 3 * g + 3)
<1>1. g \in Nat /\ n \in Nat
  BY EncodeIs, SMT
<1>2. a \in 0 .. 255 /\ b \in 0 .. 255 /\ c \in 0 .. 255
  BY <1>1, ByteAtIsByte
<1>3. w = 65536 * a + 256 * b + c
  BY SMT DEF Combined
<1>4. 3 * g + 2 > n => b = 0
  BY <1>1, SMT DEF ByteAt
<1>5. 3 * g + 3 > n => c = 0
  BY <1>1, SMT DEF ByteAt
<1>6. 0 \in 0 .. 3 /\ 1 \in 0 .. 3 /\ 2 \in 0 .. 3 /\ 3 \in 0 .. 3
  BY SMT
<1>7. /\ 4 * g + 0 + 1 = 4 * g + 1 /\ 4 * g + 1 + 1 = 4 * g + 2
      /\ 4 * g + 2 + 1 = 4 * g + 3 /\ 4 * g + 3 + 1 = 4 * g + 4
  BY <1>1, SMT
<1>8. ~ Padded(n, g, 0) /\ ~ Padded(n, g, 1)
  BY SMT DEF Padded
<1>9. Padded(n, g, 2) => 3 * g + 2 > n /\ 3 * g + 3 > n
  BY <1>1, SMT DEF Padded
<1>10. Padded(n, g, 3) => 3 * g + 3 > n
  BY <1>1, SMT DEF Padded
<1>11. d[4 * g + 1] # 64 /\ d[4 * g + 1] = (w \div 64 ^ (3 - 0)) % 64
  BY <1>6, <1>7, <1>8, EqualsIsPadding
<1>12. d[4 * g + 2] # 64 /\ d[4 * g + 2] = (w \div 64 ^ (3 - 1)) % 64
  BY <1>6, <1>7, <1>8, EqualsIsPadding
<1>13. d[4 * g + 3] = 64 <=> Padded(n, g, 2)
  BY <1>6, <1>7, EqualsIsPadding
<1>14. ~ Padded(n, g, 2) => d[4 * g + 3] = (w \div 64 ^ (3 - 2)) % 64
  BY <1>6, <1>7, EqualsIsPadding
<1>15. d[4 * g + 4] = 64 <=> Padded(n, g, 3)
  BY <1>6, <1>7, EqualsIsPadding
<1>16. ~ Padded(n, g, 3) => d[4 * g + 4] = (w \div 64 ^ (3 - 3)) % 64
  BY <1>6, <1>7, EqualsIsPadding
<1> HIDE DEF d, n, w, a, b, c
<1>17. w \in Nat /\ w < 16777216
  BY <1>2, <1>3, SMT
<1>18. Value(d, 4 * g + 1) = (w \div 262144) % 64
  BY <1>11, Powers, SMT DEF Value, Equals
<1>19. Value(d, 4 * g + 2) = (w \div 4096) % 64
  BY <1>12, Powers, SMT DEF Value, Equals
<1>20. Value(d, 4 * g + 3) = (w \div 64) % 64
  <2>1. CASE Padded(n, g, 2)
    <3>1. b = 0 /\ c = 0
      BY <2>1, <1>4, <1>5, <1>9
    <3>2. (w \div 64) % 64 = 0
      BY <3>1, <1>2, <1>3, SMT
    <3> QED
      BY <2>1, <3>2, <1>13 DEF Value, Equals
  <2>2. CASE ~ Padded(n, g, 2)
    BY <2>2, <1>13, <1>14, Powers, SMT DEF Value, Equals
  <2> QED
    BY <2>1, <2>2
<1>21. Value(d, 4 * g + 4) = w % 64
  <2>1. CASE Padded(n, g, 3)
    <3>1. c = 0
      BY <2>1, <1>5, <1>10
    <3>2. w % 64 = 0
      BY <3>1, <1>2, <1>3, LeftOut, SMT
    <3> QED
      BY <2>1, <3>2, <1>15 DEF Value, Equals
  <2>2. CASE ~ Padded(n, g, 3)
    <3>1. d[4 * g + 4] = (w \div 1) % 64
      BY <2>2, <1>16, Powers, SMT
    <3>2. w \div 1 = w
      BY <1>17, SMT
    <3> QED
      BY <2>2, <3>1, <3>2, <1>15 DEF Value, Equals
  <2> QED
    BY <2>1, <2>2
<1>22. Group(d, g) = 262144 * ((w \div 262144) % 64) + 4096 * ((w \div 4096) % 64)
                      + 64 * ((w \div 64) % 64) + (w % 64)
  BY <1>18, <1>19, <1>20, <1>21, SMT DEF Group
<1>23. Group(d, g) = w
  BY <1>17, <1>22, FourDigits, SMT
<1> QED
  BY <1>23 DEF d, w

\* The characters of an encoding in which the decoder counts the padding.
LEMMA PadsTellLength ==
  ASSUME NEW s \in Seq(0 .. 255)
  PROVE  LET d    == Encode(s)
             pads == {j \in DOMAIN d : d[j] = Equals}
         IN /\ pads = {} <=> Len(s) = 3 * Groups(s)
            /\ Len(d) - 1 \in pads <=> Len(s) = 3 * Groups(s) - 2
            /\ Len(s) \in {3 * Groups(s), 3 * Groups(s) - 1, 3 * Groups(s) - 2}
<1> DEFINE d    == Encode(s)
           n    == Len(s)
           m    == Groups(s)
           pads == {j \in DOMAIN d : d[j] = Equals}
<1>1. n \in Nat /\ m \in Nat /\ Len(d) = 4 * m /\ DOMAIN d = 1 .. 4 * m
  BY EncodeIs, SMT
<1>2. n \in {3 * m, 3 * m - 1, 3 * m - 2}
  BY <1>1, SMT DEF Groups
<1>3. ASSUME NEW g \in 0 .. m - 1, NEW p \in 0 .. 3
      PROVE  4 * g + p + 1 \in pads <=> Padded(n, g, p)
  <2>1. 4 * g + p + 1 \in DOMAIN d
    BY <1>1, SMT
  <2> QED
    BY <2>1, EqualsIsPadding DEF Equals
<1>4. ASSUME NEW j \in pads
      PROVE  \E g \in 0 .. m - 1, p \in 0 .. 3 : j = 4 * g + p + 1
  <2>1. j \in 1 .. 4 * m
    BY <1>1
  <2>2. (j - 1) \div 4 \in 0 .. m - 1 /\ (j - 1) % 4 \in 0 .. 3
        /\ j = 4 * ((j - 1) \div 4) + ((j - 1) % 4) + 1
    BY <1>1, <2>1, CharacterAt
  <2> QED
    BY <2>2
<1> HIDE DEF d, n, m, pads
<1>5. n = 3 * m => pads = {}
  <2> SUFFICES ASSUME n = 3 * m, NEW j \in pads
               PROVE  FALSE
    OBVIOUS
  <2>1. PICK g \in 0 .. m - 1, p \in 0 .. 3 : j = 4 * g + p + 1
    BY <1>4
  <2>2. Padded(n, g, p)
    BY <1>3, <2>1
  <2> QED
    BY <1>1, <2>2, SMT DEF Padded
<1>6. n # 3 * m => m - 1 \in 0 .. m - 1
  BY <1>1, <1>2, SMT
<1>7. n # 3 * m => pads # {}
  <2> SUFFICES ASSUME n # 3 * m
               PROVE  4 * (m - 1) + 3 + 1 \in pads
    OBVIOUS
  <2>1. Padded(n, m - 1, 3)
    BY <1>1, <1>2, SMT DEF Padded
  <2> QED
    BY <1>3, <1>6, <2>1
<1>8. m # 0 => (Len(d) - 1 \in pads <=> n = 3 * m - 2)
  <2> SUFFICES ASSUME m # 0
               PROVE  Len(d) - 1 \in pads <=> n = 3 * m - 2
    OBVIOUS
  <2>1. Len(d) - 1 = 4 * (m - 1) + 2 + 1 /\ m - 1 \in 0 .. m - 1
    BY <1>1, SMT
  <2>2. Padded(n, m - 1, 2) <=> n = 3 * m - 2
    BY <1>1, <1>2, SMT DEF Padded
  <2> QED
    BY <1>3, <2>1, <2>2
<1>9. m = 0 => n = 3 * m /\ n # 3 * m - 2 /\ pads = {}
  BY <1>1, <1>2, <1>5, SMT
<1> QED
  BY <1>2, <1>5, <1>7, <1>8, <1>9 DEF d, n, m, pads

\* A byte is found in the group that its place gives, and in that group's number.
LEMMA ByteOfGroup ==
  ASSUME NEW s \in Seq(0 .. 255), NEW k \in 1 .. Len(s)
  PROVE  /\ (k - 1) \div 3 \in 0 .. Groups(s) - 1
         /\ (Combined(s, (k - 1) \div 3) \div 256 ^ (2 - ((k - 1) % 3))) % 256 = s[k]
<1> DEFINE n == Len(s)
           g == (k - 1) \div 3
           p == (k - 1) % 3
           w == Combined(s, g)
           a == ByteAt(s, 3 * g + 1)
           b == ByteAt(s, 3 * g + 2)
           c == ByteAt(s, 3 * g + 3)
<1>1. n \in Nat /\ k \in 1 .. n /\ Groups(s) \in Nat
  BY EncodeIs, SMT
<1>2. g \in 0 .. Groups(s) - 1 /\ g \in Nat /\ p \in 0 .. 2 /\ k = 3 * g + p + 1
  <2>1. g \in 0 .. Groups(s) - 1 /\ p \in 0 .. 2 /\ k = 3 * g + p + 1
    BY <1>1, ByteAtPlace DEF Groups
  <2> HIDE DEF g, p
  <2> QED
    BY <1>1, <2>1, SMT
<1>3. a \in 0 .. 255 /\ b \in 0 .. 255 /\ c \in 0 .. 255
  BY <1>2, ByteAtIsByte
<1>4. w = 65536 * a + 256 * b + c
  BY SMT DEF Combined
<1>5. ByteAt(s, k) = s[k]
  BY <1>1, SMT DEF ByteAt
<1> HIDE DEF n, g, p, w
<1>6. /\ p = 0 => a = s[k]
      /\ p = 1 => b = s[k]
      /\ p = 2 => c = s[k]
  <2>1. /\ p = 0 => k = 3 * g + 1
        /\ p = 1 => k = 3 * g + 2
        /\ p = 2 => k = 3 * g + 3
    BY <1>2, SMT
  <2> QED
    BY <2>1, <1>5
<1> HIDE DEF a, b, c
<1>7. (w \div 65536) % 256 = a /\ (w \div 256) % 256 = b /\ w % 256 = c /\ w \in Nat
  <2>1. w \in Nat
    BY <1>3, <1>4, SMT
  <2>2. w \div 65536 = a /\ a % 256 = a
    BY <1>3, <1>4, SMT
  <2>3. w \div 256 = 256 * a + b /\ (256 * a + b) % 256 = b
    BY <1>3, <1>4, SMT
  <2>4. w % 256 = c
    BY <1>3, <1>4, SMT
  <2> QED
    BY <2>1, <2>2, <2>3, <2>4
<1>8. 256 ^ (2 - 0) = 65536 /\ 256 ^ (2 - 1) = 256 /\ 256 ^ (2 - 2) = 1
  BY SMT
<1>9. (w \div 256 ^ (2 - p)) % 256 = s[k]
  <2>1. CASE p = 0
    BY <2>1, <1>6, <1>7, <1>8, SMT
  <2>2. CASE p = 1
    BY <2>2, <1>6, <1>7, <1>8, SMT
  <2>3. CASE p = 2
    <3>1. w \div 1 = w
      BY <1>7, SMT
    <3> QED
      BY <2>3, <3>1, <1>6, <1>7, <1>8, SMT
  <2> QED
    BY <1>2, <2>1, <2>2, <2>3, SMT
<1> QED
  BY <1>2, <1>9 DEF n, g, p, w

\* A write without a plus sign in its encoding is decoded to what it was, for
\* every length and all bytes.
LEMMA DecodeEncode ==
  ASSUME NEW s \in Seq(0 .. 255), \A j \in DOMAIN Encode(s) : Encode(s)[j] # Plus
  PROVE  Decode(InQuery(Encode(s))) = s
<1> DEFINE d       == Encode(s)
           m       == Groups(s)
           pads    == {j \in DOMAIN d : d[j] = Equals}
           missing == IF pads = {} THEN 0 ELSE IF Len(d) - 1 \in pads THEN 2 ELSE 1
<1>1. /\ m \in Nat /\ Len(s) \in Nat /\ d \in Seq(0 .. 64) /\ Len(d) = 4 * m
      /\ DOMAIN d = 1 .. 4 * m
  BY EncodeIs, SMT
<1>2. InQuery(d) = d
  <2>1. InQuery(d) = [j \in DOMAIN d |-> d[j]]
    BY DEF InQuery
  <2>2. d = [j \in DOMAIN d |-> d[j]]
    BY <1>1
  <2> QED
    BY <2>1, <2>2
<1>3. ASSUME NEW j \in DOMAIN d
      PROVE  d[j] # Space
  <2> HIDE DEF d, m
  <2>1. d[j] \in 0 .. 64
    BY <1>1, ElementOfSeq
  <2>2. \A v \in 0 .. 64 : v # Space
    BY SMT DEF Space
  <2> QED
    BY <2>1, <2>2, Zenon
<1>4. 3 * (Len(d) \div 4) - missing = Len(s)
  <2>1. /\ pads = {} <=> Len(s) = 3 * m
        /\ Len(d) - 1 \in pads <=> Len(s) = 3 * m - 2
        /\ Len(s) \in {3 * m, 3 * m - 1, 3 * m - 2}
    BY PadsTellLength
  <2> HIDE DEF d, pads, m
  <2>2. Len(d) \div 4 = m
    BY <1>1, SMT
  <2> QED
    BY <1>1, <2>1, <2>2, SMT
<1>5. Decode(d) = [k \in 1 .. 3 * (Len(d) \div 4) - missing |->
                     (Group(d, (k - 1) \div 3) \div 256 ^ (2 - ((k - 1) % 3))) % 256]
  <2> HIDE DEF d
  <2> QED
    BY <1>3, SMT DEF Decode, Group, Value
<1> HIDE DEF missing
<1>6. Decode(d) = [k \in 1 .. Len(s) |->
                     (Group(d, (k - 1) \div 3) \div 256 ^ (2 - ((k - 1) % 3))) % 256]
  BY <1>4, <1>5
<1>7. ASSUME NEW k \in 1 .. Len(s)
      PROVE  (Group(d, (k - 1) \div 3) \div 256 ^ (2 - ((k - 1) % 3))) % 256 = s[k]
  <2>1. (k - 1) \div 3 \in 0 .. m - 1
    BY ByteOfGroup
  <2>2. Group(d, (k - 1) \div 3) = Combined(s, (k - 1) \div 3)
    BY <2>1, GroupIsCombined
  <2> QED
    BY <2>2, ByteOfGroup
<1>8. Decode(d) = [k \in 1 .. Len(s) |-> s[k]]
  BY <1>6, <1>7
<1>9. s = [k \in 1 .. Len(s) |-> s[k]]
  OBVIOUS
<1> QED
  BY <1>2, <1>8, <1>9
-----------------------------------------------------------------------------
(* Modes *)

\* Text that is read as a decimal number stays below the bit of directories.
LEMMA DecimalIsSmall ==
  ASSUME NEW m \in 0 .. 511
  PROVE  AsDecimal(m) \in 0 .. 777
<1>1. m \div 64 \in 0 .. 7 /\ (m \div 8) % 8 \in 0 .. 7 /\ m % 8 \in 0 .. 7
  BY SMT
<1> QED
  BY <1>1, SMT DEF AsDecimal

\* A directory is stored with its bit and a file without, and the bit is read back.
LEMMA KindIsRead ==
  ASSUME NEW m \in 0 .. 511, NEW isDir \in BOOLEAN
  PROVE  LoadedAsDir(Stored(AsDecimal(m), isDir)) <=> isDir
<1> DEFINE v == AsDecimal(m)
           x == Stored(v, isDir)
<1>1. v \in 0 .. 777
  BY DecimalIsSmall
<1> HIDE DEF v
<1>2. x \in Nat /\ (x >= 16384 <=> isDir)
  <2>1. v % 512 \in 0 .. 511
    BY <1>1, SMT
  <2> QED
    BY <1>1, <2>1, SMT DEF Stored
<1> QED
  BY <1>2 DEF LoadedAsDir, v

-----------------------------------------------------------------------------
(* The invariant *)

\* A resource is held only where a later step lets it go.
Holding ==
  /\ sock = "held" => pc \in {"connect", "fill", "send", "alloc", "receive", "shutdown"}
  /\ request = "held" => pc = "send"
  /\ raw = "held" => pc \in {"receive", "shutdown", "parse", "oops"}

\* What has been read has come through the connection; there is no error yet.
Reading ==
  /\ read <= arrived
  /\ pc \in {"create", "connect", "fill", "send", "alloc"} => raw = "none"
  /\ pc \notin {"shutdown", "done"} => ret = 0
  /\ pc = "shutdown" => ret \in {0, -4}

\* A loop of receive_all that does not fail ends because the raw buffer is full or
\* because everything that will ever come has come.
Complete == read = RawSize \/ AtEnd

Ended ==
  /\ pc = "shutdown" /\ ret = 0 => Complete
  /\ pc = "parse" => Complete
  /\ pc = "oops" => Complete /\ (answer = Nothing \/ read < answer.head)
  /\ pc = "done" /\ raw = "released" => Complete \/ ret = -4

\* A request says what a write or a creation has put into it.
Saying == sent \in {NoRequest} \cup WriteRequests \cup CreateRequests

CallInv == /\ TypeOK /\ Holding /\ Reading /\ Ended /\ Saying
           /\ AcceptedIsWhole /\ WholeIsAccepted

\* The buffer for the answer is not empty.
LEMMA RawSizeIsPositive ==
  /\ RawSize \in Nat
  /\ \A a \in Answers : a.status \in Nat /\ a.head \in Nat \ {0} /\ a.body \in Nat
BY SizesAssumption, AnswersAssumption DEF RawSize

\* An answer has a length.
LEMMA TotalIsNat ==
  ASSUME TypeOK
  PROVE  /\ Total \in Nat /\ read \in Nat /\ arrived \in Nat /\ RawSize \in Nat
         /\ answer.status \in Nat /\ answer.head \in Nat /\ answer.body \in Nat
<1>1. answer.status \in Nat /\ answer.head \in Nat /\ answer.body \in Nat
  BY RawSizeIsPositive DEF TypeOK, Nothing
<1>2. Total \in Nat
  BY <1>1 DEF Total
<1>3. read \in Nat /\ arrived \in Nat
  BY <1>2, RawSizeIsPositive DEF TypeOK
<1> QED
  BY <1>1, <1>2, <1>3, RawSizeIsPositive

\* What the requests are, without what encode makes of the data.
LEMMA RequestKinds ==
  /\ \A r \in WriteRequests : r.kind = "write"
  /\ \A r \in CreateRequests : r.kind = "create"
<1>1. ASSUME NEW r \in WriteRequests
      PROVE  r.kind = "write"
  BY DEF WriteRequests
<1>2. ASSUME NEW r \in CreateRequests
      PROVE  r.kind = "create"
  BY DEF CreateRequests
<1> QED
  BY <1>1, <1>2

\* The invariant holds before the first call.
LEMMA InitCallInv == Init => CallInv
<1> SUFFICES ASSUME Init
             PROVE  CallInv
  OBVIOUS
<1>1. Total = 0 /\ answer = Nothing
  BY DEF Init, Total, Nothing
<1>2. TypeOK
  <2>1. pc \in Steps /\ {sock, request, raw} \subseteq States
    BY DEF Init, Steps, States
  <2>2. sent.kind \in {"none", "write", "create"} /\ (sent # NoRequest => request = "held")
    BY DEF Init, NoRequest
  <2>3. read \in 0 .. RawSize /\ arrived \in 0 .. Total
    BY <1>1, RawSizeIsPositive DEF Init
  <2>4. delivered \in BOOLEAN /\ line \in {"open", "closed", "reset"} /\ ret \in Nat
    BY DEF Init
  <2> QED
    BY <1>1, <2>1, <2>2, <2>3, <2>4 DEF TypeOK
<1>3. Holding /\ Ended /\ AcceptedIsWhole /\ WholeIsAccepted
  BY DEF Init, Holding, Ended, AcceptedIsWhole, WholeIsAccepted
<1>4. Reading
  BY DEF Init, Reading
<1>5. Saying
  BY DEF Init, Saying
<1> QED
  BY <1>2, <1>3, <1>4, <1>5 DEF CallInv

-----------------------------------------------------------------------------
(* Each step keeps the invariant *)

\* A call that gets no socket ends with nothing held.
LEMMA CreateSocketKeeps == CallInv /\ CreateSocket => CallInv'
<1> SUFFICES ASSUME CallInv, CreateSocket
             PROVE  CallInv'
  OBVIOUS
<1> USE DEF CreateSocket, Fail, server
<1>1. TypeOK'
  BY DEF CallInv, TypeOK, Steps, States, Total, RawSize
<1>2. Holding' /\ Saying'
  BY DEF CallInv, Holding, Saying, TypeOK
<1>3. Reading'
  BY DEF CallInv, Reading, TypeOK
<1>4. Ended'
  BY DEF CallInv, Reading, Ended, Complete, AtEnd, RawSize
<1>5. AcceptedIsWhole' /\ WholeIsAccepted'
  BY DEF CallInv, Reading, AcceptedIsWhole, WholeIsAccepted
<1> QED
  BY <1>1, <1>2, <1>3, <1>4, <1>5 DEF CallInv

\* A call that is not connected releases the socket.
LEMMA ConnectKeeps == CallInv /\ Connect => CallInv'
<1> SUFFICES ASSUME CallInv, Connect
             PROVE  CallInv'
  OBVIOUS
<1> USE DEF Connect, Fail, server
<1>1. TypeOK'
  BY DEF CallInv, TypeOK, Steps, States, Total, RawSize
<1>2. Holding' /\ Saying'
  BY DEF CallInv, Holding, Saying, TypeOK
<1>3. Reading'
  BY DEF CallInv, Reading, TypeOK
<1>4. Ended'
  BY DEF CallInv, Reading, Ended, Complete, AtEnd, RawSize
<1>5. AcceptedIsWhole' /\ WholeIsAccepted'
  BY DEF CallInv, Reading, AcceptedIsWhole, WholeIsAccepted
<1> QED
  BY <1>1, <1>2, <1>3, <1>4, <1>5 DEF CallInv

\* Sent or not, the request is released.
LEMMA SendKeeps == CallInv /\ Send => CallInv'
<1> SUFFICES ASSUME CallInv, Send
             PROVE  CallInv'
  OBVIOUS
<1> USE DEF Send, Fail, NoRequest
<1>1. TypeOK'
  BY DEF CallInv, TypeOK, Steps, States, Total, RawSize
<1>2. Holding' /\ Saying'
  BY DEF CallInv, Holding, Saying, TypeOK
<1>3. Reading'
  BY DEF CallInv, Reading, TypeOK
<1>4. Ended'
  BY DEF CallInv, Reading, Ended, Complete, AtEnd, RawSize
<1>5. AcceptedIsWhole' /\ WholeIsAccepted'
  BY DEF CallInv, Reading, AcceptedIsWhole, WholeIsAccepted
<1> QED
  BY <1>1, <1>2, <1>3, <1>4, <1>5 DEF CallInv

\* Without a raw buffer the socket is released.
LEMMA AllocRawKeeps == CallInv /\ AllocRaw => CallInv'
<1> SUFFICES ASSUME CallInv, AllocRaw
             PROVE  CallInv'
  OBVIOUS
<1> USE DEF AllocRaw, Fail, ENOMEM, server
<1>1. TypeOK'
  BY DEF CallInv, TypeOK, Steps, States, Total, RawSize
<1>2. Holding' /\ Saying'
  BY DEF CallInv, Holding, Saying, TypeOK
<1>3. Reading'
  BY DEF CallInv, Reading, TypeOK
<1>4. Ended'
  BY DEF CallInv, Reading, Ended, Complete, AtEnd, RawSize
<1>5. AcceptedIsWhole' /\ WholeIsAccepted'
  BY DEF CallInv, Reading, AcceptedIsWhole, WholeIsAccepted
<1> QED
  BY <1>1, <1>2, <1>3, <1>4, <1>5 DEF CallInv

\* A request that is filled says what a write or a creation put into it.
LEMMA FillRequestKeeps == CallInv /\ FillRequest => CallInv'
<1> SUFFICES ASSUME CallInv, FillRequest
             PROVE  CallInv'
  OBVIOUS
<1> USE DEF FillRequest, Fail, ENOMEM, server
<1>1. TypeOK'
  BY RequestKinds DEF CallInv, TypeOK, Steps, States, Total, RawSize
<1>2. Holding' /\ Saying'
  BY DEF CallInv, Holding, Saying, TypeOK
<1>3. Reading'
  BY DEF CallInv, Reading, TypeOK
<1>4. Ended'
  BY DEF CallInv, Reading, Ended, Complete, AtEnd, RawSize
<1>5. AcceptedIsWhole' /\ WholeIsAccepted'
  BY DEF CallInv, Reading, AcceptedIsWhole, WholeIsAccepted
<1> QED
  BY <1>1, <1>2, <1>3, <1>4, <1>5 DEF CallInv

\* What a call of kernel_recvmsg brings fits the raw buffer and has arrived.
LEMMA ReceiveKeeps == CallInv /\ Receive => CallInv'
<1> SUFFICES ASSUME CallInv, Receive
             PROVE  CallInv'
  OBVIOUS
<1> USE DEF Receive, server
<1>0. read \in Nat /\ arrived \in Nat /\ RawSize \in Nat /\ RawSize' = RawSize /\ Total' = Total
  BY TotalIsNat DEF CallInv, RawSize, Total
<1>1. TypeOK'
  BY <1>0 DEF CallInv, TypeOK, Steps, States, Limit
<1>2. Holding' /\ Saying'
  BY DEF CallInv, Holding, Saying, TypeOK
<1>3. Reading'
  BY <1>0 DEF CallInv, Reading, TypeOK, Limit
<1>4. Ended'
  BY <1>0 DEF CallInv, Reading, Ended, Complete, AtEnd
<1>5. AcceptedIsWhole' /\ WholeIsAccepted'
  BY DEF CallInv, Reading, AcceptedIsWhole, WholeIsAccepted
<1> QED
  BY <1>1, <1>2, <1>3, <1>4, <1>5 DEF CallInv

\* The socket goes; with an error the raw buffer goes too.
LEMMA ShutdownKeeps == CallInv /\ Shutdown => CallInv'
<1> SUFFICES ASSUME CallInv, Shutdown
             PROVE  CallInv'
  OBVIOUS
<1> USE DEF Shutdown, server
<1>1. TypeOK'
  BY DEF CallInv, TypeOK, Steps, States, Total, RawSize
<1>2. Holding' /\ Saying'
  BY DEF CallInv, Holding, Saying, TypeOK
<1>3. Reading'
  BY DEF CallInv, Reading, TypeOK
<1>4. Ended'
  BY DEF CallInv, Reading, Ended, Complete, AtEnd, RawSize
<1>5. AcceptedIsWhole' /\ WholeIsAccepted'
  BY TotalIsNat DEF CallInv, Reading, Ended, Complete, AtEnd, AcceptedIsWhole, WholeIsAccepted
<1> QED
  BY <1>1, <1>2, <1>3, <1>4, <1>5 DEF CallInv

\* parse_http_response gives a body that is there, and refuses an answer only when
\* a part of it is missing or the caller's buffer too small; what lies behind the
\* bytes received is never taken for a body.
LEMMA ResultIs ==
  ASSUME TypeOK, NEW h \in HeadsIn(read)
  PROVE  \/ /\ answer # Nothing /\ answer.status = 200 /\ Total <= read
            /\ Result(h, read) = answer.body
            /\ h.end # Null
         \/ /\ Result(h, read) \in {-5, -6, -7, ENOSPC}
            /\ answer.status = 200 /\ Total <= read => answer.body \notin Word .. Buffer
         \/ /\ Result(h, read) \in Nat /\ h.end = Null
            /\ answer = Nothing \/ read < answer.head
<1>1. /\ read \in Nat /\ RawSize \in Nat /\ Total = answer.head + answer.body
      /\ answer.head \in Nat /\ answer.body \in Nat /\ answer.status \in Nat
      /\ Word \in Nat /\ Buffer \in Nat
  BY TotalIsNat, SizesAssumption DEF Total
<1>2. CASE answer # Nothing /\ read >= answer.head
  <2>1. h.status = answer.status /\ h.end = answer.head /\ h.body = answer.body
    BY <1>2 DEF HeadsIn
  <2>2. h.end # Null
    BY <1>1, <2>1 DEF Null
  <2> QED
    BY <1>1, <1>2, <2>1, <2>2 DEF Result, Missing
<1>3. CASE ~ (answer # Nothing /\ read >= answer.head)
  <2>1. /\ h.status \in {0, 200} /\ h.end \in {Null} \cup (read + 1 .. RawSize + 1)
        /\ h.body \in -1 .. RawSize + Word
    BY <1>3 DEF HeadsIn
  <2>2. h.end # Null => Result(h, read) \in {-5, -6}
    <3>1. ASSUME h.end # Null
          PROVE  h.body = -1 \/ h.end + h.body > read
      <4>1. h.end \in read + 1 .. RawSize + 1
        BY <2>1, <3>1
      <4>2. h.end \in Int /\ h.end > read /\ h.body \in Int /\ h.body >= -1
        BY TotalIsNat, SizesAssumption, <2>1, <4>1
      <4>3. \A e, b \in Int : e > read /\ b >= -1 => b = -1 \/ e + b > read
        BY TotalIsNat
      <4> QED
        BY <4>2, <4>3
    <3> QED
      BY <3>1 DEF Result, Missing
  <2>3. Result(h, read) \in {-5, -6, -7, ENOSPC} \cup Nat
    BY <1>1, <2>1 DEF Result
  <2>4. answer.status = 200 => Total > read
    BY <1>1, <1>3 DEF Nothing
  <2>5. answer = Nothing \/ read < answer.head
    BY <1>1, <1>3
  <2> QED
    BY <1>1, <2>2, <2>3, <2>4, <2>5
<1> QED
  BY <1>2, <1>3

\* Only a complete answer gives a result, and a complete answer that fits does.
LEMMA ParseKeeps == CallInv /\ Parse => CallInv'
<1> SUFFICES ASSUME CallInv, Parse
             PROVE  CallInv'
  OBVIOUS
<1> USE DEF server
<1>1. PICK h \in HeadsIn(read) :
        IF h.end = Null /\ Result(h, read) >= 0
        THEN pc' = "oops" /\ UNCHANGED <<raw, ret>>
        ELSE pc' = "done" /\ ret' = Result(h, read) /\ raw' = "released"
  BY DEF Parse, Fail
<1>2. /\ TypeOK /\ read \in Nat /\ arrived \in Nat
      /\ Total = answer.head + answer.body /\ Total' = Total
      /\ answer.head \in Nat /\ answer.body \in Nat
      /\ pc = "parse" /\ ret = 0 /\ Complete
      /\ UNCHANGED <<sock, request, sent, read, delivered, answer, arrived, line>>
  BY TotalIsNat DEF CallInv, Total, Reading, Ended, Parse
<1>3. /\ Result(h, read) \in {-5, -6, -7, ENOSPC} \cup Nat
      /\ Result(h, read) \in Nat /\ h.end = Null => answer = Nothing \/ read < answer.head
  BY <1>2, ResultIs DEF ENOSPC
<1>4. \/ pc' = "oops" /\ raw' = raw /\ ret' = 0 /\ (answer = Nothing \/ read < answer.head)
      \/ pc' = "done" /\ raw' = "released" /\ ret' = Result(h, read)
  BY <1>1, <1>2, <1>3 DEF ENOSPC
<1>5. Complete'
  BY <1>2 DEF Complete, AtEnd, RawSize
<1>6. TypeOK'
  BY <1>2, <1>3, <1>4 DEF TypeOK, Steps, States, Total, RawSize
<1>7. Holding' /\ Saying'
  BY <1>2, <1>4 DEF CallInv, Holding, Saying, TypeOK
<1>8. Reading'
  BY <1>2, <1>4 DEF CallInv, Reading
<1>9. Ended'
  BY <1>2, <1>4, <1>5 DEF Ended
<1>10. /\ answer.status = 200 /\ arrived = Total /\ answer.head <= Slack
       /\ answer.body \in Word .. Buffer
       => Total <= read
  BY <1>2, SizesAssumption DEF Complete, AtEnd, RawSize
<1>11. AcceptedIsWhole' /\ WholeIsAccepted'
  <2>1. CASE pc' = "oops"
    BY <1>2, <1>4, <1>10, <2>1 DEF AcceptedIsWhole, WholeIsAccepted, Nothing
  <2>2. CASE pc' = "done" /\ h.end = Null
    BY <1>1, <1>2, <1>3, <1>10, <2>2, ResultIs DEF AcceptedIsWhole, WholeIsAccepted, ENOSPC
  <2>3. CASE pc' = "done" /\ h.end # Null
    BY <1>1, <1>2, <1>10, <2>3, ResultIs DEF AcceptedIsWhole, WholeIsAccepted, ENOSPC
  <2> QED
    BY <1>4, <2>1, <2>2, <2>3
<1> QED
  BY <1>6, <1>7, <1>8, <1>9, <1>11 DEF CallInv

\* An answer comes once, and not after the result.
LEMMA ServeKeeps == CallInv /\ Serve => CallInv'
<1> SUFFICES ASSUME CallInv, Serve
             PROVE  CallInv'
  OBVIOUS
<1> USE DEF Serve, client
<1>0. Total = 0 /\ arrived = 0 /\ read = 0 /\ RawSize' = RawSize /\ Total' \in Nat
  BY TotalIsNat, RawSizeIsPositive DEF CallInv, TypeOK, Reading, RawSize, Total, Nothing
<1>1. TypeOK'
  BY <1>0 DEF CallInv, TypeOK
<1>2. Holding' /\ Saying'
  BY DEF CallInv, Holding, Saying, TypeOK
<1>3. Reading'
  BY DEF CallInv, Reading, TypeOK
<1>4. Ended'
  BY <1>0, RawSizeIsPositive DEF CallInv, Ended, Complete, AtEnd, TypeOK
<1>5. AcceptedIsWhole' /\ WholeIsAccepted'
  BY <1>0, RawSizeIsPositive, SizesAssumption, TotalIsNat DEF CallInv, Ended, Complete, AtEnd, AcceptedIsWhole, WholeIsAccepted, RawSize, Total
<1> QED
  BY <1>1, <1>2, <1>3, <1>4, <1>5 DEF CallInv

\* What comes after the end of a loop is not part of an answer that fits.
LEMMA ArriveKeeps == CallInv /\ Arrive => CallInv'
<1> SUFFICES ASSUME CallInv, Arrive
             PROVE  CallInv'
  OBVIOUS
<1> USE DEF Arrive, client
<1>0. read \in Nat /\ arrived \in Nat /\ RawSize \in Nat /\ RawSize' = RawSize /\ Total' = Total
  BY TotalIsNat DEF CallInv, RawSize, Total
<1>1. TypeOK'
  BY <1>0, TotalIsNat DEF CallInv, TypeOK
<1>2. Holding' /\ Saying'
  BY DEF CallInv, Holding, Saying, TypeOK
<1>3. Reading'
  BY <1>0, TotalIsNat DEF CallInv, Reading
<1>4. Ended'
  BY <1>0 DEF CallInv, Ended, Complete, AtEnd
<1>5. AcceptedIsWhole' /\ WholeIsAccepted'
  BY <1>0, TotalIsNat, SizesAssumption DEF CallInv, Reading, Ended, Complete, AtEnd, AcceptedIsWhole, WholeIsAccepted, RawSize, Total
<1> QED
  BY <1>1, <1>2, <1>3, <1>4, <1>5 DEF CallInv

\* A connection that ends changes nothing of what has been read.
LEMMA HangupKeeps == CallInv /\ Hangup => CallInv'
<1> SUFFICES ASSUME CallInv, Hangup
             PROVE  CallInv'
  OBVIOUS
<1> USE DEF Hangup, client
<1>1. TypeOK'
  BY DEF CallInv, TypeOK, Steps, States, Total, RawSize
<1>2. Holding' /\ Saying'
  BY DEF CallInv, Holding, Saying, TypeOK
<1>3. Reading'
  BY DEF CallInv, Reading, TypeOK
<1>4. Ended'
  BY DEF CallInv, Reading, Ended, Complete, AtEnd, RawSize
<1>5. AcceptedIsWhole' /\ WholeIsAccepted'
  BY DEF CallInv, Reading, AcceptedIsWhole, WholeIsAccepted
<1> QED
  BY <1>1, <1>2, <1>3, <1>4, <1>5 DEF CallInv

\* The next call starts with nothing.
LEMMA NextCallKeeps == CallInv /\ NextCall => CallInv'
<1> SUFFICES ASSUME CallInv, NextCall
             PROVE  CallInv'
  OBVIOUS
<1> USE DEF NextCall, NoRequest, Nothing
<1>1. TypeOK'
  <2>1. Total' = 0 /\ RawSize' = RawSize /\ RawSize \in Nat
    BY RawSizeIsPositive DEF Total, RawSize
  <2>2. read' \in 0 .. RawSize' /\ arrived' \in 0 .. Total'
    BY <2>1
  <2> QED
    BY <2>2 DEF TypeOK, Steps, States
<1>2. Holding' /\ Saying'
  BY DEF CallInv, Holding, Saying, TypeOK
<1>3. Reading'
  BY DEF CallInv, Reading, TypeOK
<1>4. Ended'
  BY DEF CallInv, Reading, Ended, Complete, AtEnd, RawSize
<1>5. AcceptedIsWhole' /\ WholeIsAccepted'
  BY DEF CallInv, Reading, AcceptedIsWhole, WholeIsAccepted
<1> QED
  BY <1>1, <1>2, <1>3, <1>4, <1>5 DEF CallInv

-----------------------------------------------------------------------------
(* Theorems *)

\* The invariant holds in every state of every behaviour.
LEMMA CallInvariance == Spec => []CallInv
<1>1. CallInv /\ [Next]_vars => CallInv'
  <2> SUFFICES ASSUME CallInv, [Next]_vars
               PROVE  CallInv'
    OBVIOUS
  <2>1. CASE Client
    BY <2>1, CreateSocketKeeps, ConnectKeeps, FillRequestKeeps, SendKeeps, AllocRawKeeps,
       ReceiveKeeps, ShutdownKeeps, ParseKeeps, Zenon DEF Client
  <2>2. CASE Server
    BY <2>2, ServeKeeps, ArriveKeeps, HangupKeeps, Zenon DEF Server
  <2>3. CASE NextCall
    BY <2>3, NextCallKeeps
  <2>4. CASE UNCHANGED vars
    BY <2>4 DEF vars, client, server, CallInv, TypeOK, Holding, Reading, Ended, Complete, AtEnd,
                Saying, AcceptedIsWhole, WholeIsAccepted, Total, RawSize
  <2> QED
    BY <2>1, <2>2, <2>3, <2>4 DEF Next
<1> QED
  BY InitCallInv, <1>1, PTL DEF Spec

\* Variables stay within their types, and reading stays within the raw buffer.
THEOREM TypeCorrect == Spec => []TypeOK
<1>1. CallInv => TypeOK
  BY DEF CallInv
<1> QED
  BY <1>1, CallInvariance, PTL

\* However a call of vtfs_http_call returns, it leaves no socket and no buffer behind.
THEOREM NoLeftovers == Spec => []NothingHeld
<1>1. CallInv => NothingHeld
  BY DEF CallInv, Holding, NothingHeld
<1> QED
  BY <1>1, CallInvariance, PTL

\* parse_http_response gives no result unless the whole body has come, and the
\* thread dies in it only when the answer was cut inside its head.
THEOREM OnlyWholeAnswers == Spec => []AcceptedIsWhole
<1>1. CallInv => AcceptedIsWhole
  BY DEF CallInv
<1> QED
  BY <1>1, CallInvariance, PTL

\* An answer that fits the buffers and has come is lost only by a call of
\* kernel_recvmsg that fails.
THEOREM AllWholeAnswers == Spec => []WholeIsAccepted
<1>1. CallInv => WholeIsAccepted
  BY DEF CallInv
<1> QED
  BY <1>1, CallInvariance, PTL

\* A write of any length that is sent without a plus sign, and that a zero byte
\* follows, is decoded to the bytes the program wrote.
THEOREM WritesSurvive == Spec => []DecodesBack
<1>1. CallInv => DecodesBack
  <2> SUFFICES ASSUME Saying, sent.kind = "write", sent.behind = 0,
                      \A i \in DOMAIN sent.bytes : sent.bytes[i] # 0,
                      \A j \in DOMAIN sent.data : sent.data[j] # Plus
               PROVE  Decode(InQuery(sent.data)) = sent.bytes
    BY DEF CallInv, DecodesBack
  <2>1. sent \in WriteRequests
    BY RequestKinds DEF Saying, NoRequest
  <2>2. PICK s \in Writes, z \in Behind :
          sent = [kind |-> "write", bytes |-> s, behind |-> z, data |-> Encoding(s, z)]
    BY <2>1 DEF WriteRequests
  <2>3. sent.bytes = s /\ sent.behind = z /\ sent.data = Encoding(s, z)
    BY <2>2, Zenon
  <2>4. s \in Seq(0 .. 255) /\ s \in Seq(Nat)
    <3>1. PICK n \in 1 .. MaxLen : s \in [1 .. n -> Bytes]
      BY Zenon DEF Writes
    <3>2. n \in Nat
      BY SizesAssumption
    <3>3. s \in [1 .. n -> 0 .. 255]
      BY <3>1, BytesAssumption
    <3>4. s \in Seq(0 .. 255)
      BY <3>2, <3>3, FunctionIsSeq
    <3>5. 0 .. 255 \subseteq Nat
      OBVIOUS
    <3> QED
      BY <3>4, <3>5, SeqMonotonic, Zenon
  <2>5. sent.data = Encode(CString(s \o <<0, 0>>))
    BY <2>3, Zenon DEF Encoding
  <2>6. CString(s \o <<0, 0>>) = s
    BY <2>3, <2>4, CStringWhole
  <2> QED
    BY <2>3, <2>4, <2>5, <2>6, DecodeEncode, Zenon
<1> QED
  BY <1>1, CallInvariance, PTL

\* Whatever mode a program gives, a directory is loaded as a directory and a file
\* as a file.
THEOREM KindsSurvive == Spec => []KindSurvives
<1>1. CallInv => KindSurvives
  <2> SUFFICES ASSUME Saying, sent.kind = "create"
               PROVE  LoadedAsDir(Stored(sent.text, sent.dir)) <=> sent.dir
    BY DEF CallInv, KindSurvives
  <2>1. sent \in CreateRequests
    BY RequestKinds DEF Saying, NoRequest
  <2>2. PICK m \in Modes, isDir \in BOOLEAN :
          sent = [kind |-> "create", dir |-> isDir, mode |-> m, text |-> AsDecimal(m)]
    BY <2>1 DEF CreateRequests
  <2>3. sent.text = AsDecimal(m) /\ sent.dir = isDir /\ m \in 0 .. 511
    BY <2>2, ModesAssumption
  <2>4. LoadedAsDir(Stored(AsDecimal(m), isDir)) <=> isDir
    BY <2>3, KindIsRead
  <2> QED
    BY <2>3, <2>4, Zenon
<1> QED
  BY <1>1, CallInvariance, PTL
=============================================================================
