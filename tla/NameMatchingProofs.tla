------------------------- MODULE NameMatchingProofs -------------------------
(***************************************************************************)
(* A comparison answers what the declarative definition says, for names,   *)
(* constraints, URIs and addresses of any length; its loops end; and the   *)
(* mask that folds case folds nothing else in what it is given.            *)
(***************************************************************************)
EXTENDS NameMatching, WellFoundedInduction, TLAPS

-----------------------------------------------------------------------------
(* Positions in a text, and texts cut there.                               *)

\* Min of the library is the least element.
LEMMA LeastNatural ==
  ASSUME NEW S, S \subseteq Nat, S # {}
  PROVE  Min(S) \in S /\ \A y \in S : Min(S) <= y
<1> DEFINE less == {p \in Nat \X Nat : p[1] < p[2]}
<1>1. IsWellFoundedOn(less, Nat)
  BY NatLessThanWellFounded DEF OpToRel
<1>2. PICK x \in S : \A y \in S : ~(<<y, x>> \in less)
  BY <1>1, WFMin, Zenon
<1>3. ASSUME NEW y \in S PROVE x <= y
  <2>1. x \in Nat /\ y \in Nat
    OBVIOUS
  <2>2. ~(y < x)
    BY <1>2, <2>1
  <2> QED BY <2>1, <2>2
<1> QED BY <1>3 DEF Min

\* Max of positions is the greatest of them.
LEMMA GreatestPosition ==
  ASSUME NEW n \in Nat, NEW S, S \subseteq 1..n, S # {}
  PROVE  Max(S) \in S /\ \A y \in S : Max(S) >= y
<1> DEFINE fromEnd == {n - i : i \in S}
           d == Min(fromEnd)
<1>1. fromEnd \subseteq Nat /\ fromEnd # {}
  OBVIOUS
<1>2. d \in fromEnd /\ \A e \in fromEnd : d <= e
  <2> HIDE DEF fromEnd
  <2> QED BY <1>1, LeastNatural
<1> HIDE DEF d
<1>3. PICK x \in S : d = n - x
  BY <1>2
<1>4. ASSUME NEW y \in S PROVE x >= y
  <2>1. n - y \in fromEnd
    BY <1>4
  <2>2. n - x <= n - y
    BY <1>2, <1>3, <2>1
  <2>3. x \in 1..n /\ y \in 1..n
    OBVIOUS
  <2> QED BY <2>2, <2>3
<1> QED BY <1>4 DEF Max

\* FirstOf is the first position of a byte of the set, and 0 if there is none.
LEMMA FirstOfPosition ==
  ASSUME NEW text \in Seq(Nat), NEW set, NEW p, p = FirstOf(set, text)
  PROVE  /\ p \in 0..Len(text)
         /\ p = 0 => \A i \in 1..Len(text) : text[i] \notin set
         /\ p # 0 => text[p] \in set /\ \A i \in 1..(p - 1) : text[i] \notin set
<1> DEFINE I == {i \in 1..Len(text) : text[i] \in set}
<1>1. p = IF I # {} THEN Min(I) ELSE 0
  BY DEF FirstOf, SelectInSeq
<1>2. ASSUME I # {} PROVE Min(I) \in I /\ \A i \in I : Min(I) <= i
  <2>1. I \subseteq Nat
    OBVIOUS
  <2> HIDE DEF I
  <2> QED BY <1>2, <2>1, LeastNatural
<1>3. CASE I = {}
  BY <1>1, <1>3
<1>4. CASE I # {}
  <2>1. p \in I /\ \A i \in I : p <= i
    BY <1>1, <1>2, <1>4
  <2> QED BY <2>1
<1> QED BY <1>3, <1>4

\* LastOf is the last position of the byte, and 0 if there is none.
LEMMA LastOfPosition ==
  ASSUME NEW text \in Seq(Nat), NEW byte, NEW p, p = LastOf(byte, text)
  PROVE  /\ p \in 0..Len(text)
         /\ p # 0 => text[p] = byte
         /\ \A i \in (p + 1)..Len(text) : text[i] # byte
<1> DEFINE I == {i \in 1..Len(text) : text[i] = byte}
<1>1. p = IF I # {} THEN Max(I) ELSE 0
  BY DEF LastOf, SelectLastInSeq
<1>2. ASSUME I # {} PROVE Max(I) \in I /\ \A i \in I : Max(I) >= i
  <2>1. I \subseteq 1..Len(text) /\ Len(text) \in Nat
    OBVIOUS
  <2> HIDE DEF I
  <2> QED BY <1>2, <2>1, GreatestPosition
<1>3. CASE I = {}
  BY <1>1, <1>3
<1>4. CASE I # {}
  <2>1. p \in I /\ \A i \in I : p >= i
    BY <1>1, <1>2, <1>4
  <2> QED BY <2>1
<1> QED BY <1>3, <1>4

\* A text over a set of bytes.
LEMMA SequenceOf ==
  ASSUME NEW S, NEW t \in Seq(Nat), \A i \in 1..Len(t) : t[i] \in S
  PROVE  t \in Seq(S)
OBVIOUS

\* Two texts are the same if they agree byte by byte.
LEMMA SameSequence ==
  ASSUME NEW s \in Seq(Nat), NEW t \in Seq(Nat)
  PROVE  s = t <=> Len(s) = Len(t) /\ \A i \in 1..Len(s) : s[i] = t[i]
<1>1. ASSUME Len(s) = Len(t), \A i \in 1..Len(s) : s[i] = t[i] PROVE s = t
  <2>1. DOMAIN s = 1..Len(s) /\ DOMAIN t = 1..Len(s)
    BY <1>1
  <2>2. s = [i \in DOMAIN s |-> s[i]] /\ t = [i \in DOMAIN t |-> t[i]]
    OBVIOUS
  <2> QED BY <1>1, <2>1, <2>2
<1> QED BY <1>1

\* What SubSeq cuts out, byte by byte.
LEMMA SpanTyped ==
  ASSUME NEW text \in Seq(Nat), NEW i \in Nat \ {0}, NEW j \in Nat, i <= j, j <= Len(text)
  PROVE  /\ SubSeq(text, i, j) \in Seq(Nat)
         /\ Len(SubSeq(text, i, j)) = j - i + 1
         /\ \A k \in 1..(j - i + 1) : SubSeq(text, i, j)[k] = text[i + k - 1]
OBVIOUS

\* What From cuts out, byte by byte.
LEMMA FromTyped ==
  ASSUME NEW text \in Seq(Nat), NEW i \in Nat \ {0}, i <= Len(text) + 1
  PROVE  /\ From(text, i) \in Seq(Nat)
         /\ Len(From(text, i)) = Len(text) + 1 - i
         /\ \A k \in 1..(Len(text) + 1 - i) : From(text, i)[k] = text[i + k - 1]
BY DEF From

\* What UpTo cuts out, byte by byte.
LEMMA UpToTyped ==
  ASSUME NEW text \in Seq(Nat), NEW i \in Nat, i <= Len(text)
  PROVE  /\ UpTo(text, i) \in Seq(Nat)
         /\ Len(UpTo(text, i)) = i
         /\ \A k \in 1..i : UpTo(text, i)[k] = text[k]
BY DEF UpTo

\* StripPeriod takes one period off the end, if there is one.
LEMMA StripPeriodTyped ==
  ASSUME NEW text \in Seq(Nat), NEW body, body = StripPeriod(text)
  PROVE  /\ body \in Seq(Nat)
         /\ \A i \in 1..Len(body) : body[i] = text[i]
         /\ \/ /\ text # <<>> /\ text[Len(text)] = ASCII_PERIOD
               /\ Len(body) = Len(text) - 1
            \/ /\ text = <<>> \/ text[Len(text)] # ASCII_PERIOD
               /\ body = text
<1>1. CASE text # <<>> /\ text[Len(text)] = ASCII_PERIOD
  <2>1. body = UpTo(text, Len(text) - 1)
    BY <1>1 DEF StripPeriod, Front, Last, UpTo
  <2>2. Len(text) - 1 \in Nat /\ Len(text) - 1 <= Len(text)
    BY <1>1
  <2>3. body \in Seq(Nat) /\ Len(body) = Len(text) - 1 /\ \A i \in 1..Len(body) : body[i] = text[i]
    <3> DEFINE m == Len(text) - 1
    <3>1. UpTo(text, m) \in Seq(Nat) /\ Len(UpTo(text, m)) = m /\ \A i \in 1..m : UpTo(text, m)[i] = text[i]
      <4> HIDE DEF m
      <4> QED BY <2>2, UpToTyped DEF m
    <3>2. body = UpTo(text, m)
      BY <2>1
    <3> HIDE DEF m
    <3>3. body \in Seq(Nat) /\ Len(body) = m /\ \A i \in 1..m : body[i] = text[i]
      BY <3>1, <3>2, Zenon
    <3> QED BY <3>3, Zenon DEF m
  <2> QED BY <1>1, <2>3
<1>2. CASE text = <<>> \/ text[Len(text)] # ASCII_PERIOD
  <2>1. body = text
    BY <1>2 DEF StripPeriod, Last
  <2> QED BY <1>2, <2>1
<1> QED BY <1>1, <1>2

\* Lowered, byte by byte.
LEMMA LoweredByte ==
  ASSUME NEW text \in Seq(Nat)
  PROVE  /\ Lowered(text) \in Seq(Nat) /\ Len(Lowered(text)) = Len(text)
         /\ \A i \in 1..Len(text) :
              Lowered(text)[i] = IF text[i] \in UpperCase THEN text[i] + 32 ELSE text[i]
BY DEF Lowered, UpperCase

-----------------------------------------------------------------------------
(* Addresses: the octets the code masks are the bits a prefix covers.      *)

\* The octet and the place in it of a bit, and back.
LEMMA BitPosition ==
  ASSUME NEW o \in Nat \ {0}, NEW b \in 1..8, NEW octets
  PROVE  Bit(octets, 8 * (o - 1) + b) = octets[o][b]
<1> DEFINE k == 8 * (o - 1) + b - 1
<1>1. k = 8 * (o - 1) + (b - 1) /\ o - 1 \in Nat /\ b - 1 \in 0..7
  OBVIOUS
<1>2. k \div 8 = o - 1 /\ k % 8 = b - 1
  BY <1>1
<1>3. 8 * (o - 1) + b - 1 = k
  OBVIOUS
<1> HIDE DEF k
<1>4. (k \div 8) + 1 = o /\ (k % 8) + 1 = b
  BY <1>2
<1> QED BY <1>3, <1>4 DEF Bit

\* Every bit is in an octet, at a place in it.
LEMMA PositionOfBit ==
  ASSUME NEW l \in Nat, NEW k \in 1..(8 * l)
  PROVE  \E o \in 1..l, b \in 1..8 : k = 8 * (o - 1) + b
<1> DEFINE o == ((k - 1) \div 8) + 1
           b == ((k - 1) % 8) + 1
<1>1. k - 1 = 8 * ((k - 1) \div 8) + ((k - 1) % 8)
  OBVIOUS
<1>2. o \in 1..l /\ b \in 1..8
  OBVIOUS
<1>3. k = 8 * (o - 1) + b
  BY <1>1
<1> QED BY <1>2, <1>3

\* The bits of the two octets that are constants.
LEMMA OctetBits ==
  ASSUME NEW byte \in Octet
  PROVE  /\ \A k \in 1..8 : byte[k] \in {0, 1}
         /\ byte = AllOnes <=> \A k \in 1..8 : byte[k] = 1
         /\ byte = AllZeros <=> \A k \in 1..8 : byte[k] = 0
BY DEF Octet, AllOnes, AllZeros

\* Shifting off the leading ones of an octet.
LEMMA LeadingOnes ==
  ASSUME NEW byte \in Octet, byte # AllOnes, NEW m, m = leading_zeros(Not(byte))
  PROVE  /\ m \in 0..7
         /\ \A k \in 1..m : byte[k] = 1
         /\ byte[m + 1] = 0
         /\ wrapping_shl(byte, m) = AllZeros <=> \A k \in (m + 1)..8 : byte[k] = 0
<1> DEFINE I == {i \in 1..8 : byte[i] = 0}
<1>1. /\ \A k \in 1..8 : byte[k] \in {0, 1}
      /\ byte = AllOnes <=> \A k \in 1..8 : byte[k] = 1
  BY OctetBits
<1>2. Not(byte) \in Seq(Int) /\ Len(Not(byte)) = 8 /\ \A i \in 1..8 : Not(byte)[i] = 1 - byte[i]
  BY <1>1 DEF Not
<1>3. {i \in 1..Len(Not(byte)) : Not(byte)[i] = 1} = I
  BY <1>1, <1>2
<1>4. I # {} /\ I \subseteq Nat
  BY <1>1
<1>5. m = Min(I) - 1
  <2> DEFINE first == SelectInSeq(Not(byte), LAMBDA bit : bit = 1)
  <2>1. first = Min(I)
    <3> HIDE DEF I
    <3> QED BY <1>3, <1>4 DEF SelectInSeq
  <2>2. first # 0
    <3>1. Min(I) \in I
      <4> HIDE DEF I
      <4> QED BY <1>4, LeastNatural
    <3> QED BY <2>1, <3>1
  <2> QED BY <2>1, <2>2 DEF leading_zeros
<1>6. Min(I) \in I /\ \A k \in I : Min(I) <= k
  <2> HIDE DEF I
  <2> QED BY <1>4, LeastNatural
<1>7. m + 1 \in I /\ \A k \in I : m + 1 <= k
  <2>1. Min(I) \in 1..8
    BY <1>6
  <2>2. m + 1 = Min(I)
    <3> HIDE DEF I
    <3> QED BY <1>5, <2>1
  <2> HIDE DEF I
  <2> QED BY <1>6, <2>2
<1>8. m \in 0..7 /\ byte[m + 1] = 0
  <2>1. m + 1 \in 1..8 /\ byte[m + 1] = 0
    BY <1>7
  <2>2. Min(I) \in 1..8
    BY <1>6
  <2>3. m \in Int
    <3> HIDE DEF I
    <3> QED BY <1>5, <2>2
  <2> QED BY <2>1, <2>3
<1>9. \A k \in 1..m : byte[k] = 1
  <2>1. ASSUME NEW k \in 1..m, byte[k] # 1 PROVE FALSE
    <3>1. k \in I
      BY <1>1, <1>8, <2>1
    <3> QED BY <1>7, <1>8, <3>1
  <2> QED BY <2>1
<1>10. wrapping_shl(byte, m) = AllZeros <=> \A k \in (m + 1)..8 : byte[k] = 0
  <2>1. wrapping_shl(byte, m) = AllZeros
          <=> \A k \in 1..8 : (IF k + m <= 8 THEN byte[k + m] ELSE 0) = 0
    BY DEF wrapping_shl, AllZeros
  <2>2. ASSUME \A k \in 1..8 : (IF k + m <= 8 THEN byte[k + m] ELSE 0) = 0,
               NEW k \in (m + 1)..8
        PROVE  byte[k] = 0
    <3>1. k - m \in 1..8 /\ (k - m) + m = k /\ k <= 8
      BY <1>8
    <3> QED BY <2>2, <3>1
  <2>3. ASSUME \A k \in (m + 1)..8 : byte[k] = 0, NEW k \in 1..8
        PROVE  (IF k + m <= 8 THEN byte[k + m] ELSE 0) = 0
    <3>1. k + m <= 8 => k + m \in (m + 1)..8
      BY <1>8
    <3> QED BY <2>3, <3>1
  <2> QED BY <2>1, <2>2, <2>3
<1> QED BY <1>8, <1>9, <1>10

\* The first n bits of the mask are ones, and no others.
Ones(mask, n) ==
  \A o \in 1..Len(mask), b \in 1..8 : mask[o][b] = 1 <=> 8 * (o - 1) + b <= n

\* The code's test of a mask, by shifting the octet where the ones end, finds
\* the masks that are ones and then zeros.
LEMMA MaskShape ==
  ASSUME NEW mask \in Seq(Octet)
  PROVE  is_valid_cidr_mask(mask) <=> \E n \in 0..(8 * Len(mask)) : Ones(mask, n)
<1> DEFINE I == {i \in 1..Len(mask) : mask[i] # AllOnes}
           f == SelectInSeq(mask, LAMBDA byte : byte # AllOnes)
           byte == mask[f]
           m == leading_zeros(Not(byte))
<1>1. f = IF I # {} THEN Min(I) ELSE 0
  BY DEF SelectInSeq
<1>2. I # {} => Min(I) \in I /\ \A i \in I : Min(I) <= i
  <2>1. I \subseteq Nat
    OBVIOUS
  <2> HIDE DEF I
  <2> QED BY <2>1, LeastNatural
<1>3. is_valid_cidr_mask(mask) <=>
        \/ f = 0
        \/ /\ m < 8 => wrapping_shl(byte, m) = AllZeros
           /\ \A i \in (f + 1)..Len(mask) : mask[i] = AllZeros
  BY DEF is_valid_cidr_mask
<1>4. \A i \in 1..Len(mask) : mask[i] \in Octet
  OBVIOUS
<1>5. CASE I = {}
  <2>1. f = 0
    BY <1>1, <1>5
  <2>2. ASSUME NEW o \in 1..Len(mask), NEW b \in 1..8
        PROVE  mask[o][b] = 1 /\ 8 * (o - 1) + b <= 8 * Len(mask)
    <3>1. mask[o] = AllOnes
      BY <1>5
    <3>2. mask[o][b] = 1
      BY <3>1 DEF AllOnes
    <3> QED BY <3>2
  <2>3. Ones(mask, 8 * Len(mask)) /\ 8 * Len(mask) \in 0..(8 * Len(mask))
    BY <2>2 DEF Ones
  <2> HIDE DEF f
  <2> QED BY <1>3, <2>1, <2>3
<1>6. CASE I # {}
  <2>1. f \in I /\ \A i \in I : f <= i
    BY <1>1, <1>2, <1>6
  <2>2. f \in 1..Len(mask) /\ byte # AllOnes /\ f # 0
    BY <2>1
  <2> HIDE DEF f
  <2>3. \A i \in 1..(f - 1) : mask[i] = AllOnes
    BY <2>1, <2>2
  <2>4. byte \in Octet
    BY <1>4, <2>2
  <2>5. /\ m \in 0..7
        /\ \A k \in 1..m : byte[k] = 1
        /\ byte[m + 1] = 0
        /\ wrapping_shl(byte, m) = AllZeros <=> \A k \in (m + 1)..8 : byte[k] = 0
    <3> HIDE DEF byte
    <3> QED BY <2>2, <2>4, LeadingOnes
  <2> HIDE DEF m, byte, I
  <2>6. is_valid_cidr_mask(mask) <=>
          /\ \A k \in (m + 1)..8 : byte[k] = 0
          /\ \A i \in (f + 1)..Len(mask) : mask[i] = AllZeros
    <3>1. m < 8 /\ f # 0
      BY <2>2, <2>5
    <3> QED BY <1>3, <2>5, <3>1, Zenon
  <2>7. ASSUME \A k \in (m + 1)..8 : byte[k] = 0,
               \A i \in (f + 1)..Len(mask) : mask[i] = AllZeros
        PROVE  \E n \in 0..(8 * Len(mask)) : Ones(mask, n)
    <3> DEFINE n == 8 * (f - 1) + m
    <3>1. n \in 0..(8 * Len(mask))
      BY <2>2, <2>5
    <3>2. ASSUME NEW o \in 1..Len(mask), NEW b \in 1..8
          PROVE  mask[o][b] = 1 <=> 8 * (o - 1) + b <= n
      <4>1. CASE o < f
        <5>1. mask[o] = AllOnes
          BY <2>2, <2>3, <4>1
        <5>2. mask[o][b] = 1
          BY <5>1 DEF AllOnes
        <5>3. 8 * (o - 1) + b <= n
          BY <2>2, <2>5, <4>1
        <5> QED BY <5>2, <5>3
      <4>2. CASE o = f
        <5>1. mask[o][b] = byte[b]
          BY <4>2 DEF byte
        <5>2. byte[b] = 1 <=> b <= m
          BY <2>5, <2>7
        <5>3. 8 * (o - 1) + b <= n <=> b <= m
          BY <2>2, <2>5, <4>2
        <5> QED BY <5>1, <5>2, <5>3
      <4>3. CASE o > f
        <5>1. mask[o] = AllZeros
          BY <2>2, <2>7, <4>3
        <5>2. mask[o][b] = 0
          BY <5>1 DEF AllZeros
        <5>3. ~(8 * (o - 1) + b <= n)
          BY <2>2, <2>5, <4>3
        <5> QED BY <5>2, <5>3
      <4> QED BY <2>2, <4>1, <4>2, <4>3
    <3> HIDE DEF n
    <3> QED BY <3>1, <3>2 DEF Ones
  <2>8. ASSUME NEW n \in 0..(8 * Len(mask)), Ones(mask, n)
        PROVE  /\ \A k \in (m + 1)..8 : byte[k] = 0
               /\ \A i \in (f + 1)..Len(mask) : mask[i] = AllZeros
    <3>1. m + 1 \in 1..8 /\ byte[m + 1] # 1
      BY <2>5
    <3>2. n < 8 * (f - 1) + (m + 1)
      <4>1. ~(8 * (f - 1) + (m + 1) <= n)
        BY <2>2, <2>8, <3>1 DEF Ones, byte
      <4> QED BY <2>2, <2>5, <4>1
    <3>3. ASSUME NEW k \in (m + 1)..8 PROVE byte[k] = 0
      <4>1. k \in 1..8 /\ ~(8 * (f - 1) + k <= n)
        BY <2>2, <2>5, <3>2
      <4>2. byte[k] # 1
        BY <2>2, <2>8, <4>1 DEF Ones, byte
      <4>3. byte[k] \in {0, 1}
        BY <2>4, <4>1, OctetBits
      <4> QED BY <4>2, <4>3
    <3>4. ASSUME NEW i \in (f + 1)..Len(mask) PROVE mask[i] = AllZeros
      <4>1. i \in 1..Len(mask) /\ mask[i] \in Octet
        BY <1>4, <2>2
      <4>2. ASSUME NEW b \in 1..8 PROVE mask[i][b] = 0
        <5>1. ~(8 * (i - 1) + b <= n)
          <6>1. i - 1 >= f /\ i \in Nat /\ f \in Nat /\ m \in 0..7 /\ b >= 1
            BY <2>2, <2>5, <4>1
          <6> QED BY <3>2, <6>1
        <5>2. mask[i][b] # 1
          BY <2>8, <4>1, <5>1 DEF Ones
        <5>3. mask[i][b] \in {0, 1}
          BY <4>1, OctetBits
        <5> QED BY <5>2, <5>3
      <4> QED BY <4>1, <4>2, OctetBits
    <3> QED BY <3>3, <3>4
  <2> QED BY <2>6, <2>7, <2>8
<1> QED BY <1>5, <1>6

\* Ones, counted over the octets and over all the bits.
LEMMA OnesByBit ==
  ASSUME NEW mask \in Seq(Octet), NEW n \in Nat
  PROVE  Ones(mask, n) <=> \A k \in 1..(8 * Len(mask)) : Bit(mask, k) = 1 <=> k <= n
<1>1. ASSUME Ones(mask, n), NEW k \in 1..(8 * Len(mask))
      PROVE  Bit(mask, k) = 1 <=> k <= n
  <2>0. Len(mask) \in Nat
    OBVIOUS
  <2>1. PICK o \in 1..Len(mask), b \in 1..8 : k = 8 * (o - 1) + b
    BY <2>0, PositionOfBit, Zenon
  <2>2. Bit(mask, k) = mask[o][b]
    <3>1. o \in Nat \ {0}
      OBVIOUS
    <3> QED BY <2>1, <3>1, BitPosition, Zenon
  <2> QED BY <1>1, <2>1, <2>2 DEF Ones
<1>2. ASSUME \A k \in 1..(8 * Len(mask)) : Bit(mask, k) = 1 <=> k <= n,
             NEW o \in 1..Len(mask), NEW b \in 1..8
      PROVE  mask[o][b] = 1 <=> 8 * (o - 1) + b <= n
  <2>1. 8 * (o - 1) + b \in 1..(8 * Len(mask))
    OBVIOUS
  <2>2. Bit(mask, 8 * (o - 1) + b) = mask[o][b]
    <3>1. o \in Nat \ {0}
      OBVIOUS
    <3> QED BY <3>1, BitPosition, Zenon
  <2> QED BY <1>2, <2>1, <2>2
<1> QED BY <1>1, <1>2 DEF Ones

\* Two octets that agree under a mask agree where the mask has ones.
LEMMA MaskedOctets ==
  ASSUME NEW a \in Octet, NEW b \in Octet, NEW mask \in Octet
  PROVE  And(a, mask) = And(b, mask) <=> \A k \in 1..8 : mask[k] = 1 => a[k] = b[k]
<1>1. And(a, mask) = And(b, mask) <=> \A k \in 1..8 : a[k] * mask[k] = b[k] * mask[k]
  BY DEF And
<1>2. ASSUME NEW k \in 1..8
      PROVE  a[k] * mask[k] = b[k] * mask[k] <=> (mask[k] = 1 => a[k] = b[k])
  <2>1. a[k] \in {0, 1} /\ b[k] \in {0, 1} /\ mask[k] \in {0, 1}
    BY DEF Octet
  <2>2. CASE mask[k] = 0
    BY <2>1, <2>2
  <2>3. CASE mask[k] = 1
    BY <2>1, <2>3
  <2> QED BY <2>1, <2>2, <2>3
<1> QED BY <1>1, <1>2

\* Octets that agree under a mask of n ones have the first n bits in common.
LEMMA CoveredBits ==
  ASSUME NEW address \in Seq(Octet), NEW base \in Seq(Octet), NEW mask \in Seq(Octet),
         Len(base) = Len(address), Len(mask) = Len(address),
         NEW n \in 0..(8 * Len(address)), Ones(mask, n)
  PROVE  (\A i \in DOMAIN address : And(address[i], mask[i]) = And(base[i], mask[i]))
           <=> \A k \in 1..n : Bit(address, k) = Bit(base, k)
<1>1. ASSUME NEW i \in DOMAIN address
      PROVE  And(address[i], mask[i]) = And(base[i], mask[i])
               <=> \A b \in 1..8 : mask[i][b] = 1 => address[i][b] = base[i][b]
  BY MaskedOctets
<1>2. ASSUME \A i \in DOMAIN address, b \in 1..8 : mask[i][b] = 1 => address[i][b] = base[i][b],
             NEW k \in 1..n
      PROVE  Bit(address, k) = Bit(base, k)
  <2>1. k \in 1..(8 * Len(address)) /\ Len(address) \in Nat
    OBVIOUS
  <2>2. PICK o \in 1..Len(address), b \in 1..8 : k = 8 * (o - 1) + b
    BY <2>1, PositionOfBit, Zenon
  <2>3. Bit(address, k) = address[o][b] /\ Bit(base, k) = base[o][b]
    <3>1. o \in Nat \ {0}
      BY <2>1
    <3> QED BY <2>2, <3>1, BitPosition, Zenon
  <2>4. mask[o][b] = 1
    BY <2>2 DEF Ones
  <2> QED BY <1>2, <2>2, <2>3, <2>4
<1>3. ASSUME \A k \in 1..n : Bit(address, k) = Bit(base, k),
             NEW i \in DOMAIN address, NEW b \in 1..8, mask[i][b] = 1
      PROVE  address[i][b] = base[i][b]
  <2>1. 8 * (i - 1) + b <= n
    <3>1. i \in 1..Len(mask)
      OBVIOUS
    <3> QED BY <1>3, <3>1, Zenon DEF Ones
  <2>2. 8 * (i - 1) + b \in 1..n
    BY <2>1
  <2>3. /\ Bit(address, 8 * (i - 1) + b) = address[i][b]
        /\ Bit(base, 8 * (i - 1) + b) = base[i][b]
    <3>1. i \in Nat \ {0}
      OBVIOUS
    <3> QED BY <3>1, BitPosition, Zenon
  <2> QED BY <1>3, <2>2, <2>3
<1> QED BY <1>1, <1>2, <1>3

\* Masking octet by octet, with a mask whose shape was tested by shifting, finds
\* exactly the addresses whose leading bits are the leading bits of the base.
THEOREM AddressMatch ==
  ASSUME NEW address \in Seq(Octet), NEW range \in Seq(Octet)
  PROVE  ip_address_matches_constraint(address, range) <=> InIpSubtree(address, range)
<1> DEFINE l == Len(address)
           base == SubSeq(range, 1, l)
           mask == SubSeq(range, l + 1, 2 * l)
<1>1. <<l, Len(range)>> \in {<<4, 8>>, <<16, 32>>} <=> l \in {4, 16} /\ Len(range) = 2 * l
  <2> DEFINE k == Len(range)
  <2>1. l \in Nat /\ k \in Nat
    OBVIOUS
  <2> HIDE DEF l, k
  <2>2. <<l, k>> \in {<<4, 8>>, <<16, 32>>} <=> ((l = 4 /\ k = 8) \/ (l = 16 /\ k = 32))
    OBVIOUS
  <2>3. ((l = 4 /\ k = 8) \/ (l = 16 /\ k = 32)) <=> l \in {4, 16} /\ k = 2 * l
    BY <2>1
  <2> QED BY <2>2, <2>3 DEF k
<1>2. CASE ~(l \in {4, 16} /\ Len(range) = 2 * l)
  BY <1>1, <1>2 DEF ip_address_matches_constraint, InIpSubtree
<1>3. CASE l \in {4, 16} /\ Len(range) = 2 * l
  <2>1. /\ base \in Seq(Octet) /\ Len(base) = l
        /\ mask \in Seq(Octet) /\ Len(mask) = l
    BY <1>3
  <2>2. Len(range) \div 2 = l
    BY <1>3
  <2>3. ip_address_matches_constraint(address, range) <=>
          /\ is_valid_cidr_mask(mask)
          /\ \A i \in DOMAIN address : And(address[i], mask[i]) = And(base[i], mask[i])
    BY <1>1, <1>3, <2>2 DEF ip_address_matches_constraint, address_is_in_subnet
  <2>4. InIpSubtree(address, range) <=> InSubnet(address, base, mask)
    BY <1>3 DEF InIpSubtree
  <2> HIDE DEF base, mask
  <2>5. is_valid_cidr_mask(mask) <=> \E n \in 0..(8 * l) : Ones(mask, n)
    BY <2>1, MaskShape
  <2>6. ASSUME NEW n \in 0..(8 * l)
        PROVE  Ones(mask, n) <=> \A k \in 1..(8 * l) : Bit(mask, k) = 1 <=> k <= n
    BY <2>1, OnesByBit
  <2>7. ASSUME NEW n \in 0..(8 * l), Ones(mask, n)
        PROVE  (\A i \in DOMAIN address : And(address[i], mask[i]) = And(base[i], mask[i]))
                 <=> \A k \in 1..n : Bit(address, k) = Bit(base, k)
    BY <2>1, <2>7, CoveredBits
  <2>8. InSubnet(address, base, mask) <=>
          \E n \in 0..(8 * l) : Ones(mask, n) /\ \A k \in 1..n : Bit(address, k) = Bit(base, k)
    BY <2>6 DEF InSubnet
  <2> QED BY <2>3, <2>4, <2>5, <2>7, <2>8
<1> QED BY <1>2, <1>3

-----------------------------------------------------------------------------
(* Validation: a name is acceptable exactly if no label of it is bad.      *)

\* What a byte may be at its place, whatever labels follow a wildcard.
MayStand(body, i, may_lead) ==
  \/ /\ body[i] \in LabelByte
     /\ body[i] = ASCII_HYPHEN =>
          /\ i > 1 /\ body[i - 1] # ASCII_PERIOD
          /\ i < Len(body) /\ body[i + 1] # ASCII_PERIOD
  \/ /\ body[i] = ASCII_PERIOD
     /\ (i = 1 /\ may_lead) \/ (i > 1 /\ body[i - 1] # ASCII_PERIOD)
  \/ body[i] = ASCII_ASTERISK /\ i = 1

\* From position i on, a label ends before it is too long.
EndsInTime(body, i) ==
  i + MAXIMUM_LABEL_LENGTH <= Len(body)
    => \E j \in i..(i + MAXIMUM_LABEL_LENGTH) : body[j] = ASCII_PERIOD

\* The last label has a byte that is no digit.
WellEnded(body) ==
  /\ body # <<>> /\ body[Len(body)] # ASCII_PERIOD
  /\ \E i \in 1..Len(body) :
       body[i] \notin Numeric /\ \A j \in i..Len(body) : body[j] # ASCII_PERIOD

\* Two labels or more follow a wildcard.
EnoughLabels(body) ==
  body[1] = ASCII_ASTERISK =>
    /\ 2 <= Len(body) /\ body[2] = ASCII_PERIOD
    /\ \E j \in 3..Len(body) : body[j] = ASCII_PERIOD

\* The bytes that have a meaning of their own differ, and from labels.
LEMMA ByteValues ==
  /\ ASCII_PERIOD \notin LabelByte /\ ASCII_ASTERISK \notin LabelByte
  /\ ASCII_PERIOD # ASCII_ASTERISK /\ ASCII_HYPHEN \in LabelByte
  /\ ASCII_PERIOD \notin Numeric /\ ASCII_ASTERISK \notin Numeric
  /\ ASCII_PERIOD # ASCII_HYPHEN /\ ASCII_COLON \notin LabelByte
  /\ ASCII_COLON # ASCII_PERIOD /\ ASCII_COLON # ASCII_ASTERISK
BY DEF LabelByte, Numeric, Letter, UpperCase, ASCII_PERIOD, ASCII_ASTERISK, ASCII_HYPHEN,
       ASCII_UNDERSCORE, ASCII_COLON

\* IsAcceptable, byte by byte, without the sets of periods.
LEMMA AcceptableParts ==
  ASSUME NEW n \in Seq(Nat), NEW may_lead \in BOOLEAN, NEW body, body = StripPeriod(n)
  PROVE  IsAcceptable(n, may_lead) <=>
           /\ Len(n) <= MAXIMUM_NAME_LENGTH
           /\ n # <<>> =>
                /\ WellEnded(body)
                /\ \A i \in 1..Len(body) : MayStand(body, i, may_lead) /\ EndsInTime(body, i)
                /\ EnoughLabels(body)
<1>1. body \in Seq(Nat)
  BY StripPeriodTyped
<1> DEFINE l == Len(body)
           Good(i) ==
             \/ /\ body[i] \in LabelByte
                /\ body[i] = ASCII_HYPHEN =>
                     ~AtLabelBoundary(body, i - 1) /\ ~AtLabelBoundary(body, i + 1)
             \/ /\ body[i] = ASCII_PERIOD
                /\ IF i = 1 THEN may_lead ELSE body[i - 1] # ASCII_PERIOD
             \/ /\ body[i] = ASCII_ASTERISK /\ i = 1
                /\ 2 \in {k \in DOMAIN body : body[k] = ASCII_PERIOD}
                /\ \E j \in {k \in DOMAIN body : body[k] = ASCII_PERIOD} : j > 2
           Short(i) ==
             i + MAXIMUM_LABEL_LENGTH <= Len(body)
               => \E j \in {k \in DOMAIN body : body[k] = ASCII_PERIOD} :
                    i <= j /\ j <= i + MAXIMUM_LABEL_LENGTH
           Ended ==
             \E i \in DOMAIN body :
               /\ body[i] \notin Numeric
               /\ \A j \in {k \in DOMAIN body : body[k] = ASCII_PERIOD} : j < i
<1>2. IsAcceptable(n, may_lead) <=>
        /\ Len(n) <= MAXIMUM_NAME_LENGTH
        /\ n # <<>> =>
             /\ body # <<>> /\ body[Len(body)] # ASCII_PERIOD
             /\ \A i \in DOMAIN body : Good(i)
             /\ \A i \in DOMAIN body : Short(i)
             /\ Ended
  BY DEF IsAcceptable, Last
<1>3. DOMAIN body = 1..l /\ l \in Nat /\ MAXIMUM_LABEL_LENGTH \in Nat
  BY <1>1, LimitAssumption
<1>4. ASSUME NEW i \in 1..l
      PROVE  Good(i) <=> (MayStand(body, i, may_lead)
                            /\ (i = 1 => EnoughLabels(body)))
  <2>1. AtLabelBoundary(body, i - 1) <=> ~(i > 1 /\ body[i - 1] # ASCII_PERIOD)
    BY <1>3 DEF AtLabelBoundary
  <2>2. AtLabelBoundary(body, i + 1) <=> ~(i < l /\ body[i + 1] # ASCII_PERIOD)
    BY <1>3 DEF AtLabelBoundary
  <2>3. (2 \in {k \in DOMAIN body : body[k] = ASCII_PERIOD}
          /\ \E j \in {k \in DOMAIN body : body[k] = ASCII_PERIOD} : j > 2)
        <=> (2 <= l /\ body[2] = ASCII_PERIOD /\ \E j \in 3..l : body[j] = ASCII_PERIOD)
    BY <1>3
  <2>4. (IF i = 1 THEN may_lead ELSE body[i - 1] # ASCII_PERIOD)
        <=> ((i = 1 /\ may_lead) \/ (i > 1 /\ body[i - 1] # ASCII_PERIOD))
    BY <1>3
  <2>5. CASE body[i] = ASCII_ASTERISK
    BY <2>3, <2>5, ByteValues DEF MayStand, EnoughLabels
  <2>6. CASE body[i] # ASCII_ASTERISK
    BY <2>1, <2>2, <2>4, <2>6 DEF MayStand, EnoughLabels
  <2> QED BY <2>5, <2>6
<1>5. ASSUME NEW i \in 1..l
      PROVE  Short(i) <=> EndsInTime(body, i)
  BY <1>3 DEF EndsInTime
<1>6. (body # <<>> /\ body[Len(body)] # ASCII_PERIOD /\ Ended) <=> WellEnded(body)
  BY <1>3 DEF WellEnded
<1>7. body # <<>> => 1 \in 1..l
  BY <1>1
<1> HIDE DEF Good, Short, Ended, l
<1>8. body # <<>> =>
        ((\A i \in 1..l : Good(i)) <=> ((\A i \in 1..l : MayStand(body, i, may_lead)) /\ EnoughLabels(body)))
  BY <1>4, <1>7
<1>9. DOMAIN body = 1..l /\ Len(body) = l
  BY <1>3 DEF l
<1>10. WellEnded(body) => body # <<>>
  BY DEF WellEnded
<1> QED BY <1>2, <1>5, <1>6, <1>8, <1>9, <1>10

\* The bytes after s, up to e, are a label of n.
IsLabelOf(n, s, e) ==
  /\ s \in 0..(Len(n) - 1) /\ e \in s..Len(n)
  /\ s = 0 \/ n[s] = ASCII_PERIOD
  /\ \A i \in (s + 1)..e : n[i] # ASCII_PERIOD
  /\ e = Len(n) \/ n[e + 1] = ASCII_PERIOD

\* IsBadLabel, by the positions of the label in the name.
IsBadAt(n, s, e, may_lead) ==
  \/ e = s /\ ~(s = 0 /\ may_lead)
  \/ e > s /\ (n[s + 1] = ASCII_HYPHEN \/ n[e] = ASCII_HYPHEN)
  \/ e - s > MAXIMUM_LABEL_LENGTH
  \/ \E i \in (s + 1)..e : n[i] \notin LabelByte
  \/ e >= Len(n) - 1 /\ \A i \in (s + 1)..e : n[i] \in Numeric

\* Where the label after the one that ends at e begins.
After(n, e) == IF e = Len(n) THEN e ELSE e + 1

\* A label of a name is one of the name without its last period.
LEMMA BodyOfLabel ==
  ASSUME NEW n \in Seq(Nat), NEW body, body = StripPeriod(n), NEW s, NEW e, IsLabelOf(n, s, e)
  PROVE  /\ n # <<>> /\ s \in Nat /\ e \in Nat /\ s <= e
         /\ e <= Len(body) /\ Len(body) <= Len(n) /\ Len(body) \in Nat
         /\ e = Len(body) <=> e >= Len(n) - 1
         /\ \A i \in 1..Len(body) : body[i] = n[i]
         /\ e < Len(body) => body[e + 1] = ASCII_PERIOD
<1> DEFINE l == Len(n)
           k == Len(body)
<1>1. /\ l \in Nat /\ k \in Nat
      /\ \A i \in 1..k : body[i] = n[i]
      /\ \/ n # <<>> /\ n[l] = ASCII_PERIOD /\ k = l - 1
         \/ (n = <<>> \/ n[l] # ASCII_PERIOD) /\ k = l
  BY StripPeriodTyped
<1>2. s \in 0..(l - 1) /\ e \in s..l /\ (\A i \in (s + 1)..e : n[i] # ASCII_PERIOD)
        /\ (e = l \/ n[e + 1] = ASCII_PERIOD)
  BY DEF IsLabelOf
<1>3. n # <<>>
  <2>1. l # 0
    BY <1>1, <1>2
  <2> QED BY <2>1
<1> HIDE DEF l, k
<1>4. s \in Nat /\ e \in Nat /\ s <= e /\ s < l /\ e <= l
  BY <1>1, <1>2
<1>5. e = l => k = l
  BY <1>1, <1>2, <1>4
<1>6. e <= k /\ k <= l
  BY <1>1, <1>4, <1>5
<1>7. e = k <=> e >= l - 1
  <2>1. CASE n[l] = ASCII_PERIOD /\ k = l - 1
    BY <1>1, <1>4, <1>5, <2>1
  <2>2. CASE n[l] # ASCII_PERIOD /\ k = l
    <3>1. e = l - 1 => n[e + 1] = n[l]
      BY <1>1, <1>4
    <3>2. e # l - 1
      BY <1>1, <1>2, <1>4, <2>2, <3>1
    <3> QED BY <1>1, <1>4, <2>2, <3>2
  <2> QED BY <1>1, <1>3, <2>1, <2>2
<1>8. e < k => body[e + 1] = ASCII_PERIOD
  BY <1>1, <1>2, <1>4, <1>6
<1> QED BY <1>1, <1>3, <1>4, <1>6, <1>7, <1>8 DEF l, k

\* A bad label makes the name unacceptable.
LEMMA BadLabelRejected ==
  ASSUME NEW n \in Seq(Nat), NEW may_lead \in BOOLEAN, NEW s, NEW e, IsLabelOf(n, s, e),
         n[1] = ASCII_ASTERISK => s >= 2,
         IsBadAt(n, s, e, may_lead)
  PROVE  ~IsAcceptable(n, may_lead)
<1> DEFINE body == StripPeriod(n)
           k == Len(body)
<1> SUFFICES ASSUME IsAcceptable(n, may_lead) PROVE FALSE
  OBVIOUS
<1>1. /\ n # <<>> /\ s \in Nat /\ e \in Nat /\ s <= e
      /\ e <= k /\ k <= Len(n) /\ k \in Nat
      /\ e = k <=> e >= Len(n) - 1
      /\ \A i \in 1..k : body[i] = n[i]
      /\ e < k => body[e + 1] = ASCII_PERIOD
  BY BodyOfLabel
<1>2. /\ WellEnded(body)
      /\ \A i \in 1..k : MayStand(body, i, may_lead) /\ EndsInTime(body, i)
  BY <1>1, AcceptableParts
<1>3. /\ s < Len(n)
      /\ s = 0 \/ n[s] = ASCII_PERIOD
      /\ \A i \in (s + 1)..e : n[i] # ASCII_PERIOD
      /\ e = Len(n) \/ n[e + 1] = ASCII_PERIOD
  BY DEF IsLabelOf
<1> DEFINE l == Len(n)
<1>4. l \in Nat
  OBVIOUS
<1>5. k # 0 /\ body[k] # ASCII_PERIOD
  BY <1>2 DEF WellEnded
<1>6. LimitAssumption
  BY LimitAssumption
<1> HIDE DEF body, k, l
<1>7. CASE e = s /\ ~(s = 0 /\ may_lead)
  <2>1. s # l /\ n[s + 1] = ASCII_PERIOD
    BY <1>1, <1>3, <1>4, <1>7 DEF l
  <2>2. CASE s = k
    BY <1>1, <1>3, <1>5, <2>2
  <2>3. CASE s < k
    <3>1. s + 1 \in 1..k /\ body[s + 1] = ASCII_PERIOD
      BY <1>1, <2>1, <2>3
    <3>2. (s + 1 = 1 /\ may_lead) \/ (s + 1 > 1 /\ body[(s + 1) - 1] # ASCII_PERIOD)
      BY <1>2, <3>1, ByteValues DEF MayStand
    <3>3. (s = 0 /\ may_lead) \/ (s > 0 /\ body[s] # ASCII_PERIOD)
      BY <1>1, <3>2
    <3> QED BY <1>1, <1>3, <1>7, <2>3, <3>3
  <2> QED BY <1>1, <1>7, <2>2, <2>3
<1>8. CASE e > s /\ n[s + 1] = ASCII_HYPHEN
  <2>1. s + 1 \in 1..k /\ body[s + 1] = ASCII_HYPHEN
    BY <1>1, <1>8
  <2>2. s + 1 > 1 /\ body[(s + 1) - 1] # ASCII_PERIOD
    BY <1>2, <2>1, ByteValues DEF MayStand
  <2>3. s > 0 /\ body[s] # ASCII_PERIOD
    BY <1>1, <2>2
  <2> QED BY <1>1, <1>3, <1>8, <2>3
<1>9. CASE e > s /\ n[e] = ASCII_HYPHEN
  <2>1. e \in 1..k /\ body[e] = ASCII_HYPHEN
    BY <1>1, <1>9
  <2>2. e < k /\ body[e + 1] # ASCII_PERIOD
    BY <1>2, <2>1, ByteValues DEF MayStand, k
  <2> QED BY <1>1, <2>2
<1>10. CASE e - s > MAXIMUM_LABEL_LENGTH
  <2>1. s + 1 \in 1..k /\ (s + 1) + MAXIMUM_LABEL_LENGTH <= k
    BY <1>1, <1>6, <1>10 DEF LimitAssumption
  <2>2. \E j \in (s + 1)..((s + 1) + MAXIMUM_LABEL_LENGTH) : body[j] = ASCII_PERIOD
    BY <1>2, <2>1 DEF EndsInTime, k
  <2>3. PICK j \in (s + 1)..((s + 1) + MAXIMUM_LABEL_LENGTH) : body[j] = ASCII_PERIOD
    BY <2>2
  <2>4. j \in (s + 1)..e /\ j \in 1..k
    BY <1>1, <1>6, <1>10, <2>1 DEF LimitAssumption
  <2> QED BY <1>1, <1>3, <2>3, <2>4
<1>11. CASE \E i \in (s + 1)..e : n[i] \notin LabelByte
  <2>1. PICK i \in (s + 1)..e : n[i] \notin LabelByte
    BY <1>11
  <2>2. i \in 1..k /\ n[i] # ASCII_PERIOD /\ body[i] = n[i] /\ i > s
    BY <1>1, <1>3
  <2>3. body[i] = ASCII_ASTERISK /\ i = 1
    BY <1>2, <2>1, <2>2 DEF MayStand
  <2> QED BY <1>1, <2>2, <2>3
<1>12. CASE e >= Len(n) - 1 /\ \A i \in (s + 1)..e : n[i] \in Numeric
  <2>1. e = k
    BY <1>1, <1>12
  <2>2. PICK i \in 1..k : body[i] \notin Numeric /\ \A j \in i..k : body[j] # ASCII_PERIOD
    BY <1>2 DEF WellEnded, k
  <2>3. i > s
    BY <1>1, <1>3, <2>1, <2>2
  <2>4. i \in (s + 1)..e
    BY <1>1, <2>1, <2>3
  <2> QED BY <1>1, <1>12, <2>2, <2>4
<1> QED BY <1>7, <1>8, <1>9, <1>10, <1>11, <1>12 DEF IsBadAt

HasAsterisk(n) == n # <<>> /\ n[1] = ASCII_ASTERISK

\* The labels up to s have passed.
Scanned(n, s, may_lead) ==
  /\ s \in 0..Len(n)
  /\ s = 0 \/ s = Len(n) \/ n[s] = ASCII_PERIOD
  /\ HasAsterisk(n) => s >= 2 /\ n[2] = ASCII_PERIOD
  /\ \A i \in 1..Len(StripPeriod(n)) :
       i <= s => MayStand(StripPeriod(n), i, may_lead) /\ EndsInTime(StripPeriod(n), i)
  /\ s = Len(n) /\ n # <<>> => WellEnded(StripPeriod(n))

\* A label that is not bad takes the scan past it.
LEMMA GoodLabelPassed ==
  ASSUME NEW n \in Seq(Nat), NEW may_lead \in BOOLEAN, NEW s, NEW e, IsLabelOf(n, s, e),
         Scanned(n, s, may_lead), ~IsBadAt(n, s, e, may_lead)
  PROVE  Scanned(n, After(n, e), may_lead)
<1> DEFINE body == StripPeriod(n)
           k == Len(body)
           l == Len(n)
           m == MAXIMUM_LABEL_LENGTH
           t == After(n, e)
<1>1. /\ n # <<>> /\ s \in Nat /\ e \in Nat /\ s <= e
      /\ e <= k /\ k <= l /\ k \in Nat
      /\ e = k <=> e >= l - 1
      /\ \A i \in 1..k : body[i] = n[i]
      /\ e < k => body[e + 1] = ASCII_PERIOD
  BY BodyOfLabel
<1>2. /\ s < l
      /\ s = 0 \/ n[s] = ASCII_PERIOD
      /\ \A i \in (s + 1)..e : n[i] # ASCII_PERIOD
      /\ e = l \/ n[e + 1] = ASCII_PERIOD
  BY DEF IsLabelOf
<1>3. /\ HasAsterisk(n) => s >= 2 /\ n[2] = ASCII_PERIOD
      /\ \A i \in 1..k : i <= s => MayStand(body, i, may_lead) /\ EndsInTime(body, i)
  BY DEF Scanned
<1>4. l \in Nat /\ m \in Nat
  BY LimitAssumption
<1>5. /\ e = s => s = 0 /\ may_lead
      /\ e > s => n[s + 1] # ASCII_HYPHEN /\ n[e] # ASCII_HYPHEN
      /\ ~(e - s > m)
      /\ \A i \in (s + 1)..e : n[i] \in LabelByte
      /\ e >= l - 1 => \E i \in (s + 1)..e : n[i] \notin Numeric
  BY DEF IsBadAt
<1>6. t = IF e = l THEN e ELSE e + 1
  BY DEF After
<1> HIDE DEF body, k, l, m, t
<1>7. e - s <= m
  BY <1>1, <1>4, <1>5
<1>8. t \in 0..l /\ (t = l \/ n[t] = ASCII_PERIOD) /\ t >= s
  BY <1>1, <1>2, <1>4, <1>6
<1>9. ASSUME NEW i \in 1..k, i <= t PROVE MayStand(body, i, may_lead)
  <2>1. CASE i <= s
    BY <1>3, <2>1
  <2>2. CASE i > s /\ i <= e
    <3>1. i \in (s + 1)..e
      BY <1>1, <2>2
    <3>2. body[i] = n[i] /\ n[i] \in LabelByte
      BY <1>1, <1>5, <3>1
    <3>3. ASSUME n[i] = ASCII_HYPHEN
          PROVE  i > 1 /\ body[i - 1] # ASCII_PERIOD /\ i < k /\ body[i + 1] # ASCII_PERIOD
      <4>1. i # s + 1 /\ i # e
        BY <1>5, <2>2, <3>3, <1>1
      <4>2. i - 1 \in (s + 1)..e /\ i + 1 \in (s + 1)..e
        BY <1>1, <2>2, <4>1
      <4>3. i - 1 \in 1..k /\ i + 1 \in 1..k
        BY <1>1, <4>2
      <4>4. body[i - 1] # ASCII_PERIOD /\ body[i + 1] # ASCII_PERIOD
        BY <1>1, <1>2, <4>2, <4>3
      <4> QED BY <1>1, <4>3, <4>4
    <3>4. body[i] = ASCII_HYPHEN =>
            /\ i > 1 /\ body[i - 1] # ASCII_PERIOD
            /\ i < Len(body) /\ body[i + 1] # ASCII_PERIOD
      BY <3>2, <3>3 DEF k
    <3>5. body[i] \in LabelByte
      BY <3>2
    <3> QED BY <3>4, <3>5, Zenon DEF MayStand
  <2>3. CASE i > e
    <3>1. i = e + 1 /\ e < k
      BY <1>1, <1>4, <1>6, <1>9, <2>3
    <3>2. body[i] = ASCII_PERIOD
      BY <1>1, <3>1
    <3>3. CASE e = s
      <4>1. i = 1 /\ may_lead
        BY <1>5, <3>1, <3>3
      <4> QED BY <3>2, <4>1 DEF MayStand
    <3>4. CASE e > s
      <4>1. e \in (s + 1)..e /\ e \in 1..k /\ i > 1 /\ i - 1 = e
        BY <1>1, <3>1, <3>4
      <4>2. body[i - 1] # ASCII_PERIOD
        BY <1>1, <1>2, <4>1
      <4> QED BY <3>2, <4>1, <4>2 DEF MayStand
    <3> QED BY <1>1, <3>3, <3>4
  <2> QED BY <1>1, <2>1, <2>2, <2>3
<1>10. ASSUME NEW i \in 1..k, i <= t PROVE EndsInTime(body, i)
  <2>1. CASE i <= s
    BY <1>3, <2>1
  <2>2. CASE i > s
    <3> SUFFICES ASSUME i + m <= k
                 PROVE  \E j \in i..(i + m) : body[j] = ASCII_PERIOD
      BY DEF EndsInTime, k, m
    <3>1. e < k
      BY <1>1, <1>4, <1>7, <2>2
    <3>2. e + 1 \in i..(i + m)
      BY <1>1, <1>4, <1>6, <1>7, <1>10, <2>2
    <3> QED BY <1>1, <3>1, <3>2
  <2> QED BY <1>1, <2>1, <2>2
<1>11. ASSUME t = l PROVE WellEnded(body)
  <2>1. e >= l - 1 /\ e = k
    BY <1>1, <1>4, <1>6, <1>11
  <2>2. PICK i \in (s + 1)..e : n[i] \notin Numeric
    BY <1>5, <2>1
  <2>3. i \in 1..k /\ k \in (s + 1)..e /\ k \in 1..k
    BY <1>1, <2>1
  <2>4. body[k] # ASCII_PERIOD /\ body[i] \notin Numeric
    BY <1>1, <1>2, <2>2, <2>3
  <2>5. ASSUME NEW j \in i..k PROVE body[j] # ASCII_PERIOD
    <3>1. j \in (s + 1)..e /\ j \in 1..k
      BY <1>1, <2>1, <2>3
    <3> QED BY <1>1, <1>2, <3>1
  <2>6. body # <<>>
    BY <2>3 DEF k
  <2> QED BY <2>3, <2>4, <2>5, <2>6 DEF WellEnded, k
<1>12. HasAsterisk(n) => t >= 2 /\ n[2] = ASCII_PERIOD
  BY <1>1, <1>3, <1>4, <1>8
<1> QED BY <1>8, <1>9, <1>10, <1>11, <1>12 DEF Scanned, body, k, l, t

\* Before the loop.
LEMMA ScanBegins ==
  ASSUME NEW n \in Seq(Nat), NEW may_lead \in BOOLEAN,
         HasAsterisk(n) => Len(n) > 1 /\ n[2] = ASCII_PERIOD
  PROVE  Scanned(n, IF HasAsterisk(n) THEN 2 ELSE 0, may_lead)
<1> DEFINE body == StripPeriod(n)
           k == Len(body)
           l == Len(n)
           m == MAXIMUM_LABEL_LENGTH
<1>1. /\ l \in Nat /\ k \in Nat /\ k <= l
      /\ \A i \in 1..k : body[i] = n[i]
      /\ body # <<>> <=> k # 0
      /\ n # <<>> <=> l # 0
      /\ \/ n # <<>> /\ n[l] = ASCII_PERIOD /\ k = l - 1
         \/ (n = <<>> \/ n[l] # ASCII_PERIOD) /\ k = l
  <2>1. body \in Seq(Nat)
    BY StripPeriodTyped
  <2>2. /\ \A i \in 1..k : body[i] = n[i]
        /\ \/ n # <<>> /\ n[l] = ASCII_PERIOD /\ k = l - 1
           \/ (n = <<>> \/ n[l] # ASCII_PERIOD) /\ k = l
    BY StripPeriodTyped
  <2>3. l \in Nat /\ k \in Nat /\ (body # <<>> <=> k # 0) /\ (n # <<>> <=> l # 0)
    BY <2>1
  <2> HIDE DEF body, k, l
  <2> QED BY <2>2, <2>3
<1>2. m \in Nat /\ m >= 1
  BY LimitAssumption
<1>3. CASE ~HasAsterisk(n)
  <2>1. ~(0 = l /\ n # <<>>)
    BY <1>1
  <2>2. \A i \in 1..k : ~(i <= 0)
    BY <1>1
  <2> QED BY <1>1, <1>3, <2>1, <2>2 DEF Scanned
<1>4. CASE HasAsterisk(n)
  <2>1. n[1] = ASCII_ASTERISK /\ l > 1 /\ n[2] = ASCII_PERIOD
    BY <1>4 DEF HasAsterisk
  <2> HIDE DEF body, k, l, m
  <2>2. k >= 1 /\ body[1] = ASCII_ASTERISK
    BY <1>1, <2>1
  <2>3. k >= 2 => body[2] = ASCII_PERIOD
    BY <1>1, <2>1
  <2>4. ASSUME NEW i \in 1..k, i <= 2 PROVE MayStand(body, i, may_lead) /\ EndsInTime(body, i)
    <3>1. CASE i = 1
      <4>1. EndsInTime(body, i)
        <5> SUFFICES ASSUME i + m <= k PROVE \E j \in i..(i + m) : body[j] = ASCII_PERIOD
          BY DEF EndsInTime, k, m
        <5>1. 2 \in i..(i + m) /\ k >= 2
          BY <1>1, <1>2, <3>1
        <5> QED BY <2>3, <5>1
      <4> QED BY <2>2, <3>1, <4>1 DEF MayStand
    <3>2. CASE i = 2
      <4>1. EndsInTime(body, i)
        <5> SUFFICES ASSUME i + m <= k PROVE \E j \in i..(i + m) : body[j] = ASCII_PERIOD
          BY DEF EndsInTime, k, m
        <5>1. 2 \in i..(i + m) /\ k >= 2
          BY <1>1, <1>2, <3>2
        <5> QED BY <2>3, <5>1
      <4>2. i > 1 /\ body[i] = ASCII_PERIOD /\ i - 1 = 1
        BY <1>1, <2>3, <3>2
      <4> QED BY <2>2, <4>1, <4>2, ByteValues DEF MayStand
    <3> QED BY <1>1, <2>4, <3>1, <3>2
  <2>5. ASSUME l = 2 PROVE WellEnded(body)
    <3>1. k = 1
      BY <1>1, <2>1, <2>5
    <3>2. body # <<>> /\ body[k] = ASCII_ASTERISK
      BY <1>1, <2>2, <3>1
    <3>3. \A j \in 1..k : body[j] # ASCII_PERIOD
      BY <2>2, <3>1, ByteValues
    <3>4. 1 \in 1..k /\ body[1] \notin Numeric
      BY <2>2, <3>1, ByteValues
    <3> QED BY <3>2, <3>3, <3>4, ByteValues DEF WellEnded, k
  <2>6. 2 \in 0..l
    BY <1>1, <2>1
  <2> QED BY <1>4, <2>1, <2>4, <2>5, <2>6 DEF Scanned, body, k, l
<1> QED BY <1>3, <1>4

\* A wildcard without two more labels is not acceptable.
LEMMA LoneAsteriskRejected ==
  ASSUME NEW n \in Seq(Nat), NEW may_lead \in BOOLEAN, HasAsterisk(n),
         ~(\E j \in 3..(Len(n) - 1) : n[j] = ASCII_PERIOD) \/ ~(Len(n) > 1 /\ n[2] = ASCII_PERIOD)
  PROVE  ~IsAcceptable(n, may_lead)
<1> DEFINE body == StripPeriod(n)
           k == Len(body)
           l == Len(n)
<1> SUFFICES ASSUME IsAcceptable(n, may_lead) PROVE FALSE
  OBVIOUS
<1>1. /\ l \in Nat /\ k \in Nat /\ k <= l
      /\ \A i \in 1..k : body[i] = n[i]
      /\ \/ n[l] = ASCII_PERIOD /\ k = l - 1
         \/ n[l] # ASCII_PERIOD /\ k = l
  <2>1. body \in Seq(Nat)
    BY StripPeriodTyped
  <2>2. /\ \A i \in 1..k : body[i] = n[i]
        /\ \/ n # <<>> /\ n[l] = ASCII_PERIOD /\ k = l - 1
           \/ (n = <<>> \/ n[l] # ASCII_PERIOD) /\ k = l
    BY StripPeriodTyped
  <2>3. l \in Nat /\ k \in Nat /\ n # <<>>
    BY <2>1 DEF HasAsterisk
  <2> HIDE DEF body, k, l
  <2> QED BY <2>2, <2>3
<1>2. n # <<>> /\ l # 0 /\ n[1] = ASCII_ASTERISK
  BY DEF HasAsterisk
<1>3. WellEnded(body) /\ EnoughLabels(body)
  BY <1>2, AcceptableParts
<1>4. k # 0 /\ body[k] # ASCII_PERIOD
  BY <1>3 DEF WellEnded
<1>5. 1 \in 1..k /\ body[1] = ASCII_ASTERISK
  <2> HIDE DEF k, body
  <2> QED BY <1>1, <1>2, <1>4
<1>6. 2 <= k /\ body[2] = ASCII_PERIOD /\ \E j \in 3..k : body[j] = ASCII_PERIOD
  BY <1>3, <1>5 DEF EnoughLabels
<1> HIDE DEF body, k
<1>7. PICK j \in 3..k : body[j] = ASCII_PERIOD
  BY <1>6
<1>8. j # k /\ j \in 1..k /\ 2 \in 1..k
  BY <1>1, <1>4, <1>6, <1>7
<1>9. j \in 3..(l - 1) /\ n[j] = ASCII_PERIOD
  <2> HIDE DEF l
  <2> QED BY <1>1, <1>7, <1>8
<1>10. l > 1 /\ n[2] = ASCII_PERIOD
  <2> HIDE DEF l
  <2> QED BY <1>1, <1>6, <1>8
<1> QED BY <1>9, <1>10

\* What has been scanned to its end is acceptable.
LEMMA ScannedAccepted ==
  ASSUME NEW n \in Seq(Nat), NEW may_lead \in BOOLEAN, Scanned(n, Len(n), may_lead),
         Len(n) <= MAXIMUM_NAME_LENGTH,
         HasAsterisk(n) => \E j \in 3..(Len(n) - 1) : n[j] = ASCII_PERIOD
  PROVE  IsAcceptable(n, may_lead)
<1> DEFINE body == StripPeriod(n)
           k == Len(body)
           l == Len(n)
<1> SUFFICES ASSUME n # <<>>
             PROVE  /\ WellEnded(body)
                    /\ \A i \in 1..k : MayStand(body, i, may_lead) /\ EndsInTime(body, i)
                    /\ EnoughLabels(body)
  BY AcceptableParts
<1>1. /\ l \in Nat /\ k \in Nat
      /\ \A i \in 1..k : body[i] = n[i]
      /\ k = l - 1 \/ k = l
  <2>1. body \in Seq(Nat)
    BY StripPeriodTyped
  <2>2. (\A i \in 1..k : body[i] = n[i]) /\ (k = l - 1 \/ k = l)
    BY StripPeriodTyped
  <2>3. l \in Nat /\ k \in Nat
    BY <2>1
  <2> QED BY <2>2, <2>3
<1>2. WellEnded(body)
  BY DEF Scanned
<1>3. \A i \in 1..k : MayStand(body, i, may_lead) /\ EndsInTime(body, i)
  <2>1. \A i \in 1..k : i <= l => MayStand(body, i, may_lead) /\ EndsInTime(body, i)
    BY DEF Scanned
  <2> HIDE DEF body, k, l
  <2> QED BY <1>1, <2>1
<1>4. HasAsterisk(n) => n[2] = ASCII_PERIOD
  BY DEF Scanned
<1>5. k # 0
  BY <1>2 DEF WellEnded
<1>6. HasAsterisk(n) <=> n[1] = ASCII_ASTERISK
  BY DEF HasAsterisk
<1>7. HasAsterisk(n) => \E j \in 3..(l - 1) : n[j] = ASCII_PERIOD
  OBVIOUS
<1> HIDE DEF body, k, l
<1>8. 1 \in 1..k /\ body[1] = n[1]
  BY <1>1, <1>5
<1>9. ASSUME body[1] = ASCII_ASTERISK
      PROVE  2 <= k /\ body[2] = ASCII_PERIOD /\ \E j \in 3..k : body[j] = ASCII_PERIOD
  <2>1. PICK j \in 3..(l - 1) : n[j] = ASCII_PERIOD
    BY <1>6, <1>7, <1>8, <1>9
  <2>2. j \in 3..k /\ j \in 1..k /\ 2 \in 1..k
    BY <1>1, <2>1
  <2> QED BY <1>1, <1>4, <1>6, <1>8, <1>9, <2>1, <2>2
<1> QED BY <1>2, <1>3, <1>9 DEF EnoughLabels, k

\* FromTyped, counted from the byte before the cut.
LEMMA TailBytes ==
  ASSUME NEW n \in Seq(Nat), NEW s \in Nat, s <= Len(n)
  PROVE  /\ From(n, s + 1) \in Seq(Nat) /\ Len(From(n, s + 1)) = Len(n) - s
         /\ \A k \in 1..(Len(n) - s) : From(n, s + 1)[k] = n[s + k]
<1> DEFINE l == Len(n)
           b == From(n, s + 1)
<1>0. l \in Nat
  OBVIOUS
<1>1. s + 1 \in Nat \ {0} /\ s + 1 <= Len(n) + 1
  BY <1>0
<1>2. /\ b \in Seq(Nat) /\ Len(b) = Len(n) + 1 - (s + 1)
      /\ \A k \in 1..(Len(n) + 1 - (s + 1)) : b[k] = n[(s + 1) + k - 1]
  BY <1>1, FromTyped
<1>3. Len(n) + 1 - (s + 1) = l - s
  BY <1>0
<1>4. ASSUME NEW k \in 1..(l - s) PROVE (s + 1) + k - 1 = s + k
  BY <1>0
<1> HIDE DEF b, l
<1>5. b \in Seq(Nat) /\ Len(b) = l - s /\ \A k \in 1..(l - s) : b[k] = n[s + k]
  BY <1>2, <1>3, <1>4
<1> QED BY <1>5 DEF b, l

\* Cutting a cut is one cut.
LEMMA FromFrom ==
  ASSUME NEW n \in Seq(Nat), NEW s \in Nat, NEW p \in Nat, s + p <= Len(n)
  PROVE  From(From(n, s + 1), p + 1) = From(n, (s + p) + 1)
<1> DEFINE l == Len(n)
           b == From(n, s + 1)
           x == From(b, p + 1)
           y == From(n, (s + p) + 1)
<1>0. l \in Nat /\ s <= l /\ s + p \in Nat /\ p <= l - s
  OBVIOUS
<1>1. b \in Seq(Nat) /\ Len(b) = l - s /\ \A k \in 1..(l - s) : b[k] = n[s + k]
  BY <1>0, TailBytes
<1>2. y \in Seq(Nat) /\ Len(y) = l - (s + p) /\ \A k \in 1..(l - (s + p)) : y[k] = n[(s + p) + k]
  BY <1>0, TailBytes
<1> HIDE DEF b, l, y
<1>3. x \in Seq(Nat) /\ Len(x) = (l - s) - p /\ \A k \in 1..((l - s) - p) : x[k] = b[p + k]
  <2>1. p <= Len(b)
    BY <1>0, <1>1
  <2>2. /\ x \in Seq(Nat) /\ Len(x) = Len(b) - p
        /\ \A k \in 1..(Len(b) - p) : x[k] = b[p + k]
    BY <1>1, <2>1, TailBytes
  <2> HIDE DEF x
  <2> QED BY <1>1, <2>2, Zenon
<1>4. /\ (l - s) - p = l - (s + p)
      /\ \A k \in 1..(l - (s + p)) : p + k \in 1..(l - s) /\ s + (p + k) = (s + p) + k
  BY <1>0
<1> HIDE DEF x
<1>5. \A k \in 1..(l - (s + p)) : x[k] = y[k]
  <2>1. ASSUME NEW k \in 1..(l - (s + p)) PROVE x[k] = y[k]
    <3>1. x[k] = b[p + k]
      BY <1>3, <1>4, Zenon
    <3>2. b[p + k] = n[s + (p + k)]
      BY <1>1, <1>4, Zenon
    <3>3. y[k] = n[(s + p) + k] /\ s + (p + k) = (s + p) + k
      BY <1>2, <1>4, Zenon
    <3> QED BY <3>1, <3>2, <3>3, Zenon
  <2> QED BY <2>1
<1>6. Len(x) = Len(y) /\ \A k \in 1..Len(x) : x[k] = y[k]
  BY <1>2, <1>3, <1>4, <1>5
<1>7. x = y
  BY <1>2, <1>3, <1>6, SameSequence
<1> QED BY <1>7 DEF x, b, y

\* The label up to the first period of what is left.
LEMMA CutAtPeriod ==
  ASSUME NEW n \in Seq(Nat), NEW s \in Nat, NEW e \in Nat, s <= e, e < Len(n),
         s = 0 \/ n[s] = ASCII_PERIOD,
         From(n, s + 1)[(e - s) + 1] = ASCII_PERIOD,
         \A i \in 1..(e - s) : From(n, s + 1)[i] # ASCII_PERIOD
  PROVE  /\ IsLabelOf(n, s, e)
         /\ UpTo(From(n, s + 1), e - s) \in Seq(Nat)
         /\ Len(UpTo(From(n, s + 1), e - s)) = e - s
         /\ \A k \in 1..(e - s) : UpTo(From(n, s + 1), e - s)[k] = n[s + k]
         /\ From(From(n, s + 1), ((e - s) + 1) + 1) = From(n, (e + 1) + 1)
         /\ From(n, (e + 1) + 1) = <<>> <=> e >= Len(n) - 1
<1> DEFINE l == Len(n)
           cut == From(n, s + 1)
           label == UpTo(cut, e - s)
<1>0. l \in Nat /\ e < l /\ e - s \in Nat
  OBVIOUS
<1>1. cut \in Seq(Nat) /\ Len(cut) = l - s /\ \A k \in 1..(l - s) : cut[k] = n[s + k]
  <2>1. s <= Len(n)
    BY <1>0
  <2> QED BY <2>1, TailBytes
<1>2. cut[(e - s) + 1] = ASCII_PERIOD /\ \A i \in 1..(e - s) : cut[i] # ASCII_PERIOD
  OBVIOUS
<1> HIDE DEF cut
<1>3. label \in Seq(Nat) /\ Len(label) = e - s /\ \A k \in 1..(e - s) : label[k] = cut[k]
  <2>1. e - s <= Len(cut)
    <3> HIDE DEF l
    <3> QED BY <1>0, <1>1
  <2> QED BY <1>0, <1>1, <2>1, UpToTyped
<1>4. ASSUME NEW k \in 1..(e - s) PROVE cut[k] = n[s + k]
  <2> HIDE DEF l
  <2>1. k \in 1..(l - s)
    BY <1>0
  <2> QED BY <1>1, <2>1
<1>5. n[e + 1] = ASCII_PERIOD
  <2> HIDE DEF l
  <2>1. (e - s) + 1 \in 1..(l - s) /\ s + ((e - s) + 1) = e + 1
    BY <1>0
  <2> QED BY <1>1, <1>2, <2>1
<1>6. ASSUME NEW i \in (s + 1)..e PROVE n[i] # ASCII_PERIOD
  <2>1. i - s \in 1..(e - s) /\ s + (i - s) = i
    OBVIOUS
  <2> QED BY <1>2, <1>4, <2>1
<1>7. IsLabelOf(n, s, e)
  BY <1>0, <1>5, <1>6 DEF IsLabelOf
<1>8. From(cut, ((e - s) + 1) + 1) = From(n, (e + 1) + 1)
  <2>1. (e - s) + 1 \in Nat /\ s + ((e - s) + 1) = e + 1 /\ s + ((e - s) + 1) <= Len(n)
    BY <1>0
  <2>2. From(From(n, s + 1), ((e - s) + 1) + 1) = From(n, (s + ((e - s) + 1)) + 1)
    BY <2>1, FromFrom
  <2> QED BY <2>1, <2>2 DEF cut
<1>9. From(n, (e + 1) + 1) = <<>> <=> e >= l - 1
  <2>1. e + 1 \in Nat /\ e + 1 <= Len(n)
    BY <1>0
  <2>2. From(n, (e + 1) + 1) \in Seq(Nat) /\ Len(From(n, (e + 1) + 1)) = Len(n) - (e + 1)
    BY <2>1, TailBytes
  <2>3. From(n, (e + 1) + 1) = <<>> <=> Len(n) - (e + 1) = 0
    BY <2>2
  <2> QED BY <1>0, <2>3
<1> HIDE DEF label, l
<1> QED BY <1>3, <1>4, <1>7, <1>8, <1>9 DEF label, l, cut

\* The label that is all that is left.
LEMMA CutAtEnd ==
  ASSUME NEW n \in Seq(Nat), NEW s \in Nat, s < Len(n), s = 0 \/ n[s] = ASCII_PERIOD,
         \A i \in 1..(Len(n) - s) : From(n, s + 1)[i] # ASCII_PERIOD
  PROVE  IsLabelOf(n, s, Len(n)) /\ From(n, Len(n) + 1) = <<>>
<1> DEFINE l == Len(n)
           cut == From(n, s + 1)
<1>0. l \in Nat /\ s < l
  OBVIOUS
<1>1. cut \in Seq(Nat) /\ Len(cut) = l - s /\ \A k \in 1..(l - s) : cut[k] = n[s + k]
  <2>1. s <= Len(n)
    BY <1>0
  <2> QED BY <2>1, TailBytes
<1>2. \A i \in 1..(l - s) : cut[i] # ASCII_PERIOD
  OBVIOUS
<1> HIDE DEF cut
<1>3. ASSUME NEW i \in (s + 1)..l PROVE n[i] # ASCII_PERIOD
  <2>1. i - s \in 1..(l - s) /\ s + (i - s) = i
    BY <1>0
  <2> QED BY <1>1, <1>2, <2>1
<1>4. IsLabelOf(n, s, l)
  BY <1>0, <1>3 DEF IsLabelOf
<1>5. From(n, l + 1) = <<>>
  <2>1. From(n, l + 1) \in Seq(Nat) /\ Len(From(n, l + 1)) = Len(n) - l
    <3>1. l <= Len(n)
      BY <1>0
    <3> QED BY <1>0, <3>1, TailBytes, Zenon
  <2> QED BY <1>0, <2>1
<1> QED BY <1>4, <1>5

\* The label that ends at e and what follows it, as texts.
IsCut(n, s, e, label, rest) ==
  /\ IsLabelOf(n, s, e)
  /\ label \in Seq(Nat) /\ Len(label) = e - s
  /\ \A k \in 1..(e - s) : label[k] = n[s + k]
  /\ rest = From(n, After(n, e) + 1)
  /\ rest = <<>> <=> e >= Len(n) - 1

\* What an iteration of the loop cuts off bytes is the next label of the name.
LEMMA CutLabel ==
  ASSUME NEW n \in Seq(Nat), NEW s \in Nat, s < Len(n), s = 0 \/ n[s] = ASCII_PERIOD,
         NEW cut, cut = From(n, s + 1),
         NEW p, p = FirstOf({ASCII_PERIOD}, cut),
         NEW label, label = IF p = 0 THEN cut ELSE UpTo(cut, p - 1),
         NEW rest, rest = IF p = 0 THEN <<>> ELSE From(cut, p + 1)
  PROVE  \E e \in Nat : IsCut(n, s, e, label, rest)
<1> DEFINE l == Len(n)
<1>0. l \in Nat /\ s < l
  OBVIOUS
<1>1. cut \in Seq(Nat) /\ Len(cut) = l - s /\ \A k \in 1..(l - s) : cut[k] = n[s + k]
  <2>1. s <= Len(n)
    BY <1>0
  <2> QED BY <2>1, TailBytes
<1>2. /\ p \in 0..(l - s)
      /\ p = 0 => \A i \in 1..(l - s) : cut[i] # ASCII_PERIOD
      /\ p # 0 => cut[p] = ASCII_PERIOD /\ \A i \in 1..(p - 1) : cut[i] # ASCII_PERIOD
  <2>1. /\ p \in 0..Len(cut)
        /\ p = 0 => \A i \in 1..Len(cut) : cut[i] \notin {ASCII_PERIOD}
        /\ p # 0 => cut[p] \in {ASCII_PERIOD} /\ \A i \in 1..(p - 1) : cut[i] \notin {ASCII_PERIOD}
    BY <1>1, FirstOfPosition
  <2> HIDE DEF l
  <2> QED BY <1>1, <2>1
<1>3. CASE p = 0
  <2>1. label = cut /\ rest = <<>>
    BY <1>3
  <2>2. IsLabelOf(n, s, l) /\ From(n, l + 1) = <<>>
    BY <1>2, <1>3, CutAtEnd
  <2>3. After(n, l) = l
    BY DEF After
  <2> HIDE DEF l
  <2>4. l >= l - 1
    BY <1>0
  <2>5. IsCut(n, s, l, label, rest)
    BY <1>0, <1>1, <2>1, <2>2, <2>3, <2>4 DEF l, IsCut
  <2> QED BY <1>0, <2>5
<1>4. CASE p # 0
  <2> DEFINE e == s + (p - 1)
  <2>1. e \in Nat /\ s <= e /\ e < l /\ e - s = p - 1 /\ (e - s) + 1 = p
    <3> HIDE DEF l
    <3>1. p \in Nat /\ 1 <= p /\ p <= l - s
      BY <1>0, <1>2, <1>4
    <3>2. ASSUME NEW q \in Nat, 1 <= q, q <= l - s
          PROVE  LET f == s + (q - 1)
                 IN  f \in Nat /\ s <= f /\ f < l /\ f - s = q - 1 /\ (f - s) + 1 = q
      BY <1>0, <3>2
    <3> QED BY <3>1, <3>2, Zenon
  <2> HIDE DEF e
  <2>2. label = UpTo(From(n, s + 1), e - s) /\ rest = From(From(n, s + 1), ((e - s) + 1) + 1)
    BY <1>4, <2>1
  <2>3. /\ From(n, s + 1)[(e - s) + 1] = ASCII_PERIOD
        /\ \A i \in 1..(e - s) : From(n, s + 1)[i] # ASCII_PERIOD
    BY <1>2, <1>4, <2>1
  <2>4. e < Len(n)
    BY <2>1
  <2>5. /\ IsLabelOf(n, s, e)
        /\ label \in Seq(Nat) /\ Len(label) = e - s
        /\ \A k \in 1..(e - s) : label[k] = n[s + k]
        /\ rest = From(n, (e + 1) + 1)
        /\ rest = <<>> <=> e >= Len(n) - 1
    <3>1. /\ IsLabelOf(n, s, e)
          /\ UpTo(From(n, s + 1), e - s) \in Seq(Nat)
          /\ Len(UpTo(From(n, s + 1), e - s)) = e - s
          /\ \A k \in 1..(e - s) : UpTo(From(n, s + 1), e - s)[k] = n[s + k]
          /\ From(From(n, s + 1), ((e - s) + 1) + 1) = From(n, (e + 1) + 1)
          /\ From(n, (e + 1) + 1) = <<>> <=> e >= Len(n) - 1
      BY <2>1, <2>3, <2>4, CutAtPeriod, Zenon
    <3> QED BY <2>2, <3>1, Zenon
  <2>6. After(n, e) = e + 1
    <3>1. e # Len(n)
      BY <2>1
    <3> QED BY <3>1 DEF After
  <2>7. IsCut(n, s, e, label, rest)
    BY <2>5, <2>6 DEF IsCut
  <2> QED BY <2>1, <2>7
<1> QED BY <1>3, <1>4

\* The code's IsBadLabel of the text is IsBadAt of its place in the name.
LEMMA BadLabelByPosition ==
  ASSUME NEW n \in Seq(Nat), NEW s \in Nat, NEW e \in Nat, NEW label, NEW rest,
         IsCut(n, s, e, label, rest),
         NEW count \in Nat, count = 0 <=> s = 0, is_constraint \in BOOLEAN
  PROVE  IsBadLabel(label, count + 1, rest = <<>>) <=> IsBadAt(n, s, e, is_constraint)
<1>0. /\ s <= e /\ e <= Len(n) /\ Len(n) \in Nat
      /\ label \in Seq(Nat) /\ Len(label) = e - s
      /\ \A k \in 1..(e - s) : label[k] = n[s + k]
      /\ rest = <<>> <=> e >= Len(n) - 1
  <2>1. e \in s..Len(n)
    BY DEF IsCut, IsLabelOf
  <2>2. Len(n) \in Nat
    OBVIOUS
  <2>3. s <= e /\ e <= Len(n)
    BY <2>1, <2>2
  <2> QED BY <2>2, <2>3 DEF IsCut
<1>1. label = <<>> <=> e = s
  BY <1>0
<1>2. label # <<>> <=> e > s
  BY <1>0
<1>3. count + 1 = 1 <=> s = 0
  OBVIOUS
<1>4. ASSUME e > s PROVE Head(label) = n[s + 1] /\ Last(label) = n[e]
  <2>1. 1 \in 1..(e - s) /\ e - s \in 1..(e - s) /\ s + (e - s) = e
    BY <1>4
  <2>2. label[1] = n[s + 1] /\ label[e - s] = n[e]
    BY <1>0, <2>1
  <2>3. Head(label) = label[1]
    BY <1>0, <1>2, <1>4
  <2> QED BY <1>0, <2>2, <2>3 DEF Last
<1>5. ASSUME NEW set
      PROVE  (\E i \in DOMAIN label : label[i] \notin set) <=> \E i \in (s + 1)..e : n[i] \notin set
  <2>1. ASSUME NEW i \in DOMAIN label, label[i] \notin set
        PROVE  \E j \in (s + 1)..e : n[j] \notin set
    <3>1. DOMAIN label = 1..(e - s)
      BY <1>0
    <3>2. \A k \in 1..(e - s) : s + k \in (s + 1)..e
      BY <1>0
    <3> QED BY <1>0, <2>1, <3>1, <3>2, Zenon
  <2>2. ASSUME NEW i \in (s + 1)..e, n[i] \notin set
        PROVE  \E j \in DOMAIN label : label[j] \notin set
    <3>1. i - s \in 1..(e - s) /\ s + (i - s) = i /\ DOMAIN label = 1..(e - s)
      BY <1>0
    <3>2. label[i - s] = n[i]
      BY <1>0, <3>1
    <3> QED BY <2>2, <3>1, <3>2
  <2> QED BY <2>1, <2>2
<1>6. (\E i \in DOMAIN label : label[i] \notin LabelByte) <=> \E i \in (s + 1)..e : n[i] \notin LabelByte
  BY <1>5, Zenon
<1>7. (\A i \in DOMAIN label : label[i] \in Numeric) <=> \A i \in (s + 1)..e : n[i] \in Numeric
  BY <1>5, Zenon
<1>8. (label # <<>> /\ (Head(label) = ASCII_HYPHEN \/ Last(label) = ASCII_HYPHEN))
      <=> (e > s /\ (n[s + 1] = ASCII_HYPHEN \/ n[e] = ASCII_HYPHEN))
  BY <1>2, <1>4
<1> QED BY <1>0, <1>1, <1>3, <1>6, <1>7, <1>8, Zenon DEF IsBadLabel, IsBadAt

\* How many labels were counted, as far as the code asks.
Counted(n, s, count) ==
  /\ count \in Nat /\ (count = 0 <=> s = 0)
  /\ HasAsterisk(n) =>
       /\ count = 1 => s = 2
       /\ count >= 2 => s > 2
       /\ count >= 3 <=> \E j \in 3..(s - 1) : n[j] = ASCII_PERIOD

\* The counter as validation sets it: the asterisk is a label.
LEMMA CountBegins ==
  ASSUME NEW n \in Seq(Nat)
  PROVE  Counted(n, IF HasAsterisk(n) THEN 2 ELSE 0, IF HasAsterisk(n) THEN 1 ELSE 0)
BY DEF Counted

\* The counter after one more label.
LEMMA CountStep ==
  ASSUME NEW n \in Seq(Nat), NEW s, NEW e, IsLabelOf(n, s, e), NEW count, Counted(n, s, count),
         HasAsterisk(n) => s >= 2
  PROVE  Counted(n, After(n, e), count + 1)
<1> DEFINE l == Len(n)
           t == After(n, e)
<1>1. /\ l \in Nat /\ s \in Nat /\ e \in Nat /\ s < l /\ s <= e /\ e <= l
      /\ s = 0 \/ n[s] = ASCII_PERIOD
      /\ \A i \in (s + 1)..e : n[i] # ASCII_PERIOD
  <2>1. l \in Nat
    OBVIOUS
  <2>2. s \in 0..(l - 1) /\ e \in s..l
    BY DEF IsLabelOf
  <2>3. s \in Nat /\ e \in Nat /\ s < l /\ s <= e /\ e <= l
    BY <2>1, <2>2
  <2> QED BY <2>1, <2>3 DEF IsLabelOf
<1>2. t = IF e = l THEN e ELSE e + 1
  BY DEF After
<1>3. count \in Nat /\ (count = 0 <=> s = 0)
  BY DEF Counted
<1> HIDE DEF l, t
<1>4. t \in Nat /\ t > s /\ t <= e + 1
  BY <1>1, <1>2
<1>5. ASSUME HasAsterisk(n)
      PROVE  /\ count + 1 # 1 /\ t > 2
             /\ count + 1 >= 3 <=> \E j \in 3..(t - 1) : n[j] = ASCII_PERIOD
  <2>1. /\ s >= 2 /\ count >= 1
        /\ count = 1 => s = 2
        /\ count >= 2 => s > 2
        /\ count >= 3 <=> \E j \in 3..(s - 1) : n[j] = ASCII_PERIOD
    BY <1>1, <1>3, <1>5 DEF Counted
  <2>2. CASE count = 1
    <3>1. \A j \in 3..(t - 1) : j \in (s + 1)..e
      BY <1>1, <1>4, <2>1, <2>2
    <3>2. ~\E j \in 3..(t - 1) : n[j] = ASCII_PERIOD
      BY <1>1, <3>1
    <3> QED BY <1>3, <1>4, <2>1, <2>2, <3>2
  <2>3. CASE count >= 2
    <3>1. s \in 3..(t - 1) /\ n[s] = ASCII_PERIOD
      BY <1>1, <1>4, <2>1, <2>3
    <3>2. \E j \in 3..(t - 1) : n[j] = ASCII_PERIOD
      BY <3>1
    <3>3. count + 1 >= 3 /\ count + 1 # 1 /\ t > 2
      BY <1>1, <1>3, <1>4, <2>1, <2>3
    <3> QED BY <3>2, <3>3
  <2> QED BY <1>3, <2>1, <2>2, <2>3
<1>6. count + 1 \in Nat /\ count + 1 # 0 /\ t # 0
  BY <1>1, <1>3, <1>4
<1> QED BY <1>5, <1>6 DEF Counted, t

-----------------------------------------------------------------------------
\* The text that is validated, and how much of it has passed.
Subject == IF is_constraint THEN constraint ELSE dns_name
Consumed == Len(Subject) - Len(bytes)

Validating ==
  /\ Len(Subject) <= MAXIMUM_NAME_LENGTH
  /\ bytes = From(Subject, Consumed + 1)
  /\ Scanned(Subject, Consumed, is_constraint)
  /\ is_wildcard <=> HasAsterisk(Subject)
  /\ Counted(Subject, Consumed, label_count)

\* Validation rejects at once what is not acceptable, or enters its loop.
LEMMA BeginValidationStep ==
  ASSUME Subject \in Seq(Nat), is_constraint \in BOOLEAN, BeginValidation
  PROVE  \/ Return(FALSE) /\ ~IsAcceptable(Subject, is_constraint)
         \/ /\ pc' = "labels" /\ Validating'
            /\ UNCHANGED <<args, dns_name, is_constraint, iterators, matched>>
<1> DEFINE n == Subject
           asterisk == n # <<>> /\ Head(n) = ASCII_ASTERISK
           full_label == Len(n) > 1 /\ n[2] = ASCII_PERIOD
<1>1. asterisk <=> HasAsterisk(n)
  BY DEF HasAsterisk
<1>2. \/ /\ Len(n) > MAXIMUM_NAME_LENGTH \/ (asterisk /\ ~full_label)
         /\ Return(FALSE)
      \/ /\ ~(Len(n) > MAXIMUM_NAME_LENGTH \/ (asterisk /\ ~full_label))
         /\ pc' = "labels"
         /\ bytes' = IF asterisk THEN From(n, 3) ELSE n
         /\ label_count' = IF asterisk THEN 1 ELSE 0
         /\ is_wildcard' = asterisk
         /\ UNCHANGED <<args, dns_name, is_constraint, iterators, matched>>
  BY DEF BeginValidation, Subject
<1>3. Len(n) \in Nat /\ MAXIMUM_NAME_LENGTH \in Nat
  BY LimitAssumption
<1>4. CASE Len(n) > MAXIMUM_NAME_LENGTH \/ (asterisk /\ ~full_label)
  <2>1. Return(FALSE)
    BY <1>2, <1>4
  <2>2. CASE Len(n) > MAXIMUM_NAME_LENGTH
    <3>1. ~(Len(n) <= MAXIMUM_NAME_LENGTH)
      BY <1>3, <2>2
    <3>2. ~IsAcceptable(n, is_constraint)
      BY <3>1 DEF IsAcceptable
    <3> QED BY <2>1, <3>2
  <2>3. CASE asterisk /\ ~full_label
    <3>1. HasAsterisk(n) /\ ~(Len(n) > 1 /\ n[2] = ASCII_PERIOD)
      BY <1>1, <2>3
    <3>2. ~IsAcceptable(n, is_constraint)
      <4> HIDE DEF n
      <4> QED BY <3>1, LoneAsteriskRejected DEF n
    <3> QED BY <2>1, <3>2
  <2> QED BY <1>4, <2>2, <2>3
<1>5. CASE ~(Len(n) > MAXIMUM_NAME_LENGTH \/ (asterisk /\ ~full_label))
  <2>1. /\ pc' = "labels"
        /\ bytes' = IF asterisk THEN From(n, 3) ELSE n
        /\ label_count' = IF asterisk THEN 1 ELSE 0
        /\ is_wildcard' = asterisk
        /\ UNCHANGED <<args, dns_name, is_constraint, iterators, matched>>
    BY <1>2, <1>5
  <2>2. Subject' = n
    BY <2>1 DEF Subject, args
  <2>3. Len(n) <= MAXIMUM_NAME_LENGTH /\ (asterisk => full_label)
    BY <1>3, <1>5
  <2> DEFINE s == IF HasAsterisk(n) THEN 2 ELSE 0
  <2>4. s \in Nat /\ s <= Len(n) /\ (HasAsterisk(n) => Len(n) > 1 /\ n[2] = ASCII_PERIOD)
    BY <1>1, <1>3, <2>3
  <2>5. n \in Seq(Nat)
    OBVIOUS
  <2> HIDE DEF n
  <2>6. bytes' = From(n, s + 1)
    <3>1. CASE asterisk
      BY <1>1, <2>1, <3>1
    <3>2. CASE ~asterisk
      <4>1. From(n, 0 + 1) = n
        BY <2>5 DEF From
      <4> QED BY <1>1, <2>1, <3>2, <4>1
    <3> QED BY <3>1, <3>2
  <2>7. Len(bytes') = Len(n) - s
    BY <2>4, <2>5, <2>6, TailBytes
  <2>8. Consumed' = s
    <3>1. Consumed' = Len(Subject') - Len(bytes')
      BY DEF Consumed
    <3>2. Consumed' = Len(n) - (Len(n) - s)
      BY <2>2, <2>7, <3>1
    <3> HIDE DEF s
    <3> QED BY <1>3, <2>4, <3>2
  <2>9. Scanned(n, s, is_constraint)
    BY <2>4, <2>5, ScanBegins
  <2>10. Counted(n, s, label_count')
    <3>1. Counted(n, IF HasAsterisk(n) THEN 2 ELSE 0, IF HasAsterisk(n) THEN 1 ELSE 0)
      BY <2>5, CountBegins
    <3> QED BY <1>1, <2>1, <3>1
  <2>11. is_constraint' = is_constraint /\ (is_wildcard' <=> HasAsterisk(n))
    <3> HIDE DEF asterisk
    <3> QED BY <1>1, <2>1, Zenon
  <2> HIDE DEF s
  <2>12. Validating'
    <3>1. Validating' = (/\ Len(Subject') <= MAXIMUM_NAME_LENGTH
                         /\ bytes' = From(Subject', Consumed' + 1)
                         /\ Scanned(Subject', Consumed', is_constraint')
                         /\ is_wildcard' <=> HasAsterisk(Subject')
                         /\ Counted(Subject', Consumed', label_count'))
      BY DEF Validating
    <3> QED BY <2>2, <2>3, <2>6, <2>8, <2>9, <2>10, <2>11, <3>1
  <2> QED BY <2>1, <2>12
<1> QED BY <1>4, <1>5

\* An iteration rejects what is not acceptable, or goes on.
LEMMA ValidateLabelStep ==
  ASSUME Subject \in Seq(Nat), is_constraint \in BOOLEAN, Validating, ValidateLabel
  PROVE  \/ Return(FALSE) /\ ~IsAcceptable(Subject, is_constraint)
         \/ /\ Validating'
            /\ UNCHANGED <<args, pc, dns_name, is_constraint, is_wildcard, iterators, matched>>
<1> DEFINE n == Subject
           s == Consumed
           p == FirstOf({ASCII_PERIOD}, bytes)
           label == IF p = 0 THEN bytes ELSE UpTo(bytes, p - 1)
           rest == IF p = 0 THEN <<>> ELSE From(bytes, p + 1)
           bad == IsBadLabel(label, label_count + 1, rest = <<>>)
<1>1. /\ Len(n) <= MAXIMUM_NAME_LENGTH
      /\ bytes = From(n, s + 1)
      /\ Scanned(n, s, is_constraint)
      /\ is_wildcard <=> HasAsterisk(n)
      /\ Counted(n, s, label_count)
  BY DEF Validating
<1>2. /\ bytes # <<>>
      /\ \/ bad /\ Return(FALSE)
         \/ /\ ~bad /\ bytes' = rest /\ label_count' = label_count + 1
            /\ UNCHANGED <<args, pc, dns_name, is_constraint, is_wildcard, iterators, matched>>
  BY DEF ValidateLabel
<1>3. n \in Seq(Nat)
  OBVIOUS
<1>4. /\ s \in 0..Len(n) /\ (s = 0 \/ s = Len(n) \/ n[s] = ASCII_PERIOD)
      /\ HasAsterisk(n) => s >= 2
  BY <1>1 DEF Scanned
<1>5. label_count \in Nat /\ (label_count = 0 <=> s = 0)
  BY <1>1 DEF Counted
<1> HIDE DEF n, s
<1>6. s \in Nat /\ s < Len(n) /\ (s = 0 \/ n[s] = ASCII_PERIOD)
  <2>1. s \in Nat /\ s <= Len(n) /\ Len(n) \in Nat
    BY <1>3, <1>4
  <2>2. s # Len(n)
    <3>1. SUFFICES ASSUME s = Len(n) PROVE FALSE
      OBVIOUS
    <3>2. bytes \in Seq(Nat) /\ Len(bytes) = Len(n) - s
      BY <1>1, <1>3, <2>1, TailBytes
    <3>3. Len(bytes) = 0
      BY <2>1, <3>1, <3>2
    <3> QED BY <1>2, <3>2, <3>3
  <2> QED BY <1>4, <2>1, <2>2
<1>7. PICK e \in Nat : IsCut(n, s, e, label, rest)
  <2>1. bytes = From(n, s + 1)
    BY <1>1
  <2>2. s \in Nat /\ s < Len(n) /\ (s = 0 \/ n[s] = ASCII_PERIOD)
    BY <1>6
  <2>3. \E e \in Nat : IsCut(n, s, e, label, rest)
    BY <1>3, <2>1, <2>2, CutLabel, Zenon
  <2> QED BY <2>3
<1> HIDE DEF label, rest, p
<1>8. IsLabelOf(n, s, e) /\ rest = From(n, After(n, e) + 1) /\ Len(n) \in Nat
  BY <1>3, <1>7 DEF IsCut
<1>9. bad <=> IsBadAt(n, s, e, is_constraint)
  <2>1. s \in Nat
    BY <1>6
  <2> QED BY <1>3, <1>5, <1>7, <2>1, BadLabelByPosition, Zenon
<1> HIDE DEF bad
<1>10. n # <<>> /\ (n[1] = ASCII_ASTERISK => s >= 2)
  <2>1. n # <<>>
    BY <1>3, <1>6
  <2> QED BY <1>4, <2>1 DEF HasAsterisk
<1>11. CASE bad
  <2>1. ~IsAcceptable(n, is_constraint)
    BY <1>3, <1>8, <1>9, <1>10, <1>11, BadLabelRejected
  <2> QED BY <1>2, <1>11, <2>1 DEF n
<1>12. CASE ~bad
  <2> DEFINE t == After(n, e)
  <2>1. /\ bytes' = rest /\ label_count' = label_count + 1
        /\ UNCHANGED <<args, pc, dns_name, is_constraint, is_wildcard, iterators, matched>>
    BY <1>2, <1>12
  <2>2. Subject' = n
    BY <2>1 DEF Subject, args, n
  <2>3. Scanned(n, t, is_constraint)
    BY <1>1, <1>3, <1>8, <1>9, <1>12, GoodLabelPassed
  <2>4. Counted(n, t, label_count')
    <3>1. Counted(n, t, label_count + 1)
      BY <1>1, <1>3, <1>4, <1>8, CountStep
    <3> QED BY <2>1, <3>1
  <2>5. t \in Nat /\ t <= Len(n)
    <3>1. t \in 0..Len(n)
      BY <2>3 DEF Scanned
    <3> HIDE DEF t
    <3> QED BY <1>8, <3>1
  <2>6. bytes' = From(n, t + 1)
    BY <1>8, <2>1
  <2> HIDE DEF t
  <2>7. Len(bytes') = Len(n) - t
    BY <1>3, <2>5, <2>6, TailBytes
  <2>8. Consumed' = t
    <3>1. Consumed' = Len(Subject') - Len(bytes')
      BY DEF Consumed
    <3>2. Consumed' = Len(n) - (Len(n) - t)
      BY <2>2, <2>7, <3>1
    <3> QED BY <1>8, <2>5, <3>2
  <2>9. is_constraint' = is_constraint /\ is_wildcard' = is_wildcard
    BY <2>1
  <2>10. Validating'
    <3>1. Validating' = (/\ Len(Subject') <= MAXIMUM_NAME_LENGTH
                         /\ bytes' = From(Subject', Consumed' + 1)
                         /\ Scanned(Subject', Consumed', is_constraint')
                         /\ is_wildcard' <=> HasAsterisk(Subject')
                         /\ Counted(Subject', Consumed', label_count'))
      BY DEF Validating
    <3> QED BY <1>1, <2>2, <2>3, <2>4, <2>6, <2>8, <2>9, <3>1
  <2> QED BY <2>1, <2>10
<1> QED BY <1>11, <1>12

\* At the end of the loop the wildcard decides.
LEMMA ValidationEnds ==
  ASSUME Subject \in Seq(Nat), is_constraint \in BOOLEAN, Validating, bytes = <<>>
  PROVE  TooFewLabels <=> ~IsAcceptable(Subject, is_constraint)
<1> DEFINE n == Subject
           l == Len(n)
<1>1. /\ Len(n) <= MAXIMUM_NAME_LENGTH
      /\ Scanned(n, Consumed, is_constraint)
      /\ is_wildcard <=> HasAsterisk(n)
      /\ Counted(n, Consumed, label_count)
  BY DEF Validating
<1>2. n \in Seq(Nat) /\ l \in Nat
  OBVIOUS
<1>3. Consumed = l
  <2>1. Consumed = l - 0
    BY DEF Consumed
  <2> HIDE DEF n, l
  <2> QED BY <1>2, <2>1
<1> HIDE DEF n
<1>4. Scanned(n, Len(n), is_constraint) /\ Counted(n, Len(n), label_count)
  BY <1>1, <1>3
<1>5. CASE ~is_wildcard
  <2>1. IsAcceptable(n, is_constraint)
    BY <1>1, <1>2, <1>4, <1>5, ScannedAccepted
  <2> QED BY <1>5, <2>1 DEF TooFewLabels, n
<1>6. CASE is_wildcard
  <2>1. HasAsterisk(n) /\ label_count \in Nat
        /\ (label_count >= 3 <=> \E j \in 3..(Len(n) - 1) : n[j] = ASCII_PERIOD)
    BY <1>1, <1>4, <1>6 DEF Counted
  <2>2. CASE label_count < 3
    <3>1. ~\E j \in 3..(Len(n) - 1) : n[j] = ASCII_PERIOD
      BY <2>1, <2>2
    <3>2. ~IsAcceptable(n, is_constraint)
      BY <1>2, <2>1, <3>1, LoneAsteriskRejected
    <3> QED BY <1>6, <2>2, <3>2 DEF TooFewLabels, n
  <2>3. CASE ~(label_count < 3)
    <3>1. \E j \in 3..(Len(n) - 1) : n[j] = ASCII_PERIOD
      BY <2>1, <2>3
    <3>2. IsAcceptable(n, is_constraint)
      BY <1>1, <1>2, <1>4, <3>1, ScannedAccepted
    <3> QED BY <2>3, <3>2 DEF TooFewLabels, n
  <2> QED BY <2>2, <2>3
<1> QED BY <1>5, <1>6

-----------------------------------------------------------------------------
(* The walk: two iterators, and what they have compared.                   *)

\* A byte of a label with what the mask makes of it and its lower case.
Folds(x, masked, lowered) ==
  \/ x \in 65..90 /\ masked = x /\ lowered = x + 32
  \/ x \in 97..122 /\ masked = x - 32 /\ lowered = x
  \/ x \in 42..57 /\ masked = x - 32 /\ lowered = x
  \/ x = 95 /\ masked = x /\ lowered = x

WalkedByte == LabelByte \cup {ASCII_ASTERISK}

\* case_insensitive_ascii_match clears a bit that many pairs of bytes differ in,
\* "@" and "`" for one.  On what the validation lets through, letters, digits,
\* hyphens, underscores and an asterisk, it takes two labels for the same exactly
\* if they differ at most in the case of letters.
THEOREM MaskFoldsOnlyCase ==
  ASSUME NEW a \in Seq(WalkedByte), NEW b \in Seq(WalkedByte)
  PROVE  case_insensitive_ascii_match(a, b) <=> Lowered(a) = Lowered(b)
<1> DEFINE M == [x \in WalkedByte |-> IF (x \div 32) % 2 = 1 THEN x - 32 ELSE x]
           L == [x \in WalkedByte |-> IF x \in UpperCase THEN x + 32 ELSE x]
<1>1. ASSUME NEW x \in WalkedByte
      PROVE  /\ x \in Nat /\ M[x] \in Int /\ L[x] \in Int
             /\ Folds(x, M[x], L[x])
  <2>1. x \in Nat /\ x \in 65..90 \cup 97..122 \cup 42..57 \cup {95}
    BY DEF WalkedByte, LabelByte, Numeric, Letter, UpperCase, ASCII_HYPHEN, ASCII_UNDERSCORE, ASCII_ASTERISK
  <2>2. 1 % 2 = 1 /\ 2 % 2 = 0 /\ 3 % 2 = 1
    OBVIOUS
  <2>3. x \in 65..95 => M[x] = x
    <3>1. x \in 65..95 => x \div 32 = 2
      BY <2>1
    <3> QED BY <2>2, <3>1
  <2>4. x \in 97..122 \cup 42..57 => M[x] = x - 32
    <3>1. x \in 97..122 => x \div 32 = 3
      BY <2>1
    <3>2. x \in 42..57 => x \div 32 = 1
      BY <2>1
    <3> QED BY <2>2, <3>1, <3>2
  <2>5. /\ x \in 65..90 => L[x] = x + 32
        /\ x \notin 65..90 => L[x] = x
    BY DEF UpperCase
  <2> HIDE DEF M, L
  <2> QED BY <2>1, <2>3, <2>4, <2>5 DEF Folds
<1> HIDE DEF M, L
<1>2. ASSUME NEW x \in WalkedByte, NEW y \in WalkedByte
      PROVE  M[x] = M[y] <=> L[x] = L[y]
  <2>1. x \in Nat /\ M[x] \in Int /\ L[x] \in Int /\ Folds(x, M[x], L[x])
    BY <1>1
  <2>2. y \in Nat /\ M[y] \in Int /\ L[y] \in Int /\ Folds(y, M[y], L[y])
    BY <1>1
  <2> QED BY <2>1, <2>2 DEF Folds
<1>3. ASSUME NEW t \in Seq(WalkedByte)
      PROVE  /\ Masked(t) = [i \in DOMAIN t |-> M[t[i]]]
             /\ Lowered(t) = [i \in DOMAIN t |-> L[t[i]]]
  BY DEF Masked, Lowered, M, L
<1>4. /\ Masked(a) = Masked(b) <=>
           (DOMAIN a = DOMAIN b /\ \A i \in DOMAIN a : M[a[i]] = M[b[i]])
      /\ Lowered(a) = Lowered(b) <=>
           (DOMAIN a = DOMAIN b /\ \A i \in DOMAIN a : L[a[i]] = L[b[i]])
  BY <1>3
<1>5. DOMAIN a = DOMAIN b =>
        \A i \in DOMAIN a : M[a[i]] = M[b[i]] <=> L[a[i]] = L[b[i]]
  BY <1>2
<1> QED BY <1>4, <1>5 DEF case_insensitive_ascii_match

\* Lowering neither makes a period nor takes one away.
LEMMA LoweredPeriod ==
  ASSUME NEW text \in Seq(Nat), NEW i \in 1..Len(text)
  PROVE  Lowered(text)[i] = ASCII_PERIOD <=> text[i] = ASCII_PERIOD
<1>1. Lowered(text)[i] = IF text[i] \in UpperCase THEN text[i] + 32 ELSE text[i]
  BY LoweredByte
<1>2. text[i] \in Nat
  OBVIOUS
<1>3. UpperCase = 65..90 /\ ASCII_PERIOD = 46
  BY DEF UpperCase, ASCII_PERIOD
<1>4. CASE text[i] \in UpperCase
  <2>1. Lowered(text)[i] = text[i] + 32
    BY <1>1, <1>4
  <2>2. text[i] \in 65..90
    BY <1>3, <1>4
  <2>3. text[i] + 32 # 46 /\ text[i] # 46
    <3>1. \A x \in 65..90 : x + 32 # 46 /\ x # 46
      OBVIOUS
    <3> QED BY <2>2, <3>1, Zenon
  <2> QED BY <1>3, <2>1, <2>3
<1>5. CASE text[i] \notin UpperCase
  BY <1>1, <1>5
<1> QED BY <1>4, <1>5

-----------------------------------------------------------------------------
(* Suffixes by position.                                                   *)

\* IsSuffix of the library reverses both texts: the positions it compares.
LEMMA SuffixByPosition ==
  ASSUME NEW s \in Seq(Nat), NEW t \in Seq(Nat)
  PROVE  IsSuffix(s, t) <=>
           /\ Len(s) <= Len(t)
           /\ \A i \in 1..Len(s) : t[i + (Len(t) - Len(s))] = s[i]
<1> DEFINE k == Len(s)
           l == Len(t)
           r == Reverse(s)
           q == Reverse(t)
<1>1. /\ r \in Seq(Nat) /\ Len(r) = k /\ \A i \in 1..k : r[i] = s[(k - i) + 1]
      /\ q \in Seq(Nat) /\ Len(q) = l /\ \A i \in 1..l : q[i] = t[(l - i) + 1]
      /\ k \in Nat /\ l \in Nat
  BY DEF Reverse
<1>2. IsSuffix(s, t) <=> k <= l /\ SubSeq(r, 1, k) = SubSeq(q, 1, k)
  <2>1. IsSuffix(s, t) <=> Len(r) <= Len(q) /\ SubSeq(r, 1, Len(r)) = SubSeq(q, 1, Len(r))
    BY DEF IsSuffix, IsPrefix
  <2> QED BY <1>1, <2>1
<1> HIDE DEF k, l, r, q
<1>3. ASSUME k <= l
      PROVE  SubSeq(r, 1, k) = SubSeq(q, 1, k) <=> \A i \in 1..k : r[i] = q[i]
  <2>1. /\ UpTo(r, k) \in Seq(Nat) /\ Len(UpTo(r, k)) = k /\ \A i \in 1..k : UpTo(r, k)[i] = r[i]
        /\ UpTo(q, k) \in Seq(Nat) /\ Len(UpTo(q, k)) = k /\ \A i \in 1..k : UpTo(q, k)[i] = q[i]
    <3>1. k <= Len(r) /\ k <= Len(q)
      BY <1>1, <1>3
    <3> QED BY <1>1, <3>1, UpToTyped
  <2>2. UpTo(r, k) = UpTo(q, k) <=> \A i \in 1..k : r[i] = q[i]
    <3> DEFINE u == UpTo(r, k)
               v == UpTo(q, k)
    <3> HIDE DEF u, v
    <3>1. /\ u \in Seq(Nat) /\ Len(u) = k /\ \A i \in 1..k : u[i] = r[i]
          /\ v \in Seq(Nat) /\ Len(v) = k /\ \A i \in 1..k : v[i] = q[i]
      BY <2>1 DEF u, v
    <3>2. u = v <=> \A i \in 1..k : u[i] = v[i]
      BY <3>1, SameSequence
    <3>3. u = v <=> \A i \in 1..k : r[i] = q[i]
      BY <3>1, <3>2, Zenon
    <3> QED BY <3>3 DEF u, v
  <2> QED BY <2>2 DEF UpTo
<1>4. ASSUME k <= l, \A i \in 1..k : r[i] = q[i], NEW i \in 1..k
      PROVE  t[i + (l - k)] = s[i]
  <2> DEFINE j == (k - i) + 1
  <2>1. j \in 1..k /\ j \in 1..l /\ (k - j) + 1 = i /\ (l - j) + 1 = i + (l - k)
    BY <1>1, <1>4
  <2> HIDE DEF j
  <2>2. r[j] = s[i] /\ q[j] = t[i + (l - k)]
    BY <1>1, <2>1
  <2> QED BY <1>4, <2>1, <2>2
<1>5. ASSUME k <= l, \A i \in 1..k : t[i + (l - k)] = s[i], NEW i \in 1..k
      PROVE  r[i] = q[i]
  <2> DEFINE j == (k - i) + 1
  <2>1. j \in 1..k /\ i \in 1..l /\ (l - i) + 1 = j + (l - k)
    BY <1>1, <1>5
  <2>2. r[i] = s[j] /\ q[i] = t[(l - i) + 1]
    BY <1>1, <2>1
  <2> HIDE DEF j
  <2> QED BY <1>5, <2>1, <2>2
<1>6. IsSuffix(s, t) <=> (k <= l /\ \A i \in 1..k : t[i + (l - k)] = s[i])
  BY <1>2, <1>3, <1>4, <1>5
<1> QED BY <1>6 DEF k, l

\* The constraint without a period at the end covers the name: a suffix, at a
\* label boundary.
Covers(n, base) ==
  /\ Len(base) <= Len(n)
  /\ \A i \in 1..Len(base) : Lowered(n)[i + (Len(n) - Len(base))] = Lowered(base)[i]
  /\ \/ base[1] = ASCII_PERIOD
     \/ Len(n) = Len(base)
     \/ n[Len(n) - Len(base)] = ASCII_PERIOD

\* InDnsSubtree of an acceptable name and constraint, by positions.
LEMMA SubtreeByPosition ==
  ASSUME NEW n \in Seq(Nat), NEW c \in Seq(Nat), c # <<>>,
         IsAcceptable(n, FALSE), IsAcceptable(c, TRUE),
         NEW base, base = StripPeriod(c)
  PROVE  InDnsSubtree(n, c) <=> Covers(n, base)
<1> DEFINE N == Lowered(n)
           B == Lowered(base)
           k == Len(base)
           l == Len(n)
           P == <<ASCII_PERIOD>> \o B
           Same == \A i \in 1..k : N[i + (l - k)] = B[i]
<1>1. base \in Seq(Nat) /\ base # <<>>
  <2>1. base \in Seq(Nat)
    BY StripPeriodTyped
  <2>2. WellEnded(base)
    BY AcceptableParts
  <2> QED BY <2>1, <2>2 DEF WellEnded
<1>2. /\ N \in Seq(Nat) /\ Len(N) = l
      /\ B \in Seq(Nat) /\ Len(B) = k
      /\ k \in Nat /\ l \in Nat /\ k # 0
  BY <1>1, LoweredByte
<1>3. ASCII_PERIOD \in Nat
  BY DEF ASCII_PERIOD
<1>4. Head(B) = ASCII_PERIOD <=> base[1] = ASCII_PERIOD
  <2>1. 1 \in 1..Len(base)
    BY <1>1
  <2>2. B[1] = ASCII_PERIOD <=> base[1] = ASCII_PERIOD
    BY <1>1, <2>1, LoweredPeriod
  <2>3. Head(B) = B[1]
    <3> HIDE DEF B, k
    <3> QED BY <1>2
  <2> QED BY <2>2, <2>3
<1>5. InDnsSubtree(n, c) <=>
        \/ Head(B) = ASCII_PERIOD /\ IsSuffix(B, N)
        \/ Head(B) # ASCII_PERIOD /\ B = N
        \/ Head(B) # ASCII_PERIOD /\ IsSuffix(P, N)
  BY DEF InDnsSubtree
<1>6. ASSUME NEW i \in 1..l PROVE N[i] = ASCII_PERIOD <=> n[i] = ASCII_PERIOD
  BY LoweredPeriod
<1>7. Covers(n, base) <=> k <= l /\ Same /\ (base[1] = ASCII_PERIOD \/ l = k \/ n[l - k] = ASCII_PERIOD)
  BY DEF Covers
<1> HIDE DEF N, B, k, l
<1>8. IsSuffix(B, N) <=> k <= l /\ Same
  <2>1. IsSuffix(B, N) <=> /\ Len(B) <= Len(N)
                           /\ \A i \in 1..Len(B) : N[i + (Len(N) - Len(B))] = B[i]
    BY <1>2, SuffixByPosition
  <2> QED BY <1>2, <2>1
<1>9. B = N <=> k = l /\ Same
  <2>1. ASSUME B = N PROVE k = l /\ Same
    <3>1. k = l /\ l - k = 0
      BY <1>2, <2>1
    <3>2. ASSUME NEW i \in 1..k PROVE i + (l - k) = i
      BY <1>2, <3>1
    <3> QED BY <2>1, <3>1, <3>2
  <2>2. ASSUME k = l, Same PROVE B = N
    <3>1. ASSUME NEW i \in 1..k PROVE N[i] = B[i]
      <4>1. i + (l - k) = i
        BY <1>2, <2>2
      <4> QED BY <2>2, <4>1
    <3> QED BY <1>2, <2>2, <3>1
  <2> QED BY <2>1, <2>2
<1>10. IsSuffix(P, N) <=> k < l /\ N[l - k] = ASCII_PERIOD /\ Same
  <2>1. /\ P \in Seq(Nat) /\ Len(P) = k + 1 /\ P[1] = ASCII_PERIOD
        /\ \A i \in 1..k : P[i + 1] = B[i]
    BY <1>2, <1>3
  <2> HIDE DEF P
  <2>2. IsSuffix(P, N) <=> /\ k + 1 <= l
                           /\ \A i \in 1..(k + 1) : N[i + (l - (k + 1))] = P[i]
    <3>1. IsSuffix(P, N) <=> /\ Len(P) <= Len(N)
                             /\ \A i \in 1..Len(P) : N[i + (Len(N) - Len(P))] = P[i]
      BY <1>2, <2>1, SuffixByPosition
    <3> QED BY <1>2, <2>1, <3>1
  <2>3. ASSUME k + 1 <= l, \A i \in 1..(k + 1) : N[i + (l - (k + 1))] = P[i]
        PROVE  N[l - k] = ASCII_PERIOD /\ Same
    <3>1. 1 \in 1..(k + 1) /\ 1 + (l - (k + 1)) = l - k
      BY <1>2
    <3>2. N[l - k] = ASCII_PERIOD
      BY <2>1, <2>3, <3>1
    <3>3. ASSUME NEW i \in 1..k PROVE N[i + (l - k)] = B[i]
      <4>1. i + 1 \in 1..(k + 1) /\ (i + 1) + (l - (k + 1)) = i + (l - k)
        BY <1>2
      <4> QED BY <2>1, <2>3, <4>1
    <3> QED BY <3>2, <3>3
  <2>4. ASSUME k < l, N[l - k] = ASCII_PERIOD, Same, NEW i \in 1..(k + 1)
        PROVE  N[i + (l - (k + 1))] = P[i]
    <3>1. CASE i = 1
      <4>1. i + (l - (k + 1)) = l - k
        BY <1>2, <3>1
      <4> QED BY <2>1, <2>4, <3>1, <4>1
    <3>2. CASE i # 1
      <4>1. i - 1 \in 1..k /\ (i - 1) + 1 = i /\ i + (l - (k + 1)) = (i - 1) + (l - k)
        BY <1>2, <3>2
      <4> QED BY <2>1, <2>4, <4>1
    <3> QED BY <3>1, <3>2
  <2>5. k < l <=> k + 1 <= l
    BY <1>2
  <2> QED BY <2>2, <2>3, <2>4, <2>5
<1> HIDE DEF Same, P
<1>11. k < l => (N[l - k] = ASCII_PERIOD <=> n[l - k] = ASCII_PERIOD)
  <2>1. k < l => l - k \in 1..l
    BY <1>2
  <2> QED BY <1>6, <2>1
<1>12. k <= l <=> (k < l \/ l = k)
  BY <1>2
<1> QED BY <1>4, <1>5, <1>7, <1>8, <1>9, <1>10, <1>11, <1>12

\* An acceptable name has no empty label but a first one, if that is allowed.
LEMMA NoEmptyLabel ==
  ASSUME NEW n \in Seq(Nat), n # <<>>, NEW may_lead \in BOOLEAN, IsAcceptable(n, may_lead),
         NEW body, body = StripPeriod(n), NEW x \in 0..Len(body),
         x = 0 \/ body[x] = ASCII_PERIOD,
         x = Len(body) \/ body[x + 1] = ASCII_PERIOD
  PROVE  x = 0 /\ may_lead /\ body[1] = ASCII_PERIOD
<1> DEFINE k == Len(body)
<1>1. WellEnded(body) /\ \A i \in 1..k : MayStand(body, i, may_lead)
  BY AcceptableParts
<1>2. k # 0 /\ body[k] # ASCII_PERIOD
  BY <1>1 DEF WellEnded
<1>3. k \in Nat
  BY StripPeriodTyped
<1> HIDE DEF k
<1>4. x # k
  BY <1>2 DEF k
<1>5. x + 1 \in 1..k /\ body[x + 1] = ASCII_PERIOD /\ x \in Nat
  BY <1>3, <1>4 DEF k
<1>6. (x + 1 = 1 /\ may_lead) \/ (x + 1 > 1 /\ body[(x + 1) - 1] # ASCII_PERIOD)
  BY <1>1, <1>5, ByteValues DEF MayStand
<1>7. (x + 1) - 1 = x
  BY <1>5
<1> QED BY <1>5, <1>6, <1>7

\* What is between the periods of an acceptable name is bytes the walk compares.
LEMMA LabelBytes ==
  ASSUME NEW n \in Seq(Nat), NEW may_lead \in BOOLEAN, IsAcceptable(n, may_lead),
         NEW i \in 1..Len(n), n[i] # ASCII_PERIOD
  PROVE  n[i] \in WalkedByte
<1> DEFINE body == StripPeriod(n)
           k == Len(body)
           l == Len(n)
<1>1. n # <<>> /\ l \in Nat
  OBVIOUS
<1>2. \A j \in 1..k : MayStand(body, j, may_lead)
  BY <1>1, AcceptableParts
<1>3. /\ k \in Nat /\ \A j \in 1..k : body[j] = n[j]
      /\ (n[l] = ASCII_PERIOD /\ k = l - 1) \/ k = l
  BY StripPeriodTyped
<1> HIDE DEF k, body
<1>4. i \in 1..k
  <2>1. i \in 1..l
    OBVIOUS
  <2> HIDE DEF l
  <2> QED BY <1>1, <1>3, <2>1
<1> QED BY <1>2, <1>3, <1>4 DEF MayStand, WalkedByte

-----------------------------------------------------------------------------
(* The two iterators.                                                      *)

\* What remains of a text, up to x; nothing, not even an empty label, at -1.
Remaining(text, x) == IF x = -1 THEN <<>> ELSE <<UpTo(text, x)>>

\* The label that ends at x begins after p.
LastLabel(text, p, x) ==
  /\ p \in 0..x
  /\ p = 0 \/ text[p] = ASCII_PERIOD
  /\ \A i \in (p + 1)..x : text[i] # ASCII_PERIOD

IsLabelText(text, p, x, label) ==
  label \in Seq(Nat) /\ Len(label) = x - p /\ \A k \in 1..(x - p) : label[k] = text[p + k]

\* The label that NextLabel cuts off and what it leaves.
IsNextLabel(text, p, x, next) ==
  /\ LastLabel(text, p, x)
  /\ \E label \in Seq(Nat) : next.item = <<label>> /\ IsLabelText(text, p, x, label)
  /\ next.remaining = Remaining(text, p - 1)

\* ReverseDnsLabels::next cuts after the last period of what remains.
LEMMA NextLabelCuts ==
  ASSUME NEW text \in Seq(Nat), NEW x \in Nat, x <= Len(text)
  PROVE  \E p \in Nat : IsNextLabel(text, p, x, NextLabel(Remaining(text, x)))
<1> DEFINE base == UpTo(text, x)
           p == LastOf(ASCII_PERIOD, base)
           label == From(base, p + 1)
           next == NextLabel(Remaining(text, x))
<1>1. Remaining(text, x) = <<base>>
  BY DEF Remaining
<1>2. base \in Seq(Nat) /\ Len(base) = x /\ \A k \in 1..x : base[k] = text[k]
  BY UpToTyped
<1> HIDE DEF base
<1>3. /\ p \in 0..x
      /\ p # 0 => base[p] = ASCII_PERIOD
      /\ \A i \in (p + 1)..x : base[i] # ASCII_PERIOD
  <2>1. /\ p \in 0..Len(base)
        /\ p # 0 => base[p] = ASCII_PERIOD
        /\ \A i \in (p + 1)..Len(base) : base[i] # ASCII_PERIOD
    BY <1>2, LastOfPosition
  <2> QED BY <1>2, <2>1
<1>4. /\ next.item = <<label>>
      /\ next.remaining = IF p = 0 THEN <<>> ELSE <<UpTo(base, p - 1)>>
  BY <1>1 DEF NextLabel
<1> HIDE DEF p, next
<1>5. p \in Nat /\ p <= x
  BY <1>3
<1>6. LastLabel(text, p, x)
  <2>1. p # 0 => text[p] = ASCII_PERIOD
    BY <1>2, <1>3, <1>5
  <2>2. ASSUME NEW i \in (p + 1)..x PROVE text[i] # ASCII_PERIOD
    <3>1. i \in 1..x
      BY <1>5
    <3> QED BY <1>2, <1>3, <3>1
  <2> QED BY <1>3, <2>1, <2>2 DEF LastLabel
<1>7. label \in Seq(Nat) /\ IsLabelText(text, p, x, label)
  <2>1. label \in Seq(Nat) /\ Len(label) = x - p /\ \A k \in 1..(x - p) : label[k] = base[p + k]
    <3>1. p <= Len(base)
      BY <1>2, <1>5
    <3>2. label \in Seq(Nat) /\ Len(label) = Len(base) - p /\ \A k \in 1..(Len(base) - p) : label[k] = base[p + k]
      BY <1>2, <1>5, <3>1, TailBytes
    <3> QED BY <1>2, <3>2
  <2> HIDE DEF label
  <2>2. ASSUME NEW k \in 1..(x - p) PROVE label[k] = text[p + k]
    <3>1. p + k \in 1..x
      BY <1>5
    <3> QED BY <1>2, <2>1, <3>1
  <2> QED BY <2>1, <2>2 DEF IsLabelText
<1>8. next.remaining = Remaining(text, p - 1)
  <2>1. CASE p = 0
    <3>1. p - 1 = -1
      BY <2>1
    <3> QED BY <1>4, <2>1, <3>1 DEF Remaining
  <2>2. CASE p # 0
    <3>1. p - 1 # -1 /\ p - 1 \in Nat /\ p - 1 <= x /\ p - 1 <= Len(text)
      BY <1>5, <2>2
    <3>2. UpTo(base, p - 1) = UpTo(text, p - 1)
      <4>1. /\ UpTo(base, p - 1) \in Seq(Nat) /\ Len(UpTo(base, p - 1)) = p - 1
            /\ \A k \in 1..(p - 1) : UpTo(base, p - 1)[k] = base[k]
        <5>1. p - 1 <= Len(base)
          BY <1>2, <3>1
        <5> QED BY <1>2, <3>1, <5>1, UpToTyped
      <4>2. /\ UpTo(text, p - 1) \in Seq(Nat) /\ Len(UpTo(text, p - 1)) = p - 1
            /\ \A k \in 1..(p - 1) : UpTo(text, p - 1)[k] = text[k]
        BY <3>1, UpToTyped
      <4>3. ASSUME NEW k \in 1..(p - 1) PROVE base[k] = text[k]
        <5>1. k \in 1..x
          BY <1>5
        <5> QED BY <1>2, <5>1
      <4> DEFINE u == UpTo(base, p - 1)
                 v == UpTo(text, p - 1)
      <4>4. /\ u \in Seq(Nat) /\ Len(u) = p - 1
            /\ v \in Seq(Nat) /\ Len(v) = p - 1
            /\ \A k \in 1..(p - 1) : u[k] = v[k]
        BY <4>1, <4>2, <4>3
      <4> HIDE DEF u, v
      <4>5. u = v
        BY <4>4
      <4> QED BY <4>5 DEF u, v
    <3> QED BY <1>4, <2>2, <3>1, <3>2 DEF Remaining
  <2> QED BY <2>1, <2>2
<1> HIDE DEF label
<1>9. IsNextLabel(text, p, x, next)
  BY <1>4, <1>6, <1>7, <1>8 DEF IsNextLabel
<1> QED BY <1>5, <1>9 DEF next

\* The walk is to the left of x in the name and of y in the constraint, and what
\* is to the right of them agrees.
Walked(n, base, x, y) ==
  /\ x \in (-1)..Len(n) /\ y \in (-1)..Len(base)
  /\ x - y = Len(n) - Len(base)
  /\ x = -1 \/ x = Len(n) \/ n[x + 1] = ASCII_PERIOD
  /\ y = -1 \/ y = Len(base) \/ base[y + 1] = ASCII_PERIOD
  /\ y = -1 => base[1] # ASCII_PERIOD
  /\ \A i \in 1..Len(base) :
       i > y /\ i + (x - y) >= 1 => Lowered(n)[i + (x - y)] = Lowered(base)[i]

SameLabel(n, base, p, x, q, y) ==
  x - p = y - q /\ \A k \in 1..(x - p) : Lowered(n)[p + k] = Lowered(base)[q + k]

\* The iterators begin at the ends, with nothing compared.
LEMMA WalkBegins ==
  ASSUME NEW n \in Seq(Nat), NEW base \in Seq(Nat), base # <<>>
  PROVE  Walked(n, base, Len(n), Len(base))
<1> DEFINE k == Len(base)
           l == Len(n)
<1>1. k \in Nat /\ l \in Nat /\ k # 0
  OBVIOUS
<1> HIDE DEF k, l
<1>2. l \in (-1)..l /\ k \in (-1)..k /\ k # -1 /\ \A i \in 1..k : ~(i > k)
  BY <1>1
<1> QED BY <1>2 DEF Walked, k, l

\* The iterators stay in their texts, at the same distance.
LEMMA WalkTyped ==
  ASSUME NEW n \in Seq(Nat), NEW base \in Seq(Nat), NEW x, NEW y, Walked(n, base, x, y)
  PROVE  /\ Len(n) \in Nat /\ Len(base) \in Nat
         /\ x \in Int /\ y \in Int
         /\ -1 <= x /\ x <= Len(n) /\ -1 <= y /\ y <= Len(base)
         /\ x - y = Len(n) - Len(base)
<1>1. Len(n) \in Nat /\ Len(base) \in Nat
  OBVIOUS
<1>2. x \in (-1)..Len(n) /\ y \in (-1)..Len(base) /\ x - y = Len(n) - Len(base)
  BY DEF Walked
<1> QED BY <1>1, <1>2

\* The constraint has no label left: it covers the name.
LEMMA ConstraintExhausted ==
  ASSUME NEW n \in Seq(Nat), NEW base \in Seq(Nat), NEW x, NEW y, Walked(n, base, x, y), y = -1
  PROVE  Covers(n, base)
<1> DEFINE k == Len(base)
           l == Len(n)
<1>1. k \in Nat /\ l \in Nat /\ x \in Int /\ -1 <= x /\ x <= l /\ x - y = l - k
  BY WalkTyped
<1>2. /\ x = -1 \/ x = l \/ n[x + 1] = ASCII_PERIOD
      /\ \A i \in 1..k :
           i > y /\ i + (x - y) >= 1 => Lowered(n)[i + (x - y)] = Lowered(base)[i]
  BY DEF Walked
<1> HIDE DEF k, l
<1>3. x + 1 = l - k /\ k <= l
  BY <1>1
<1>4. ASSUME NEW i \in 1..k PROVE Lowered(n)[i + (l - k)] = Lowered(base)[i]
  <2>1. i > y /\ i + (x - y) >= 1 /\ i + (x - y) = i + (l - k)
    BY <1>1, <1>3
  <2> QED BY <1>2, <2>1
<1>5. x = l => k = -1
  BY <1>1, <1>3
<1>6. l = k \/ n[l - k] = ASCII_PERIOD
  <2>1. x # l
    BY <1>1, <1>5
  <2>2. CASE x = -1
    BY <1>1, <1>3, <2>2
  <2>3. CASE n[x + 1] = ASCII_PERIOD
    BY <1>3, <2>3
  <2> QED BY <1>2, <2>1, <2>2, <2>3
<1> QED BY <1>3, <1>4, <1>6 DEF Covers, k, l

\* The name has no label left and the constraint has one: it does not.
LEMMA NameExhausted ==
  ASSUME NEW n \in Seq(Nat), NEW base \in Seq(Nat), NEW x, NEW y, Walked(n, base, x, y),
         x = -1, y # -1
  PROVE  ~Covers(n, base)
<1> DEFINE k == Len(base)
           l == Len(n)
<1>1. k \in Nat /\ l \in Nat /\ y \in Int /\ -1 <= y /\ x - y = l - k
  BY WalkTyped
<1> HIDE DEF k, l
<1>2. ~(k <= l)
  BY <1>1
<1> QED BY <1>2 DEF Covers, k, l

\* The next label of the name is empty only if it ends in a period: no
\* constraint covers it.
LEMMA EmptyNameLabel ==
  ASSUME NEW n \in Seq(Nat), IsAcceptable(n, FALSE),
         NEW c \in Seq(Nat), c # <<>>, IsAcceptable(c, TRUE), NEW base, base = StripPeriod(c),
         NEW x \in Nat, NEW y, Walked(n, base, x, y), LastLabel(n, x, x)
  PROVE  ~Covers(n, base)
<1> DEFINE k == Len(base)
           l == Len(n)
           body == StripPeriod(n)
           b == Len(body)
<1>1. base \in Seq(Nat) /\ k # 0 /\ base[k] # ASCII_PERIOD
  <2>1. base \in Seq(Nat)
    BY StripPeriodTyped
  <2>2. WellEnded(base)
    BY AcceptableParts
  <2> QED BY <2>1, <2>2 DEF WellEnded
<1>2. k \in Nat /\ l \in Nat /\ x <= l
  BY <1>1, WalkTyped
<1>3. x = l \/ n[x + 1] = ASCII_PERIOD
  <2>1. x = -1 \/ x = l \/ n[x + 1] = ASCII_PERIOD
    BY DEF Walked
  <2>2. x # -1
    OBVIOUS
  <2> QED BY <2>1, <2>2
<1>4. x = 0 \/ n[x] = ASCII_PERIOD
  BY DEF LastLabel
<1>5. x = l
  <2> SUFFICES ASSUME x # l PROVE FALSE
    OBVIOUS
  <2>1. /\ b \in Nat /\ \A i \in 1..b : body[i] = n[i]
        /\ (n[l] = ASCII_PERIOD /\ b = l - 1) \/ b = l
    BY StripPeriodTyped
  <2>2. n # <<>>
    BY <1>2
  <2> HIDE DEF b, body, l
  <2>3. x < l /\ x <= b /\ n[x + 1] = ASCII_PERIOD
    BY <1>2, <1>3, <2>1
  <2>4. x \in 0..b /\ (x = 0 \/ body[x] = ASCII_PERIOD)
    BY <1>4, <2>1, <2>3
  <2>5. x = b \/ body[x + 1] = ASCII_PERIOD
    BY <2>1, <2>3
  <2>6. x \in 0..Len(body) /\ (x = Len(body) \/ body[x + 1] = ASCII_PERIOD)
    BY <2>4, <2>5 DEF b
  <2> QED BY <2>2, <2>4, <2>6, NoEmptyLabel DEF body
<1> SUFFICES ASSUME Covers(n, base) PROVE FALSE
  OBVIOUS
<1>6. /\ k <= l
      /\ \A i \in 1..k : Lowered(n)[i + (l - k)] = Lowered(base)[i]
  BY DEF Covers
<1>7. l # 0 /\ k \in 1..k /\ k + (l - k) = l /\ l \in 1..l
  <2>1. k # 0
    BY <1>1
  <2> HIDE DEF k, l
  <2> QED BY <1>2, <1>6, <2>1
<1>8. Lowered(n)[l] = Lowered(base)[k]
  <2> HIDE DEF k, l
  <2> QED BY <1>6, <1>7
<1>9. n[l] = ASCII_PERIOD
  BY <1>4, <1>5, <1>7
<1>10. Lowered(n)[l] = ASCII_PERIOD
  BY <1>7, <1>9, LoweredPeriod
<1>11. Lowered(base)[k] # ASCII_PERIOD
  BY <1>1, <1>7, LoweredPeriod
<1> QED BY <1>8, <1>10, <1>11

\* The next label of the constraint is empty only if it leads with a period,
\* and then all the rest of the name is below it.
LEMMA EmptyConstraintLabel ==
  ASSUME NEW n \in Seq(Nat),
         NEW c \in Seq(Nat), c # <<>>, IsAcceptable(c, TRUE), NEW base, base = StripPeriod(c),
         NEW x \in Nat, NEW y \in Nat, Walked(n, base, x, y), LastLabel(base, y, y)
  PROVE  y = 0 /\ Covers(n, base)
<1> DEFINE k == Len(base)
           l == Len(n)
<1>1. base \in Seq(Nat)
  BY StripPeriodTyped
<1>2. k \in Nat /\ l \in Nat /\ y <= k /\ x <= l /\ x - y = l - k
  BY <1>1, WalkTyped
<1>3. y = k \/ base[y + 1] = ASCII_PERIOD
  <2>1. y = -1 \/ y = k \/ base[y + 1] = ASCII_PERIOD
    BY DEF Walked
  <2>2. y # -1
    OBVIOUS
  <2> QED BY <2>1, <2>2
<1>4. y = 0 \/ base[y] = ASCII_PERIOD
  BY DEF LastLabel
<1>5. y \in 0..Len(base)
  BY <1>2
<1>6. y = 0 /\ base[1] = ASCII_PERIOD
  <2> DEFINE lead == TRUE
  <2>1. lead \in BOOLEAN /\ IsAcceptable(c, lead)
    OBVIOUS
  <2> HIDE DEF lead
  <2> QED BY <1>3, <1>4, <1>5, <2>1, NoEmptyLabel
<1>7. \A i \in 1..k : i > y /\ i + (x - y) >= 1 => Lowered(n)[i + (x - y)] = Lowered(base)[i]
  BY DEF Walked
<1> HIDE DEF k, l
<1>8. k <= l
  BY <1>2, <1>6
<1>9. ASSUME NEW i \in 1..k PROVE Lowered(n)[i + (l - k)] = Lowered(base)[i]
  <2>1. i > y /\ i + (x - y) >= 1 /\ i + (x - y) = i + (l - k)
    BY <1>2, <1>6
  <2> QED BY <1>7, <2>1
<1> QED BY <1>6, <1>8, <1>9 DEF Covers, k, l

\* If the constraint covers the name, their next labels are the same.
LEMMA CoveredLabels ==
  ASSUME NEW n \in Seq(Nat), NEW base \in Seq(Nat), NEW x \in Nat, NEW y \in Nat,
         Walked(n, base, x, y), Covers(n, base),
         NEW p \in Nat, LastLabel(n, p, x), NEW q \in Nat, LastLabel(base, q, y), q # y
  PROVE  SameLabel(n, base, p, x, q, y)
<1> DEFINE k == Len(base)
           l == Len(n)
           d == l - k
           N == Lowered(n)
           B == Lowered(base)
<1>1. k \in Nat /\ l \in Nat /\ x <= l /\ y <= k /\ x - y = l - k
  <2>1. /\ Len(n) \in Nat /\ Len(base) \in Nat
        /\ x <= Len(n) /\ y <= Len(base)
        /\ x - y = Len(n) - Len(base)
    <3>1. x \in (-1)..Len(n) /\ y \in (-1)..Len(base) /\ x - y = Len(n) - Len(base)
      BY DEF Walked
    <3>2. Len(n) \in Nat /\ Len(base) \in Nat
      OBVIOUS
    <3> QED BY <3>1, <3>2
  <2> QED BY <2>1
<1>2. /\ k <= l
      /\ \A i \in 1..k : N[i + d] = B[i]
      /\ base[1] = ASCII_PERIOD \/ l = k \/ n[d] = ASCII_PERIOD
  BY DEF Covers
<1>3. /\ p <= x /\ (p = 0 \/ n[p] = ASCII_PERIOD)
      /\ \A i \in (p + 1)..x : n[i] # ASCII_PERIOD
  <2>1. p \in 0..x
    BY DEF LastLabel
  <2>2. p <= x
    BY <2>1
  <2> QED BY <2>2 DEF LastLabel
<1>4. /\ q <= y /\ (q = 0 \/ base[q] = ASCII_PERIOD)
      /\ \A i \in (q + 1)..y : base[i] # ASCII_PERIOD
  <2>1. q \in 0..y
    BY DEF LastLabel
  <2>2. q <= y
    BY <2>1
  <2> QED BY <2>2 DEF LastLabel
<1>5. ASSUME NEW i \in 1..l PROVE N[i] = ASCII_PERIOD <=> n[i] = ASCII_PERIOD
  BY LoweredPeriod
<1>6. ASSUME NEW i \in 1..k PROVE B[i] = ASCII_PERIOD <=> base[i] = ASCII_PERIOD
  BY LoweredPeriod
<1> HIDE DEF k, l, N, B
<1>7. d \in Nat /\ x = y + d /\ q < y /\ l = k + d
  BY <1>1, <1>2, <1>4
<1> HIDE DEF d
<1>8. ASSUME NEW i \in 1..k PROVE n[i + d] = ASCII_PERIOD <=> base[i] = ASCII_PERIOD
  <2>1. i + d \in 1..l
    BY <1>1, <1>7
  <2>2. N[i + d] = B[i]
    BY <1>2
  <2>3. N[i + d] = ASCII_PERIOD <=> n[i + d] = ASCII_PERIOD
    BY <1>5, <2>1
  <2>4. B[i] = ASCII_PERIOD <=> base[i] = ASCII_PERIOD
    BY <1>6
  <2> QED BY <2>2, <2>3, <2>4
<1>9. p <= q + d
  <2> SUFFICES ASSUME p > q + d PROVE FALSE
    BY <1>7
  <2>1. p # 0 /\ p - d \in (q + 1)..y /\ p - d \in 1..k /\ (p - d) + d = p
    BY <1>1, <1>3, <1>7
  <2>2. n[p] = ASCII_PERIOD /\ base[p - d] # ASCII_PERIOD
    BY <1>3, <1>4, <2>1
  <2> QED BY <1>8, <2>1, <2>2
<1>10. q + d <= p
  <2> SUFFICES ASSUME p < q + d PROVE FALSE
    BY <1>7
  <2>1. q + d \in (p + 1)..x
    BY <1>3, <1>7
  <2>2. n[q + d] # ASCII_PERIOD
    BY <1>3, <2>1
  <2>3. CASE q = 0
    <3>1. 1 \in (q + 1)..y /\ q + d = d /\ d # 0
      BY <1>7, <2>3
    <3>2. base[1] # ASCII_PERIOD /\ l # k
      BY <1>1, <1>4, <1>7, <3>1
    <3> QED BY <1>2, <2>2, <3>1, <3>2
  <2>4. CASE q # 0
    <3>1. q \in 1..k
      BY <1>1, <1>4, <2>4
    <3> QED BY <1>4, <1>8, <2>2, <2>4, <3>1
  <2> QED BY <2>3, <2>4
<1>11. p = q + d /\ x - p = y - q
  BY <1>7, <1>9, <1>10
<1>12. ASSUME NEW i \in 1..(x - p) PROVE N[p + i] = B[q + i]
  <2>1. q + i \in 1..k /\ (q + i) + d = p + i
    BY <1>1, <1>7, <1>11
  <2> QED BY <1>2, <2>1
<1> QED BY <1>11, <1>12 DEF SameLabel, N, B

\* After two labels that are the same the walk goes on.
LEMMA WalkGoesOn ==
  ASSUME NEW n \in Seq(Nat), NEW base \in Seq(Nat), NEW x \in Nat, NEW y \in Nat,
         Walked(n, base, x, y),
         NEW p \in Nat, LastLabel(n, p, x), NEW q \in Nat, LastLabel(base, q, y), q # y,
         SameLabel(n, base, p, x, q, y)
  PROVE  Walked(n, base, p - 1, q - 1)
<1> DEFINE k == Len(base)
           l == Len(n)
           d == l - k
           N == Lowered(n)
           B == Lowered(base)
           u == p - 1
           v == q - 1
<1>1. k \in Nat /\ l \in Nat /\ x <= l /\ y <= k /\ x - y = d
  <2>1. /\ Len(n) \in Nat /\ Len(base) \in Nat
        /\ x <= Len(n) /\ y <= Len(base)
        /\ x - y = Len(n) - Len(base)
    <3>1. x \in (-1)..Len(n) /\ y \in (-1)..Len(base) /\ x - y = Len(n) - Len(base)
      BY DEF Walked
    <3>2. Len(n) \in Nat /\ Len(base) \in Nat
      OBVIOUS
    <3> QED BY <3>1, <3>2
  <2> QED BY <2>1
<1>2. \A i \in 1..k : i > y /\ i + (x - y) >= 1 => N[i + (x - y)] = B[i]
  BY DEF Walked
<1>3. p <= x /\ (p = 0 \/ n[p] = ASCII_PERIOD)
  <2>1. p \in 0..x
    BY DEF LastLabel
  <2>2. p <= x
    BY <2>1
  <2> QED BY <2>2 DEF LastLabel
<1>4. /\ q <= y /\ (q = 0 \/ base[q] = ASCII_PERIOD)
      /\ \A i \in (q + 1)..y : base[i] # ASCII_PERIOD
  <2>1. q \in 0..y
    BY DEF LastLabel
  <2>2. q <= y
    BY <2>1
  <2> QED BY <2>2 DEF LastLabel
<1>5. x - p = y - q /\ \A j \in 1..(x - p) : N[p + j] = B[q + j]
  BY DEF SameLabel
<1>6. ASSUME NEW i \in 1..l PROVE N[i] = ASCII_PERIOD <=> n[i] = ASCII_PERIOD
  BY LoweredPeriod
<1>7. ASSUME NEW i \in 1..k PROVE B[i] = ASCII_PERIOD <=> base[i] = ASCII_PERIOD
  BY LoweredPeriod
<1> HIDE DEF N, B
<1>8. d \in Int /\ l \in Nat /\ k \in Nat /\ d = l - k
  BY <1>1
<1> HIDE DEF d, k, l
<1>9. u \in (-1)..l /\ v \in (-1)..k /\ u - v = d
  BY <1>1, <1>3, <1>4, <1>5, <1>8
<1>10. (u = -1 \/ n[u + 1] = ASCII_PERIOD) /\ (v = -1 \/ base[v + 1] = ASCII_PERIOD)
  <2>1. u + 1 = p /\ v + 1 = q /\ (p = 0 => u = -1) /\ (q = 0 => v = -1)
    OBVIOUS
  <2> HIDE DEF u, v
  <2> QED BY <1>3, <1>4, <2>1
<1>11. v = -1 => base[1] # ASCII_PERIOD
  <2>1. v = -1 => 1 \in (q + 1)..y
    BY <1>4
  <2> QED BY <1>4, <2>1
<1>12. ASSUME NEW i \in 1..k, i > v, i + (u - v) >= 1 PROVE N[i + (u - v)] = B[i]
  <2>1. u - v = d /\ i + d >= 1 /\ i >= q
    BY <1>9, <1>12
  <2> SUFFICES N[i + d] = B[i]
    BY <2>1
  <2>2. CASE i > y
    BY <1>1, <1>2, <2>1, <2>2
  <2>3. CASE i > q /\ i <= y
    <3>1. i - q \in 1..(x - p) /\ p + (i - q) = i + d /\ q + (i - q) = i
      BY <1>1, <1>4, <1>5, <1>8, <2>3
    <3> QED BY <1>5, <3>1
  <2>4. CASE i = q
    <3>1. q # 0 /\ p # 0 /\ i + d = p /\ p \in 1..l /\ q \in 1..k
      BY <1>1, <1>3, <1>4, <1>5, <1>8, <2>1, <2>4
    <3>2. N[p] = ASCII_PERIOD /\ B[q] = ASCII_PERIOD
      BY <1>3, <1>4, <1>6, <1>7, <3>1
    <3> QED BY <2>4, <3>1, <3>2
  <2> QED BY <1>1, <2>1, <2>2, <2>3, <2>4
<1> HIDE DEF u, v
<1>13. /\ u \in (-1)..Len(n) /\ v \in (-1)..Len(base) /\ u - v = Len(n) - Len(base)
       /\ \A i \in 1..Len(base) :
            i > v /\ i + (u - v) >= 1 => Lowered(n)[i + (u - v)] = Lowered(base)[i]
  BY <1>8, <1>9, <1>12 DEF k, l, N, B
<1>14. Walked(n, base, u, v)
  BY <1>10, <1>11, <1>13, Zenon DEF Walked
<1> QED BY <1>14 DEF u, v

\* The comparison of two labels of acceptable names.
LEMMA ComparedLabels ==
  ASSUME NEW n \in Seq(Nat), IsAcceptable(n, FALSE),
         NEW c \in Seq(Nat), IsAcceptable(c, TRUE), NEW base, base = StripPeriod(c),
         NEW x \in Nat, NEW y \in Nat, x <= Len(n), y <= Len(base),
         NEW p \in Nat, LastLabel(n, p, x), NEW q \in Nat, LastLabel(base, q, y),
         NEW f, IsLabelText(n, p, x, f), NEW g, IsLabelText(base, q, y, g)
  PROVE  case_insensitive_ascii_match(f, g) <=> SameLabel(n, base, p, x, q, y)
<1> DEFINE k == Len(base)
           l == Len(n)
<1>1. base \in Seq(Nat) /\ k <= Len(c) /\ (\A i \in 1..k : base[i] = c[i]) /\ k \in Nat
  <2>1. /\ base \in Seq(Nat) /\ \A i \in 1..k : base[i] = c[i]
        /\ k = Len(c) - 1 \/ base = c
    BY StripPeriodTyped
  <2>2. k \in Nat /\ Len(c) \in Nat
    BY <2>1
  <2>3. k = Len(c) - 1 \/ k = Len(c)
    BY <2>1
  <2> HIDE DEF k
  <2> QED BY <2>1, <2>2, <2>3
<1>2. p <= x /\ \A i \in (p + 1)..x : n[i] # ASCII_PERIOD
  <2>1. p \in 0..x
    BY DEF LastLabel
  <2>2. p <= x
    BY <2>1
  <2> QED BY <2>2 DEF LastLabel
<1>3. q <= y /\ \A i \in (q + 1)..y : base[i] # ASCII_PERIOD
  <2>1. q \in 0..y
    BY DEF LastLabel
  <2>2. q <= y
    BY <2>1
  <2> QED BY <2>2 DEF LastLabel
<1>4. /\ f \in Seq(Nat) /\ Len(f) = x - p /\ \A i \in 1..(x - p) : f[i] = n[p + i]
      /\ g \in Seq(Nat) /\ Len(g) = y - q /\ \A i \in 1..(y - q) : g[i] = base[q + i]
  BY DEF IsLabelText
<1>5. l \in Nat /\ x <= l /\ y <= k
  OBVIOUS
<1> HIDE DEF k, l
<1>6. ASSUME NEW i \in 1..(x - p) PROVE p + i \in 1..l /\ p + i \in (p + 1)..x
  BY <1>2, <1>5
<1>7. ASSUME NEW i \in 1..(y - q) PROVE q + i \in 1..k /\ q + i \in (q + 1)..y
  BY <1>1, <1>3, <1>5
<1>8. f \in Seq(WalkedByte)
  <2>1. ASSUME NEW i \in 1..(x - p) PROVE f[i] \in WalkedByte
    <3>1. p + i \in 1..Len(n) /\ n[p + i] # ASCII_PERIOD
      BY <1>2, <1>6 DEF l
    <3>2. n[p + i] \in WalkedByte
      BY <3>1, LabelBytes
    <3> QED BY <1>4, <3>2
  <2> QED BY <1>4, <2>1, SequenceOf
<1>9. g \in Seq(WalkedByte)
  <2> DEFINE lead == TRUE
  <2>0. lead \in BOOLEAN /\ IsAcceptable(c, lead)
    OBVIOUS
  <2> HIDE DEF lead
  <2>1. ASSUME NEW i \in 1..(y - q) PROVE g[i] \in WalkedByte
    <3>1. q + i \in 1..k /\ base[q + i] # ASCII_PERIOD
      BY <1>3, <1>7
    <3>2. q + i \in 1..Len(c) /\ c[q + i] # ASCII_PERIOD /\ base[q + i] = c[q + i]
      BY <1>1, <3>1
    <3>3. c[q + i] \in WalkedByte
      BY <2>0, <3>2, LabelBytes
    <3> QED BY <1>4, <3>2, <3>3
  <2> QED BY <1>4, <2>1, SequenceOf
<1>10. case_insensitive_ascii_match(f, g) <=> Lowered(f) = Lowered(g)
  BY <1>8, <1>9, MaskFoldsOnlyCase
<1> DEFINE N == Lowered(n)
           B == Lowered(base)
           F == Lowered(f)
           G == Lowered(g)
<1>11. ASSUME NEW i \in 1..(x - p) PROVE F[i] = N[p + i]
  <2>1. i \in 1..Len(f) /\ p + i \in 1..Len(n) /\ f[i] = n[p + i]
    BY <1>4, <1>6 DEF l
  <2>2. F[i] = IF f[i] \in UpperCase THEN f[i] + 32 ELSE f[i]
    BY <1>4, <2>1, LoweredByte
  <2>3. N[p + i] = IF n[p + i] \in UpperCase THEN n[p + i] + 32 ELSE n[p + i]
    BY <2>1, LoweredByte
  <2> QED BY <2>1, <2>2, <2>3
<1>12. ASSUME NEW i \in 1..(y - q) PROVE G[i] = B[q + i]
  <2>1. i \in 1..Len(g) /\ q + i \in 1..Len(base) /\ g[i] = base[q + i]
    BY <1>4, <1>7 DEF k
  <2>2. G[i] = IF g[i] \in UpperCase THEN g[i] + 32 ELSE g[i]
    BY <1>4, <2>1, LoweredByte
  <2>3. B[q + i] = IF base[q + i] \in UpperCase THEN base[q + i] + 32 ELSE base[q + i]
    BY <1>1, <2>1, LoweredByte
  <2> QED BY <2>1, <2>2, <2>3
<1>13. F \in Seq(Nat) /\ Len(F) = x - p /\ G \in Seq(Nat) /\ Len(G) = y - q
  BY <1>4, LoweredByte
<1>14. SameLabel(n, base, p, x, q, y) <=> x - p = y - q /\ \A i \in 1..(x - p) : N[p + i] = B[q + i]
  BY DEF SameLabel
<1> HIDE DEF N, B, F, G
<1>15. F = G <=> x - p = y - q /\ \A i \in 1..(x - p) : F[i] = G[i]
  <2>1. F \in Seq(Nat) /\ G \in Seq(Nat)
    BY <1>13
  <2>2. F = G <=> Len(F) = Len(G) /\ \A i \in 1..Len(F) : F[i] = G[i]
    BY <2>1, SameSequence
  <2> QED BY <1>13, <2>2
<1>16. x - p = y - q =>
         ((\A i \in 1..(x - p) : F[i] = G[i]) <=> \A i \in 1..(x - p) : N[p + i] = B[q + i])
  BY <1>11, <1>12
<1>17. F = G <=> SameLabel(n, base, p, x, q, y)
  BY <1>14, <1>15, <1>16
<1> QED BY <1>10, <1>17 DEF F, G

Walking ==
  LET base == StripPeriod(constraint)
  IN  \E x \in (-1)..Len(dns_name), y \in (-1)..Len(base) :
        /\ dns_labels = Remaining(dns_name, x)
        /\ constraint_labels = Remaining(base, y)
        /\ Walked(dns_name, base, x, y)

\* The answer is right.
Answers(answer) == Return(answer) /\ (answer <=> InDnsSubtree(dns_name, constraint))

\* An iteration of the walk answers right, or has compared one label more.
LEMMA WalkLabelsStep ==
  ASSUME dns_name \in Seq(Nat), constraint \in Seq(Nat), constraint # <<>>,
         IsAcceptable(dns_name, FALSE), IsAcceptable(constraint, TRUE),
         Walking, WalkLabels
  PROVE  \/ Answers(TRUE)
         \/ Answers(FALSE)
         \/ Walking' /\ UNCHANGED <<args, pc, dns_name, validation, matched>>
<1> DEFINE n == dns_name
           c == constraint
           body == StripPeriod(c)
           dns == NextLabel(dns_labels)
           base == NextLabel(constraint_labels)
<1>1. n \in Seq(Nat) /\ c \in Seq(Nat) /\ c # <<>> /\ IsAcceptable(n, FALSE) /\ IsAcceptable(c, TRUE)
  OBVIOUS
<1>2. body \in Seq(Nat) /\ Len(n) \in Nat /\ Len(body) \in Nat
  <2>1. body \in Seq(Nat)
    BY StripPeriodTyped
  <2> QED BY <2>1
<1>3. PICK x \in (-1)..Len(n), y \in (-1)..Len(body) :
        /\ dns_labels = Remaining(n, x)
        /\ constraint_labels = Remaining(body, y)
        /\ Walked(n, body, x, y)
  BY DEF Walking
<1>4. InDnsSubtree(n, c) <=> Covers(n, body)
  BY SubtreeByPosition
<1>5. /\ base.item = <<>> => Return(TRUE)
      /\ base.item # <<>> /\ (dns.item = <<>> \/ dns.item = <<<<>>>>) => Return(FALSE)
      /\ base.item # <<>> /\ ~(dns.item = <<>> \/ dns.item = <<<<>>>>) /\ base.item = <<<<>>>>
           => Return(base.remaining = <<>>)
      /\ base.item # <<>> /\ ~(dns.item = <<>> \/ dns.item = <<<<>>>>) /\ base.item # <<<<>>>>
         /\ ~case_insensitive_ascii_match(dns.item[1], base.item[1])
           => Return(FALSE)
      /\ base.item # <<>> /\ ~(dns.item = <<>> \/ dns.item = <<<<>>>>) /\ base.item # <<<<>>>>
         /\ case_insensitive_ascii_match(dns.item[1], base.item[1])
           => /\ dns_labels' = dns.remaining
              /\ constraint_labels' = base.remaining
              /\ UNCHANGED <<args, pc, dns_name, validation, matched>>
  BY Zenon DEF WalkLabels
<1>6. Answers(TRUE) <=> Return(TRUE) /\ Covers(n, body)
  BY <1>4 DEF Answers
<1>7. Answers(FALSE) <=> Return(FALSE) /\ ~Covers(n, body)
  BY <1>4 DEF Answers
<1>8. (x = -1 => dns_labels = <<>>) /\ (y = -1 => constraint_labels = <<>>)
  BY <1>3 DEF Remaining
<1> HIDE DEF n, c, body
<1>9. CASE y = -1
  <2>1. base.item = <<>>
    BY <1>8, <1>9 DEF NextLabel
  <2>2. Covers(n, body)
    BY <1>1, <1>2, <1>3, <1>9, ConstraintExhausted
  <2> QED BY <1>5, <1>6, <2>1, <2>2
<1>10. CASE y # -1
  <2>1. y \in Nat /\ y <= Len(body)
    BY <1>2, <1>3, <1>10
  <2>2. PICK q \in Nat : IsNextLabel(body, q, y, base)
    BY <1>2, <1>3, <2>1, NextLabelCuts
  <2>3. PICK g \in Seq(Nat) : base.item = <<g>> /\ IsLabelText(body, q, y, g)
    BY <2>2 DEF IsNextLabel
  <2>4. LastLabel(body, q, y) /\ base.remaining = Remaining(body, q - 1)
    BY <2>2 DEF IsNextLabel
  <2>5. base.item # <<>> /\ base.item[1] = g /\ (base.item = <<<<>>>> <=> g = <<>>)
    BY <2>3
  <2>6. (g = <<>> <=> q = y) /\ q <= y
    <3>1. Len(g) = y - q /\ q \in 0..y
      BY <2>3, <2>4 DEF IsLabelText, LastLabel
    <3>2. g = <<>> <=> Len(g) = 0
      OBVIOUS
    <3> QED BY <2>1, <3>1, <3>2
  <2>7. CASE x = -1
    <3>1. dns.item = <<>>
      BY <1>8, <2>7 DEF NextLabel
    <3>2. ~Covers(n, body)
      BY <1>1, <1>2, <1>3, <1>10, <2>7, NameExhausted
    <3> QED BY <1>5, <1>7, <2>5, <3>1, <3>2
  <2>8. CASE x # -1
    <3>1. x \in Nat /\ x <= Len(n)
      BY <1>2, <1>3, <2>8
    <3>2. PICK p \in Nat : IsNextLabel(n, p, x, dns)
      BY <1>1, <1>3, <3>1, NextLabelCuts
    <3>3. PICK f \in Seq(Nat) : dns.item = <<f>> /\ IsLabelText(n, p, x, f)
      BY <3>2 DEF IsNextLabel
    <3>4. LastLabel(n, p, x) /\ dns.remaining = Remaining(n, p - 1)
      BY <3>2 DEF IsNextLabel
    <3>5. dns.item # <<>> /\ dns.item[1] = f /\ (dns.item = <<<<>>>> <=> f = <<>>)
      BY <3>3
    <3>6. (f = <<>> <=> p = x) /\ p <= x
      <4>1. Len(f) = x - p /\ p \in 0..x
        BY <3>3, <3>4 DEF IsLabelText, LastLabel
      <4>2. f = <<>> <=> Len(f) = 0
        OBVIOUS
      <4> QED BY <3>1, <4>1, <4>2
    <3> HIDE DEF dns, base
    <3>7. CASE p = x
      <4>1. ~Covers(n, body)
        <5>1. LastLabel(n, x, x)
          BY <3>4, <3>7
        <5> QED BY <1>1, <1>3, <3>1, <5>1, EmptyNameLabel DEF body
      <4> QED BY <1>5, <1>7, <2>5, <3>5, <3>6, <3>7, <4>1
    <3>8. CASE p # x /\ q = y
      <4>1. y = 0 /\ Covers(n, body)
        <5>1. LastLabel(body, y, y)
          BY <2>4, <3>8
        <5> QED BY <1>1, <1>3, <2>1, <3>1, <5>1, EmptyConstraintLabel DEF body
      <4>2. base.remaining = <<>>
        <5>1. q - 1 = -1
          BY <3>8, <4>1
        <5> QED BY <2>4, <5>1 DEF Remaining
      <4>3. Return(base.remaining = <<>>)
        BY <1>5, <2>5, <2>6, <3>5, <3>6, <3>8
      <4>4. Return(TRUE)
        <5>1. (base.remaining = <<>>) = TRUE
          BY <4>2
        <5> QED BY <4>3, <5>1
      <4> QED BY <1>6, <4>1, <4>4
    <3>9. CASE p # x /\ q # y
      <4>1. case_insensitive_ascii_match(f, g) <=> SameLabel(n, body, p, x, q, y)
        BY <1>1, <2>1, <2>3, <2>4, <3>1, <3>3, <3>4, ComparedLabels DEF body
      <4>2. CASE ~SameLabel(n, body, p, x, q, y)
        <5>1. ~Covers(n, body)
          BY <1>1, <1>2, <1>3, <2>1, <2>4, <3>1, <3>4, <3>9, <4>2, CoveredLabels
        <5>2. Return(FALSE)
          BY <1>5, <2>5, <2>6, <3>5, <3>6, <3>9, <4>1, <4>2
        <5> QED BY <1>7, <5>1, <5>2
      <4>3. CASE SameLabel(n, body, p, x, q, y)
        <5>1. Walked(n, body, p - 1, q - 1)
          BY <1>1, <1>2, <1>3, <2>1, <2>4, <3>1, <3>4, <3>9, <4>3, WalkGoesOn
        <5>2. /\ dns_labels' = Remaining(n, p - 1)
              /\ constraint_labels' = Remaining(body, q - 1)
              /\ UNCHANGED <<args, pc, dns_name, validation, matched>>
          BY <1>5, <2>4, <2>5, <2>6, <3>4, <3>5, <3>6, <3>9, <4>1, <4>3
        <5>3. p - 1 \in (-1)..Len(n) /\ q - 1 \in (-1)..Len(body)
          BY <1>2, <2>1, <2>6, <3>1, <3>6
        <5>4. dns_name' = n /\ StripPeriod(constraint') = body
          BY <5>2 DEF args, n, body, c
        <5>5. Walking'
          BY <5>1, <5>2, <5>3, <5>4 DEF Walking
        <5> QED BY <5>2, <5>5
      <4> QED BY <4>2, <4>3
    <3> QED BY <3>7, <3>8, <3>9
  <2> QED BY <2>7, <2>8
<1> QED BY <1>9, <1>10

-----------------------------------------------------------------------------
(* The host of a URI: where the code cuts it is where it is.               *)

\* The bytes of a text from i to j, as a text of their own.
IsSpan(text, i, j, span) ==
  /\ span \in Seq(Nat) /\ Len(span) = j - i + 1
  /\ \A k \in 1..(j - i + 1) : span[k] = text[i + k - 1]

\* The authority is from a to z, and nothing else is.
OnlyAuthority(uri, a, z) ==
  \A b, y \in Nat : b <= y /\ y <= Len(uri) => (IsAuthority(uri, b, y) <=> b = a /\ y = z)

\* A span that ends before a byte of a set ends at the first of them.
LEMMA OneEnd ==
  ASSUME NEW uri, NEW set, NEW a \in Nat, NEW l \in Nat, NEW y \in Nat, NEW z \in Nat,
         a - 1 <= y, y <= l, a - 1 <= z, z <= l,
         Free(uri, a, y, set), y = l \/ uri[y + 1] \in set,
         Free(uri, a, z, set), z = l \/ uri[z + 1] \in set
  PROVE  y = z
<1>1. ~(y < z)
  <2>1. y < z => y + 1 \in a..z /\ y # l
    OBVIOUS
  <2> QED BY <2>1 DEF Free
<1>2. ~(z < y)
  <2>1. z < y => z + 1 \in a..y /\ z # l
    OBVIOUS
  <2> QED BY <2>1 DEF Free
<1> QED BY <1>1, <1>2

\* The authority that the code cuts out is the only one there is.
LEMMA AuthoritySpan ==
  ASSUME NEW uri \in Seq(Nat)
  PROVE  \E a, z \in Nat :
           /\ a >= 1 /\ a - 1 <= z /\ z <= Len(uri)
           /\ IsSpan(uri, a, z, Authority(uri))
           /\ OnlyAuthority(uri, a, z)
<1> DEFINE S == {i \in DOMAIN uri : OccursAt(uri, i, SchemeEnd)}
           l == Len(uri)
           after == From(uri, Min(S) + 3)
           end == FirstOf(Delimiter, after)
<1>0. l \in Nat /\ DOMAIN uri = 1..l
  OBVIOUS
<1>1. Authority(uri) = IF S = {} THEN <<>> ELSE IF end = 0 THEN after ELSE UpTo(after, end - 1)
  BY DEF Authority
<1>2. CASE S = {}
  <2>1. ASSUME NEW b \in Nat, NEW y \in Nat, IsAuthority(uri, b, y) PROVE FALSE
    <3>1. b > 3 /\ OccursAt(uri, b - 3, SchemeEnd)
      BY <2>1 DEF IsAuthority
    <3>2. b - 3 + Len(SchemeEnd) - 1 <= Len(uri) /\ Len(SchemeEnd) = 3
      BY <3>1 DEF OccursAt, SchemeEnd
    <3>3. b - 3 \in DOMAIN uri
      BY <1>0, <3>1, <3>2
    <3> QED BY <1>2, <3>1, <3>3
  <2>2. \A b, y \in Nat : b <= y /\ y <= Len(uri) => ~(b = 1 /\ y = 0)
    OBVIOUS
  <2>3. OnlyAuthority(uri, 1, 0)
    BY <2>1, <2>2 DEF OnlyAuthority
  <2>4. IsSpan(uri, 1, 0, Authority(uri))
    <3>1. Authority(uri) = <<>>
      BY <1>1, <1>2
    <3> QED BY <3>1 DEF IsSpan
  <2> QED BY <1>0, <2>3, <2>4
<1>3. CASE S # {}
  <2> DEFINE m == Min(S)
             a == m + 3
  <2>1. S \subseteq Nat
    BY <1>0
  <2>2. m \in S /\ \A i \in S : m <= i
    <3> HIDE DEF S
    <3> QED BY <1>3, <2>1, LeastNatural
  <2>3. m \in 1..l /\ OccursAt(uri, m, SchemeEnd)
    BY <1>0, <2>2
  <2>4. m + 2 <= l
    BY <2>3 DEF OccursAt, SchemeEnd
  <2>5. \A i \in 1..(m - 1) : ~OccursAt(uri, i, SchemeEnd)
    <3>1. ASSUME NEW i \in 1..(m - 1) PROVE ~OccursAt(uri, i, SchemeEnd)
      <4>1. i \in DOMAIN uri /\ ~(m <= i)
        <5> HIDE DEF m
        <5> QED BY <1>0, <2>3
      <4> HIDE DEF m
      <4> QED BY <2>2, <4>1
    <3> QED BY <3>1
  <2> HIDE DEF m, S
  <2>6. a \in Nat /\ a > 3 /\ a <= l + 1 /\ a - 3 = m
    BY <1>0, <2>3, <2>4
  <2>7. ASSUME NEW b \in Nat, b > 3, OccursAt(uri, b - 3, SchemeEnd),
               \A i \in 1..(b - 4) : ~OccursAt(uri, i, SchemeEnd)
        PROVE  b = a
    <3>1. b - 3 + Len(SchemeEnd) - 1 <= Len(uri) /\ Len(SchemeEnd) = 3
      BY <2>7 DEF OccursAt, SchemeEnd
    <3>2. b - 3 \in DOMAIN uri
      BY <1>0, <2>7, <3>1
    <3>3. m <= b - 3
      BY <2>2, <2>7, <3>2 DEF S
    <3>4. ~(m <= b - 4)
      BY <2>3, <2>7
    <3> QED BY <2>3, <3>3, <3>4
  <2>8. after = From(uri, (a - 1) + 1)
    <3>1. (a - 1) + 1 = m + 3
      BY <2>6
    <3> QED BY <3>1 DEF m
  <2>9. /\ after \in Seq(Nat) /\ Len(after) = l - (a - 1)
        /\ \A k \in 1..(l - (a - 1)) : after[k] = uri[(a - 1) + k]
    <3> DEFINE f == a - 1
    <3>1. f \in Nat /\ f <= Len(uri)
      BY <2>6
    <3> HIDE DEF f
    <3>2. /\ From(uri, f + 1) \in Seq(Nat) /\ Len(From(uri, f + 1)) = Len(uri) - f
          /\ \A k \in 1..(Len(uri) - f) : From(uri, f + 1)[k] = uri[f + k]
      BY <3>1, TailBytes
    <3>3. after = From(uri, f + 1)
      BY <2>8 DEF f
    <3> HIDE DEF after
    <3>4. /\ after \in Seq(Nat) /\ Len(after) = Len(uri) - f
          /\ \A k \in 1..(Len(uri) - f) : after[k] = uri[f + k]
      BY <3>2, <3>3, Zenon
    <3> QED BY <3>4 DEF f
  <2> HIDE DEF after, a
  <2>10. /\ end \in 0..(l - (a - 1))
         /\ end = 0 => \A i \in 1..(l - (a - 1)) : after[i] \notin Delimiter
         /\ end # 0 => after[end] \in Delimiter /\ \A i \in 1..(end - 1) : after[i] \notin Delimiter
    <3>1. /\ end \in 0..Len(after)
          /\ end = 0 => \A i \in 1..Len(after) : after[i] \notin Delimiter
          /\ end # 0 => after[end] \in Delimiter /\ \A i \in 1..(end - 1) : after[i] \notin Delimiter
      BY <2>9, FirstOfPosition
    <3> QED BY <2>9, <3>1
  <2>11. Authority(uri) = IF end = 0 THEN after ELSE UpTo(after, end - 1)
    BY <1>1, <1>3
  <2> HIDE DEF end
  <2>12. PICK z \in Nat :
           /\ a - 1 <= z /\ z <= l
           /\ IsSpan(uri, a, z, Authority(uri))
           /\ Free(uri, a, z, Delimiter) /\ (z = l \/ uri[z + 1] \in Delimiter)
    <3>1. CASE end = 0
      <4>1. ASSUME NEW i \in a..l PROVE uri[i] \notin Delimiter
        <5>1. i - (a - 1) \in 1..(l - (a - 1)) /\ (a - 1) + (i - (a - 1)) = i
          BY <1>0, <2>6
        <5> QED BY <2>9, <2>10, <3>1, <5>1
      <4>2. IsSpan(uri, a, l, Authority(uri))
        <5>1. l - (a - 1) = l - a + 1 /\ \A k \in 1..(l - a + 1) : (a - 1) + k = a + k - 1
          BY <1>0, <2>6
        <5> QED BY <2>9, <2>11, <3>1, <5>1 DEF IsSpan
      <4>3. Free(uri, a, l, Delimiter)
        BY <4>1 DEF Free
      <4>4. l \in Nat /\ a - 1 <= l /\ l <= l
        BY <1>0, <2>6
      <4>5. l = l
        OBVIOUS
      <4> HIDE DEF l
      <4> QED BY <4>2, <4>3, <4>4, <4>5, Zenon
    <3>2. CASE end # 0
      <4> DEFINE z == (a - 1) + (end - 1)
      <4>1. /\ z \in Nat /\ a - 1 <= z /\ z <= l /\ z < l
            /\ end \in 1..(l - (a - 1)) /\ z + 1 = (a - 1) + end
            /\ end - 1 = z - a + 1 /\ end - 1 \in Nat
        BY <1>0, <2>6, <2>10, <3>2
      <4> HIDE DEF z
      <4>2. uri[z + 1] \in Delimiter
        BY <2>9, <2>10, <3>2, <4>1
      <4>3. ASSUME NEW i \in a..z PROVE uri[i] \notin Delimiter
        <5>1. i - (a - 1) \in 1..(end - 1) /\ i - (a - 1) \in 1..(l - (a - 1)) /\ (a - 1) + (i - (a - 1)) = i
          BY <1>0, <2>6, <4>1
        <5> QED BY <2>9, <2>10, <3>2, <5>1
      <4>4. IsSpan(uri, a, z, Authority(uri))
        <5>1. end - 1 <= Len(after)
          BY <1>0, <2>6, <2>9, <4>1
        <5>2. /\ UpTo(after, end - 1) \in Seq(Nat) /\ Len(UpTo(after, end - 1)) = end - 1
              /\ \A k \in 1..(end - 1) : UpTo(after, end - 1)[k] = after[k]
          BY <2>9, <4>1, <5>1, UpToTyped
        <5>3. ASSUME NEW k \in 1..(z - a + 1) PROVE UpTo(after, end - 1)[k] = uri[a + k - 1]
          <6>1. k \in 1..(end - 1) /\ k \in 1..(l - (a - 1)) /\ (a - 1) + k = a + k - 1
            BY <1>0, <2>6, <4>1
          <6> QED BY <2>9, <5>2, <6>1
        <5> QED BY <2>11, <3>2, <4>1, <5>2, <5>3 DEF IsSpan
      <4>5. Free(uri, a, z, Delimiter)
        BY <4>3 DEF Free
      <4> QED BY <4>1, <4>2, <4>4, <4>5
    <3> QED BY <3>1, <3>2
  <2>13. ASSUME NEW b \in Nat, NEW y \in Nat, b <= y, y <= l
         PROVE  IsAuthority(uri, b, y) <=> b = a /\ y = z
    <3>1. ASSUME IsAuthority(uri, b, y) PROVE b = a /\ y = z
      <4>1. b = a
        BY <2>7, <3>1 DEF IsAuthority
      <4>2. Free(uri, a, y, Delimiter) /\ (y = l \/ uri[y + 1] \in Delimiter)
        BY <3>1, <4>1 DEF IsAuthority
      <4>3. a - 1 <= y
        BY <2>6, <2>13, <4>1
      <4> HIDE DEF l
      <4>4. y = z
        BY <1>0, <2>6, <2>12, <2>13, <4>2, <4>3, OneEnd
      <4> QED BY <4>1, <4>4
    <3>2. ASSUME b = a, y = z PROVE IsAuthority(uri, b, y)
      <4>1. a - 4 = m - 1
        BY <2>3, <2>6
      <4> QED BY <2>3, <2>5, <2>6, <2>12, <3>2, <4>1 DEF IsAuthority
    <3> QED BY <3>1, <3>2
  <2>14. OnlyAuthority(uri, a, z)
    BY <2>13 DEF OnlyAuthority
  <2>15. a >= 1
    BY <2>6
  <2> QED BY <2>6, <2>12, <2>14, <2>15
<1> QED BY <1>2, <1>3

OnlyHostAndPort(uri, h, z) ==
  \A g, y \in Nat : g <= y /\ y <= Len(uri) => (IsHostAndPort(uri, g, y) <=> g = h /\ y = z)

OnlyHost(uri, i, j) ==
  \A p, q \in Nat : p <= q /\ q <= Len(uri) => (IsHost(uri, p, q) <=> p = i /\ q = j)

\* A span that begins after a byte of a set begins after the last of them.
LEMMA OneStart ==
  ASSUME NEW uri, NEW set, NEW a \in Nat, NEW z \in Nat, NEW g \in Nat, NEW h \in Nat,
         a <= g, g <= z + 1, a <= h, h <= z + 1,
         Free(uri, g, z, set), g = a \/ uri[g - 1] \in set,
         Free(uri, h, z, set), h = a \/ uri[h - 1] \in set
  PROVE  g = h
<1>1. ~(g < h)
  <2>1. g < h => h - 1 \in g..z /\ h # a
    OBVIOUS
  <2> QED BY <2>1 DEF Free
<1>2. ~(h < g)
  <2>1. h < g => g - 1 \in h..z /\ g # a
    OBVIOUS
  <2> QED BY <2>1 DEF Free
<1> QED BY <1>1, <1>2

\* The host ends at q: nothing is left for a port, or the last colon follows.
EndsHost(uri, h, z, q) ==
  \/ q = z /\ Free(uri, h, z, {ASCII_COLON})
  \/ q < z /\ uri[q + 1] = ASCII_COLON /\ Free(uri, q + 2, z, {ASCII_COLON})

\* There is one place where a host without brackets ends.
LEMMA OneHostEnd ==
  ASSUME NEW uri, NEW h \in Nat, NEW z \in Nat, NEW y \in Nat, NEW q \in Nat,
         h - 1 <= y, h - 1 <= q, EndsHost(uri, h, z, y), EndsHost(uri, h, z, q)
  PROVE  y = q
<1>1. ASSUME NEW x \in Nat, h - 1 <= x, x < z, uri[x + 1] = ASCII_COLON,
             Free(uri, h, z, {ASCII_COLON})
      PROVE  FALSE
  <2>1. x + 1 \in h..z
    BY <1>1
  <2> QED BY <1>1, <2>1 DEF Free
<1>2. ASSUME NEW x \in Nat, NEW w \in Nat, x < w, w < z, uri[w + 1] = ASCII_COLON,
             Free(uri, x + 2, z, {ASCII_COLON})
      PROVE  FALSE
  <2>1. w + 1 \in (x + 2)..z
    BY <1>2
  <2> QED BY <1>2, <2>1 DEF Free
<1>3. ~(y < q)
  BY <1>1, <1>2 DEF EndsHost
<1>4. ~(q < y)
  BY <1>1, <1>2 DEF EndsHost
<1> QED BY <1>3, <1>4

\* What the code cuts off after the last at sign is the host with its port.
LEMMA HostAndPortSpan ==
  ASSUME NEW uri \in Seq(Nat), NEW a \in Nat, NEW z \in Nat, NEW authority,
         a >= 1, a - 1 <= z, z <= Len(uri),
         IsSpan(uri, a, z, authority), OnlyAuthority(uri, a, z)
  PROVE  \E h \in Nat : /\ h >= 1 /\ h - 1 <= z
                        /\ IsSpan(uri, h, z, HostAndPort(authority))
                        /\ OnlyHostAndPort(uri, h, z)
<1> DEFINE at == LastOf(ASCII_AT, authority)
           n == z - a + 1
           h == a + at
           l == Len(uri)
<1>0. n \in Nat /\ l \in Nat /\ z <= l
  OBVIOUS
<1>1. authority \in Seq(Nat) /\ Len(authority) = n /\ \A k \in 1..n : authority[k] = uri[a + k - 1]
  BY DEF IsSpan
<1>2. /\ at \in 0..n /\ (at # 0 => authority[at] = ASCII_AT)
      /\ \A i \in (at + 1)..n : authority[i] # ASCII_AT
  <2>1. /\ at \in 0..Len(authority) /\ (at # 0 => authority[at] = ASCII_AT)
        /\ \A i \in (at + 1)..Len(authority) : authority[i] # ASCII_AT
    BY <1>1, LastOfPosition
  <2> HIDE DEF at, n
  <2> QED BY <1>1, <2>1
<1> HIDE DEF l
<1>3. HostAndPort(authority) = From(authority, at + 1)
  BY DEF HostAndPort
<1> HIDE DEF at
<1>4. h \in Nat /\ h >= 1 /\ a <= h /\ h - 1 <= z /\ z - h + 1 = n - at
  BY <1>2
<1>5. IsSpan(uri, h, z, HostAndPort(authority))
  <2>1. /\ From(authority, at + 1) \in Seq(Nat) /\ Len(From(authority, at + 1)) = n - at
        /\ \A k \in 1..(n - at) : From(authority, at + 1)[k] = authority[at + k]
    <3>1. at \in Nat /\ at <= Len(authority)
      BY <1>0, <1>1, <1>2
    <3> HIDE DEF n
    <3> QED BY <1>1, <3>1, TailBytes
  <2>2. \A k \in 1..(n - at) : at + k \in 1..n /\ a + (at + k) - 1 = h + k - 1
    BY <1>2
  <2> HIDE DEF n, h
  <2>3. \A k \in 1..(n - at) : From(authority, at + 1)[k] = uri[h + k - 1]
    BY <1>1, <2>1, <2>2
  <2> QED BY <1>3, <1>4, <2>1, <2>3 DEF IsSpan
<1>6. Free(uri, h, z, {ASCII_AT})
  <2>1. \A i \in h..z : i - a + 1 \in (at + 1)..n /\ i - a + 1 \in 1..n /\ a + (i - a + 1) - 1 = i
    BY <1>2, <1>4
  <2> HIDE DEF n, h
  <2> QED BY <1>1, <1>2, <2>1 DEF Free
<1>7. h = a \/ uri[h - 1] = ASCII_AT
  <2>1. CASE at = 0
    BY <2>1
  <2>2. CASE at # 0
    <3>1. at \in 1..n /\ a + at - 1 = h - 1
      BY <1>2, <2>2
    <3> HIDE DEF n, h
    <3> QED BY <1>1, <1>2, <2>2, <3>1
  <2> QED BY <2>1, <2>2
<1> HIDE DEF h
<1>8. ASSUME NEW g \in Nat, NEW y \in Nat, g <= y, y <= l, IsHostAndPort(uri, g, y)
      PROVE  g = h /\ y = z
  <2>1. PICK b \in 1..g : /\ IsAuthority(uri, b, y) /\ (g = b \/ uri[g - 1] = ASCII_AT)
                          /\ Free(uri, g, y, {ASCII_AT})
    BY <1>8 DEF IsHostAndPort
  <2>2. b \in Nat /\ b <= g /\ b <= y
    BY <1>8, <2>1
  <2>3. b = a /\ y = z
    BY <1>8, <2>1, <2>2 DEF OnlyAuthority, l
  <2>4. a <= g /\ g <= z + 1 /\ h <= z + 1
    BY <1>4, <1>8, <2>2, <2>3
  <2>5. Free(uri, g, z, {ASCII_AT}) /\ (g = a \/ uri[g - 1] \in {ASCII_AT}) /\ (h = a \/ uri[h - 1] \in {ASCII_AT})
    BY <1>7, <2>1, <2>3
  <2>6. g = h
    BY <1>4, <1>6, <2>4, <2>5, OneStart
  <2> QED BY <2>3, <2>6
<1>9. ASSUME h <= z PROVE IsHostAndPort(uri, h, z)
  <2>1. a <= z /\ a \in 1..h
    BY <1>4, <1>9
  <2>2. IsAuthority(uri, a, z)
    BY <2>1 DEF OnlyAuthority
  <2> QED BY <1>6, <1>7, <2>1, <2>2 DEF IsHostAndPort
<1>10. OnlyHostAndPort(uri, h, z)
  BY <1>8, <1>9 DEF OnlyHostAndPort, l
<1> QED BY <1>4, <1>5, <1>10

\* What the code cuts out of that is the host, in brackets or before the port.
LEMMA HostSpan ==
  ASSUME NEW uri \in Seq(Nat), NEW h \in Nat, NEW z \in Nat, NEW host_and_port,
         h >= 1, h - 1 <= z, z <= Len(uri),
         IsSpan(uri, h, z, host_and_port), OnlyHostAndPort(uri, h, z)
  PROVE  \E i, j \in Nat : /\ i >= 1 /\ i - 1 <= j /\ j <= Len(uri)
                           /\ IsSpan(uri, i, j, Host(host_and_port))
                           /\ OnlyHost(uri, i, j)
<1> DEFINE hp == host_and_port
           n == z - h + 1
           l == Len(uri)
           end == FirstOf({ASCII_CLOSE_BRACKET}, hp)
           colon == LastOf(ASCII_COLON, hp)
<1>0. n \in Nat /\ l \in Nat /\ z <= l
  OBVIOUS
<1>1. hp \in Seq(Nat) /\ Len(hp) = n /\ \A k \in 1..n : hp[k] = uri[h + k - 1]
  BY DEF IsSpan
<1>2. Host(hp) = IF hp # <<>> /\ Head(hp) = ASCII_OPEN_BRACKET
                   THEN SubSeq(hp, 2, end - 1)
                   ELSE IF colon = 0 THEN hp ELSE UpTo(hp, colon - 1)
  BY DEF Host
<1>3. /\ end \in 0..n
      /\ end = 0 => \A i \in 1..n : hp[i] # ASCII_CLOSE_BRACKET
      /\ end # 0 => /\ hp[end] = ASCII_CLOSE_BRACKET
                    /\ \A i \in 1..(end - 1) : hp[i] # ASCII_CLOSE_BRACKET
  <2>1. /\ end \in 0..Len(hp)
        /\ end = 0 => \A i \in 1..Len(hp) : hp[i] \notin {ASCII_CLOSE_BRACKET}
        /\ end # 0 => /\ hp[end] \in {ASCII_CLOSE_BRACKET}
                      /\ \A i \in 1..(end - 1) : hp[i] \notin {ASCII_CLOSE_BRACKET}
    BY <1>1, FirstOfPosition
  <2> HIDE DEF end, n, hp
  <2> QED BY <1>1, <2>1
<1>4. /\ colon \in 0..n /\ (colon # 0 => hp[colon] = ASCII_COLON)
      /\ \A i \in (colon + 1)..n : hp[i] # ASCII_COLON
  <2>1. /\ colon \in 0..Len(hp) /\ (colon # 0 => hp[colon] = ASCII_COLON)
        /\ \A i \in (colon + 1)..Len(hp) : hp[i] # ASCII_COLON
    BY <1>1, LastOfPosition
  <2> HIDE DEF colon, n, hp
  <2> QED BY <1>1, <2>1
<1> HIDE DEF end, colon, l
<1>5. ASSUME NEW p \in Nat, NEW q \in Nat, p <= q, q <= l, IsHost(uri, p, q)
      PROVE  \/ /\ p = h + 1 /\ q < z /\ h <= z /\ uri[h] = ASCII_OPEN_BRACKET
                /\ uri[q + 1] = ASCII_CLOSE_BRACKET /\ Free(uri, h + 1, q, {ASCII_CLOSE_BRACKET})
             \/ p = h /\ h <= z /\ uri[h] # ASCII_OPEN_BRACKET /\ EndsHost(uri, h, z, q)
  <2>1. PICK y \in q..l :
          \/ /\ p > 1 /\ uri[p - 1] = ASCII_OPEN_BRACKET
             /\ IsHostAndPort(uri, p - 1, y)
             /\ q < y /\ uri[q + 1] = ASCII_CLOSE_BRACKET
             /\ Free(uri, p, q, {ASCII_CLOSE_BRACKET})
          \/ /\ uri[p] # ASCII_OPEN_BRACKET
             /\ IsHostAndPort(uri, p, y)
             /\ EndsHost(uri, p, y, q)
    BY <1>5 DEF IsHost, EndsHost, l
  <2>2. y \in Nat /\ p <= y /\ y <= l /\ p - 1 <= y /\ (p > 1 => p - 1 \in Nat)
    BY <1>0, <1>5, <2>1
  <2>3. ASSUME NEW g \in Nat, g <= y, IsHostAndPort(uri, g, y) PROVE g = h /\ y = z
    BY <2>2, <2>3 DEF OnlyHostAndPort, l
  <2>4. CASE p > 1 /\ uri[p - 1] = ASCII_OPEN_BRACKET /\ IsHostAndPort(uri, p - 1, y)
             /\ q < y /\ uri[q + 1] = ASCII_CLOSE_BRACKET /\ Free(uri, p, q, {ASCII_CLOSE_BRACKET})
    <3>1. p - 1 = h /\ y = z
      BY <2>2, <2>3, <2>4
    <3>2. p = h + 1 /\ h <= z
      BY <2>2, <3>1
    <3> QED BY <2>4, <3>1, <3>2
  <2>5. CASE uri[p] # ASCII_OPEN_BRACKET /\ IsHostAndPort(uri, p, y) /\ EndsHost(uri, p, y, q)
    <3>1. p = h /\ y = z
      BY <2>2, <2>3, <2>5
    <3>2. h <= z
      BY <2>2, <3>1
    <3> QED BY <2>5, <3>1, <3>2
  <2> QED BY <2>1, <2>4, <2>5
<1>6. ASSUME h <= z PROVE IsHostAndPort(uri, h, z)
  BY <1>0, <1>6 DEF OnlyHostAndPort
<1>7. CASE n = 0
  <2>1. hp = <<>>
    BY <1>1, <1>7
  <2>2. Host(hp) = <<>>
    BY <1>2, <1>4, <1>7, <2>1
  <2>3. IsSpan(uri, 1, 0, Host(hp))
    BY <2>2 DEF IsSpan
  <2>4. ~(h <= z)
    BY <1>7
  <2>5. OnlyHost(uri, 1, 0)
    BY <1>5, <2>4 DEF OnlyHost, l
  <2> QED BY <1>0, <2>3, <2>5 DEF l
<1>8. CASE n # 0 /\ uri[h] = ASCII_OPEN_BRACKET /\ end = 0
  <2>1. hp # <<>> /\ Head(hp) = hp[1] /\ hp[1] = uri[h] /\ h <= z
    BY <1>0, <1>1, <1>8
  <2>2. Host(hp) = <<>>
    <3>1. Host(hp) = SubSeq(hp, 2, 0 - 1)
      BY <1>2, <1>8, <2>1
    <3> QED BY <1>1, <3>1
  <2>3. IsSpan(uri, 1, 0, Host(hp))
    BY <2>2 DEF IsSpan
  <2>4. ASSUME NEW q \in Nat, h + 1 <= q, q < z PROVE uri[q + 1] # ASCII_CLOSE_BRACKET
    <3>1. (q + 1) - h + 1 \in 1..n /\ h + ((q + 1) - h + 1) - 1 = q + 1
      BY <2>4
    <3> HIDE DEF n, hp
    <3> QED BY <1>1, <1>3, <1>8, <3>1
  <2>5. ASSUME NEW p \in Nat, NEW q \in Nat, p <= q, q <= l, IsHost(uri, p, q) PROVE FALSE
    <3>1. /\ p = h + 1 /\ q < z /\ uri[q + 1] = ASCII_CLOSE_BRACKET
      BY <1>5, <1>8, <2>5
    <3> QED BY <2>4, <2>5, <3>1
  <2>6. OnlyHost(uri, 1, 0)
    BY <2>5 DEF OnlyHost, l
  <2> QED BY <1>0, <2>3, <2>6 DEF l
<1>9. CASE n # 0 /\ uri[h] = ASCII_OPEN_BRACKET /\ end # 0
  <2> DEFINE i == h + 1
             j == h + end - 2
  <2>1. hp # <<>> /\ Head(hp) = hp[1] /\ hp[1] = uri[h] /\ h <= z
    BY <1>0, <1>1, <1>9
  <2>2. end # 1
    BY <1>3, <1>9, <2>1 DEF ASCII_OPEN_BRACKET, ASCII_CLOSE_BRACKET
  <2>3. end \in 2..n
    <3> HIDE DEF n
    <3> QED BY <1>0, <1>3, <1>9, <2>2
  <2>4. /\ i \in Nat /\ j \in Nat /\ i >= 1 /\ i - 1 <= j /\ j < z /\ j <= l
        /\ j - i + 1 = end - 2
    BY <1>0, <2>3
  <2>5. Host(hp) = SubSeq(hp, 2, end - 1)
    BY <1>2, <1>9, <2>1
  <2>6. IsSpan(uri, i, j, Host(hp))
    <3>1. /\ SubSeq(hp, 2, end - 1) \in Seq(Nat) /\ Len(SubSeq(hp, 2, end - 1)) = end - 2
          /\ \A k \in 1..(end - 2) : SubSeq(hp, 2, end - 1)[k] = hp[k + 1]
      <4> HIDE DEF n, hp
      <4> QED BY <1>0, <1>1, <2>3
    <3>2. \A k \in 1..(end - 2) : k + 1 \in 1..n /\ h + (k + 1) - 1 = i + k - 1
      BY <2>3
    <3>3. \A k \in 1..(end - 2) : SubSeq(hp, 2, end - 1)[k] = uri[i + k - 1]
      <4> HIDE DEF n, hp, i
      <4> QED BY <1>1, <3>1, <3>2
    <3> HIDE DEF i, j
    <3> QED BY <2>4, <2>5, <3>1, <3>3 DEF IsSpan
  <2>7. uri[j + 1] = ASCII_CLOSE_BRACKET
    <3>1. end \in 1..n /\ h + end - 1 = j + 1
      BY <2>3
    <3> HIDE DEF n, j, hp
    <3> QED BY <1>1, <1>3, <1>9, <3>1
  <2>8. Free(uri, i, j, {ASCII_CLOSE_BRACKET})
    <3>1. \A x \in i..j : x - h + 1 \in 1..(end - 1) /\ x - h + 1 \in 1..n /\ h + (x - h + 1) - 1 = x
      BY <2>3
    <3> HIDE DEF n, i, j, hp
    <3> QED BY <1>1, <1>3, <1>9, <3>1 DEF Free
  <2> HIDE DEF j
  <2>9. ASSUME NEW p \in Nat, NEW q \in Nat, p <= q, q <= l, IsHost(uri, p, q)
        PROVE  p = i /\ q = j
    <3>1. /\ p = i /\ q < z /\ uri[q + 1] \in {ASCII_CLOSE_BRACKET}
          /\ Free(uri, i, q, {ASCII_CLOSE_BRACKET})
      BY <1>5, <1>9, <2>9
    <3>2. i - 1 <= q /\ q <= z /\ j <= z /\ uri[j + 1] \in {ASCII_CLOSE_BRACKET}
      BY <2>4, <2>7, <2>9, <3>1
    <3> HIDE DEF i
    <3>3. q = j
      BY <2>4, <2>8, <2>9, <3>1, <3>2, OneEnd
    <3> QED BY <3>1, <3>3
  <2>10. ASSUME i <= j PROVE IsHost(uri, i, j)
    <3>1. z \in j..Len(uri) /\ i > 1 /\ i - 1 = h
      BY <2>4
    <3> HIDE DEF i
    <3> QED BY <1>6, <1>9, <2>1, <2>4, <2>7, <2>8, <3>1 DEF IsHost
  <2> HIDE DEF i
  <2>11. OnlyHost(uri, i, j)
    BY <2>9, <2>10 DEF OnlyHost, l
  <2> QED BY <2>4, <2>6, <2>11 DEF l
<1>10. CASE n # 0 /\ uri[h] # ASCII_OPEN_BRACKET
  <2>1. hp # <<>> /\ Head(hp) = hp[1] /\ hp[1] = uri[h] /\ h <= z
    BY <1>0, <1>1, <1>10
  <2>2. Host(hp) = IF colon = 0 THEN hp ELSE UpTo(hp, colon - 1)
    BY <1>2, <1>10, <2>1
  <2>3. PICK j \in Nat : /\ h - 1 <= j /\ j <= z /\ EndsHost(uri, h, z, j)
                         /\ IsSpan(uri, h, j, Host(hp))
    <3>1. CASE colon = 0
      <4>1. \A x \in h..z : x - h + 1 \in (0 + 1)..n /\ x - h + 1 \in 1..n /\ h + (x - h + 1) - 1 = x
        OBVIOUS
      <4>2. Free(uri, h, z, {ASCII_COLON})
        <5> HIDE DEF n, hp
        <5> QED BY <1>1, <1>4, <3>1, <4>1 DEF Free
      <4>3. IsSpan(uri, h, z, Host(hp))
        BY <2>2, <3>1
      <4>4. h - 1 <= z /\ z <= z /\ EndsHost(uri, h, z, z)
        BY <4>2 DEF EndsHost
      <4> QED BY <4>3, <4>4
    <3>2. CASE colon # 0
      <4> DEFINE y == h + colon - 2
      <4>1. /\ colon \in 1..n /\ y \in Nat /\ h - 1 <= y /\ y <= z /\ y < z /\ colon - 1 \in Nat
            /\ colon - 1 <= n /\ y - h + 1 = colon - 1 /\ h + colon - 1 = y + 1
        BY <1>4, <3>2
      <4>2. uri[y + 1] = ASCII_COLON
        <5> HIDE DEF n, y, hp
        <5> QED BY <1>1, <1>4, <3>2, <4>1
      <4>3. Free(uri, y + 2, z, {ASCII_COLON})
        <5>1. \A x \in (y + 2)..z : x - h + 1 \in (colon + 1)..n /\ x - h + 1 \in 1..n
                                     /\ h + (x - h + 1) - 1 = x
          BY <4>1
        <5> HIDE DEF n, y, hp
        <5> QED BY <1>1, <1>4, <5>1 DEF Free
      <4>4. IsSpan(uri, h, y, Host(hp))
        <5>1. /\ UpTo(hp, colon - 1) \in Seq(Nat) /\ Len(UpTo(hp, colon - 1)) = colon - 1
              /\ \A k \in 1..(colon - 1) : UpTo(hp, colon - 1)[k] = hp[k]
          <6> HIDE DEF n, y, hp
          <6> QED BY <1>1, <4>1, UpToTyped
        <5>2. \A k \in 1..(colon - 1) : k \in 1..n
          BY <4>1
        <5> HIDE DEF n, y, hp
        <5>3. \A k \in 1..(colon - 1) : UpTo(hp, colon - 1)[k] = uri[h + k - 1]
          BY <1>1, <5>1, <5>2
        <5> QED BY <2>2, <3>2, <4>1, <5>1, <5>3 DEF IsSpan
      <4>5. EndsHost(uri, h, z, y)
        BY <4>1, <4>2, <4>3 DEF EndsHost
      <4> HIDE DEF y
      <4> QED BY <4>1, <4>4, <4>5
    <3> QED BY <3>1, <3>2
  <2>4. ASSUME NEW p \in Nat, NEW q \in Nat, p <= q, q <= l, IsHost(uri, p, q)
        PROVE  p = h /\ q = j
    <3>1. p = h /\ EndsHost(uri, h, z, q)
      BY <1>5, <1>10, <2>4
    <3>2. h - 1 <= q
      BY <2>4, <3>1
    <3>3. q = j
      BY <2>3, <2>4, <3>1, <3>2, OneHostEnd
    <3> QED BY <3>1, <3>3
  <2>5. ASSUME h <= j PROVE IsHost(uri, h, j)
    <3>1. z \in j..Len(uri)
      BY <2>3
    <3>2. \/ j = z /\ Free(uri, h, z, {ASCII_COLON})
          \/ /\ j < z /\ uri[j + 1] = ASCII_COLON
             /\ Free(uri, j + 2, z, {ASCII_COLON})
      BY <2>3 DEF EndsHost
    <3> QED BY <1>6, <1>10, <2>1, <3>1, <3>2 DEF IsHost
  <2>6. OnlyHost(uri, h, j)
    BY <2>4, <2>5 DEF OnlyHost, l
  <2>7. j <= Len(uri)
    BY <1>0, <2>3 DEF l
  <2> QED BY <2>3, <2>6, <2>7
<1> QED BY <1>7, <1>8, <1>9, <1>10

\* The host that the code cuts out of a URI is the only one there is.
LEMMA HostIsSpan ==
  ASSUME NEW uri \in Seq(Nat)
  PROVE  \E i, j \in Nat : /\ i >= 1 /\ i - 1 <= j /\ j <= Len(uri)
                           /\ IsSpan(uri, i, j, Host(HostAndPort(Authority(uri))))
                           /\ OnlyHost(uri, i, j)
<1>1. PICK a, z \in Nat : /\ a >= 1 /\ a - 1 <= z /\ z <= Len(uri)
                          /\ IsSpan(uri, a, z, Authority(uri)) /\ OnlyAuthority(uri, a, z)
  BY AuthoritySpan
<1>2. PICK h \in Nat : /\ h >= 1 /\ h - 1 <= z
                       /\ IsSpan(uri, h, z, HostAndPort(Authority(uri)))
                       /\ OnlyHostAndPort(uri, h, z)
  BY <1>1, HostAndPortSpan
<1> QED BY <1>1, <1>2, HostSpan

\* A URI is in a subtree if that host is.
LEMMA UriSubtree ==
  ASSUME NEW uri \in Seq(Nat), NEW c \in Seq(Nat), NEW host,
         host = Host(HostAndPort(Authority(uri)))
  PROVE  /\ host \in Seq(Nat)
         /\ InUriSubtree(uri, c) <=> host # <<>> /\ InDnsSubtree(host, c)
<1>1. PICK i, j \in Nat : /\ i >= 1 /\ i - 1 <= j /\ j <= Len(uri)
                          /\ IsSpan(uri, i, j, host) /\ OnlyHost(uri, i, j)
  BY HostIsSpan
<1>2. /\ host \in Seq(Nat) /\ Len(host) = j - i + 1
      /\ \A k \in 1..(j - i + 1) : host[k] = uri[i + k - 1]
  BY <1>1 DEF IsSpan
<1>3. \A p, q \in DOMAIN uri : p \in Nat /\ q \in Nat /\ q <= Len(uri)
  OBVIOUS
<1>4. \A p, q \in DOMAIN uri : p <= q => (IsHost(uri, p, q) <=> p = i /\ q = j)
  BY <1>1, <1>3 DEF OnlyHost
<1>5. CASE j < i
  <2>1. host = <<>>
    BY <1>1, <1>2, <1>5
  <2>2. \A p, q \in DOMAIN uri : p <= q => ~(p = i /\ q = j)
    BY <1>1, <1>5
  <2>3. ~InUriSubtree(uri, c)
    BY <1>4, <2>2 DEF InUriSubtree
  <2> QED BY <1>2, <2>1, <2>3
<1>6. CASE i <= j
  <2>1. i \in DOMAIN uri /\ j \in DOMAIN uri
    BY <1>1, <1>6
  <2>2. host # <<>>
    BY <1>1, <1>2, <1>6
  <2>3. SubSeq(uri, i, j) = host
    <3> DEFINE part == SubSeq(uri, i, j)
    <3>1. part \in Seq(Nat) /\ Len(part) = j - i + 1 /\ \A k \in 1..(j - i + 1) : part[k] = uri[i + k - 1]
      <4>1. i \in Nat \ {0} /\ j \in Nat /\ j <= Len(uri) /\ i <= j
        BY <1>1, <1>6
      <4> QED BY <4>1, SpanTyped
    <3> HIDE DEF part
    <3> QED BY <1>2, <3>1, SameSequence
  <2>4. InUriSubtree(uri, c) <=> InDnsSubtree(SubSeq(uri, i, j), c)
    BY <1>4, <1>6, <2>1, Zenon DEF InUriSubtree
  <2> QED BY <1>2, <2>2, <2>3, <2>4
<1> QED BY <1>1, <1>5, <1>6

\* Two bytes that validation does not tell apart, and two such texts.
SameClass(x, y) ==
  /\ x \in LabelByte <=> y \in LabelByte
  /\ x \in Numeric <=> y \in Numeric
  /\ x = ASCII_PERIOD <=> y = ASCII_PERIOD
  /\ x = ASCII_HYPHEN <=> y = ASCII_HYPHEN
  /\ x = ASCII_ASTERISK <=> y = ASCII_ASTERISK

Alike(t, u) == Len(t) = Len(u) /\ \A i \in 1..Len(t) : SameClass(t[i], u[i])

\* A period at the end of one of two such texts is at the end of both.
LEMMA AlikeBodies ==
  ASSUME NEW t \in Seq(Nat), NEW u \in Seq(Nat), Alike(t, u)
  PROVE  Alike(StripPeriod(t), StripPeriod(u))
<1> DEFINE l == Len(t)
           bt == StripPeriod(t)
           bu == StripPeriod(u)
<1>1. l \in Nat /\ Len(u) = l /\ (l # 0 => SameClass(t[l], u[l])) /\ (t = <<>> <=> l = 0) /\ (u = <<>> <=> l = 0)
  BY DEF Alike
<1>2. /\ bt \in Seq(Nat) /\ \A i \in 1..Len(bt) : bt[i] = t[i]
      /\ \/ t # <<>> /\ t[l] = ASCII_PERIOD /\ Len(bt) = l - 1
         \/ (t = <<>> \/ t[l] # ASCII_PERIOD) /\ bt = t
  BY StripPeriodTyped
<1>3. /\ bu \in Seq(Nat) /\ \A i \in 1..Len(bu) : bu[i] = u[i]
      /\ \/ u # <<>> /\ u[l] = ASCII_PERIOD /\ Len(bu) = l - 1
         \/ (u = <<>> \/ u[l] # ASCII_PERIOD) /\ bu = u
  BY <1>1, StripPeriodTyped
<1> HIDE DEF bt, bu
<1>4. Len(bt) = Len(bu) /\ Len(bt) <= l /\ Len(bt) \in Nat
  BY <1>1, <1>2, <1>3 DEF SameClass
<1>5. \A i \in 1..Len(bt) : i \in 1..l
  BY <1>1, <1>4
<1>6. \A i \in 1..Len(bt) : SameClass(bt[i], bu[i])
  BY <1>2, <1>3, <1>4, <1>5 DEF Alike
<1> QED BY <1>4, <1>6 DEF Alike, bt, bu

\* Such texts are acceptable together.
LEMMA AlikeAcceptable ==
  ASSUME NEW t \in Seq(Nat), NEW u \in Seq(Nat), Alike(t, u),
         NEW may_lead \in BOOLEAN, IsAcceptable(t, may_lead)
  PROVE  IsAcceptable(u, may_lead)
<1> DEFINE a == StripPeriod(t)
           b == StripPeriod(u)
           l == Len(a)
           M == MAXIMUM_LABEL_LENGTH
<1>1. Len(t) = Len(u) /\ (t = <<>> <=> u = <<>>)
  BY DEF Alike
<1>2. a \in Seq(Nat) /\ b \in Seq(Nat) /\ Alike(a, b)
  BY AlikeBodies, StripPeriodTyped
<1>3. Len(t) <= MAXIMUM_NAME_LENGTH /\ (t # <<>> =>
         WellEnded(a) /\ (\A i \in 1..Len(a) : MayStand(a, i, may_lead) /\ EndsInTime(a, i)) /\ EnoughLabels(a))
  BY AcceptableParts
<1> HIDE DEF a, b
<1>4. l \in Nat /\ Len(b) = l /\ (\A i \in 1..l : SameClass(a[i], b[i])) /\ M \in Nat /\ M >= 1
  BY <1>2, LimitAssumption DEF Alike
<1>5. ASSUME t # <<>> PROVE WellEnded(b)
  <2>1. PICK i \in 1..l : a[i] \notin Numeric /\ \A j \in i..l : a[j] # ASCII_PERIOD
    BY <1>3, <1>5 DEF WellEnded
  <2>2. a # <<>> /\ a[l] # ASCII_PERIOD
    BY <1>3, <1>5 DEF WellEnded
  <2>3. l \in 1..l /\ b # <<>>
    BY <1>2, <1>4, <2>2
  <2>4. \A j \in i..l : j \in 1..l
    BY <1>4, <2>1
  <2> HIDE DEF l
  <2>5. b[l] # ASCII_PERIOD /\ b[i] \notin Numeric /\ \A j \in i..l : b[j] # ASCII_PERIOD
    BY <1>4, <2>1, <2>2, <2>3, <2>4 DEF SameClass, l
  <2> QED BY <1>4, <2>1, <2>3, <2>5 DEF WellEnded
<1>6. ASSUME NEW i \in 1..l, MayStand(a, i, may_lead) PROVE MayStand(b, i, may_lead)
  <2>1. /\ SameClass(a[i], b[i])
        /\ i > 1 => SameClass(a[i - 1], b[i - 1])
        /\ i < l => SameClass(a[i + 1], b[i + 1])
    BY <1>4, <1>6
  <2> QED BY <1>4, <1>6, <2>1 DEF MayStand, SameClass
<1>7. ASSUME NEW i \in 1..l, EndsInTime(a, i) PROVE EndsInTime(b, i)
  <2>1. CASE i + M <= l
    <3>1. PICK j \in i..(i + M) : a[j] = ASCII_PERIOD
      BY <1>7, <2>1 DEF EndsInTime
    <3>2. j \in 1..l
      BY <1>4, <1>7, <2>1, <3>1
    <3>3. b[j] = ASCII_PERIOD
      BY <1>4, <3>1, <3>2 DEF SameClass
    <3> QED BY <3>1, <3>3 DEF EndsInTime
  <2>2. CASE ~(i + M <= l)
    BY <1>4, <2>2 DEF EndsInTime
  <2> QED BY <2>1, <2>2
<1>8. ASSUME t # <<>> PROVE EnoughLabels(b)
  <2>1. EnoughLabels(a) /\ a # <<>>
    BY <1>3, <1>8 DEF WellEnded
  <2>2. 1 \in 1..l
    BY <1>2, <2>1
  <2>3. b[1] = ASCII_ASTERISK => a[1] = ASCII_ASTERISK
    BY <1>4, <2>2 DEF SameClass
  <2>4. ASSUME a[1] = ASCII_ASTERISK
        PROVE  2 <= l /\ b[2] = ASCII_PERIOD /\ \E j \in 3..l : b[j] = ASCII_PERIOD
    <3>1. 2 <= l /\ a[2] = ASCII_PERIOD /\ \E j \in 3..l : a[j] = ASCII_PERIOD
      BY <2>1, <2>4 DEF EnoughLabels
    <3>2. 2 \in 1..l /\ \A j \in 3..l : j \in 1..l
      BY <1>4, <3>1
    <3> HIDE DEF l
    <3> QED BY <1>4, <3>1, <3>2 DEF SameClass
  <2> QED BY <1>4, <2>3, <2>4 DEF EnoughLabels
<1>9. u # <<>> => /\ WellEnded(b)
                  /\ \A i \in 1..Len(b) : MayStand(b, i, may_lead) /\ EndsInTime(b, i)
                  /\ EnoughLabels(b)
  BY <1>1, <1>3, <1>4, <1>5, <1>6, <1>7, <1>8
<1>10. b = StripPeriod(u)
  BY DEF b
<1> QED BY <1>1, <1>3, <1>9, <1>10, AcceptableParts

\* Lowering a text changes nothing that validation can tell.
LEMMA LoweredAlike ==
  ASSUME NEW t \in Seq(Nat)
  PROVE  Alike(t, Lowered(t)) /\ Alike(Lowered(t), t) /\ Lowered(Lowered(t)) = Lowered(t)
<1> DEFINE u == Lowered(t)
           v == Lowered(u)
           l == Len(t)
<1>1. /\ u \in Seq(Nat) /\ Len(u) = l /\ l \in Nat
      /\ \A i \in 1..l : u[i] = IF t[i] \in UpperCase THEN t[i] + 32 ELSE t[i]
  BY LoweredByte
<1>2. \A i \in 1..l : t[i] \in Nat
  OBVIOUS
<1> HIDE DEF u
<1>3. /\ v \in Seq(Nat) /\ Len(v) = l
      /\ \A i \in 1..l : v[i] = IF u[i] \in UpperCase THEN u[i] + 32 ELSE u[i]
  BY <1>1, LoweredByte
<1> HIDE DEF v, l
<1>4. ASSUME NEW x \in Nat, NEW y, y = IF x \in UpperCase THEN x + 32 ELSE x
      PROVE  SameClass(x, y) /\ SameClass(y, x) /\ y \notin UpperCase
  BY <1>4 DEF SameClass, UpperCase, LabelByte, Letter, Numeric, ASCII_PERIOD, ASCII_HYPHEN,
          ASCII_ASTERISK, ASCII_UNDERSCORE
<1>5. \A i \in 1..l : SameClass(t[i], u[i]) /\ SameClass(u[i], t[i]) /\ v[i] = u[i]
  BY <1>1, <1>2, <1>3, <1>4
<1>6. v = u
  BY <1>1, <1>3, <1>5, SameSequence
<1> QED BY <1>1, <1>5, <1>6 DEF Alike, l, u, v

\* The case of a name does not matter to a subtree.
LEMMA CaseOfNameIgnored ==
  ASSUME NEW t \in Seq(Nat), NEW c
  PROVE  InDnsSubtree(Lowered(t), c) <=> InDnsSubtree(t, c)
<1>1. Lowered(t) \in Seq(Nat)
  BY LoweredByte
<1>2. IsAcceptable(t, FALSE) <=> IsAcceptable(Lowered(t), FALSE)
  BY <1>1, LoweredAlike, AlikeAcceptable
<1>3. Lowered(Lowered(t)) = Lowered(t)
  BY LoweredAlike
<1> QED BY <1>2, <1>3, Zenon DEF InDnsSubtree

\* No text of an IP address is an acceptable DNS name: one has colons, the other
\* a last label of digits.
LEMMA NoAddressIsName ==
  ASSUME NEW host \in Seq(Nat), is_ip_address(host)
  PROVE  ~IsAcceptable(host, FALSE)
<1> DEFINE l == Len(host)
<1>0. l \in Nat /\ DOMAIN host = 1..l
  OBVIOUS
<1>1. CASE host \in Ipv6Text
  <2>1. PICK i \in 1..l : host[i] = ASCII_COLON
    BY <1>0, <1>1, Ipv6TextAssumption
  <2>2. ASCII_COLON \notin WalkedByte /\ ASCII_COLON # ASCII_PERIOD
    BY ByteValues DEF WalkedByte
  <2>3. ASSUME IsAcceptable(host, FALSE) PROVE FALSE
    BY <2>1, <2>2, <2>3, LabelBytes
  <2> QED BY <2>3
<1>2. CASE IsIpv4Text(host)
  <2>1. PICK i, j, k \in 1..l : i < j /\ j < k /\ host[k] = ASCII_PERIOD /\ IsDecimalOctet(From(host, k + 1))
    BY <1>0, <1>2 DEF IsIpv4Text
  <2>2. k \in Nat /\ k <= Len(host) /\ k >= 2 /\ k >= 1
    BY <1>0, <2>1
  <2>3. /\ From(host, k + 1) \in Seq(Nat) /\ Len(From(host, k + 1)) = l - k
        /\ \A m \in 1..(l - k) : From(host, k + 1)[m] = host[k + m]
    BY <2>2, TailBytes
  <2>4. l - k \in 1..3 /\ \A m \in 1..(l - k) : From(host, k + 1)[m] \in Numeric
    <3> DEFINE d == From(host, k + 1)
    <3>1. Len(d) \in 1..3 /\ \A m \in DOMAIN d : d[m] \in Numeric
      BY <2>1 DEF IsDecimalOctet
    <3>2. d \in Seq(Nat) /\ Len(d) = l - k
      BY <2>3
    <3> HIDE DEF d, l
    <3>3. DOMAIN d = 1..(l - k)
      BY <3>2
    <3> QED BY <3>1, <3>2, <3>3 DEF d
  <2>5. \A x \in (k + 1)..l : x - k \in 1..(l - k) /\ k + (x - k) = x
    <3> HIDE DEF l
    <3>1. k \in Nat
      BY <2>2
    <3> QED BY <1>0, <3>1
  <2>6. \A x \in (k + 1)..l : host[x] \in Numeric
    <3> HIDE DEF l
    <3> QED BY <2>3, <2>4, <2>5
  <2>7. \A x \in (k + 1)..l : host[x] # ASCII_PERIOD
    BY <2>6, ByteValues
  <2>8. k \in 0..(l - 1) /\ l \in k..l /\ l >= l - 1
    <3> HIDE DEF l
    <3>1. k \in Nat /\ l - k \in 1..3
      BY <2>2, <2>4
    <3> QED BY <1>0, <3>1
  <2>9. IsLabelOf(host, k, l)
    BY <2>1, <2>7, <2>8 DEF IsLabelOf
  <2>10. IsBadAt(host, k, l, FALSE)
    BY <2>6, <2>8 DEF IsBadAt
  <2> HIDE DEF l
  <2> QED BY <2>2, <2>9, <2>10, BadLabelRejected
<1> QED BY <1>1, <1>2 DEF is_ip_address

\* The host that the code cuts out decides.
LEMMA UriByHost ==
  ASSUME NEW uri \in Seq(Nat), NEW c \in Seq(Nat), NEW host, host = extract_host(uri)
  PROVE  /\ host \in Seq(Nat)
         /\ host = <<>> \/ is_ip_address(host) => ~InUriSubtree(uri, c)
         /\ host # <<>> => (InUriSubtree(uri, c) <=> InDnsSubtree(host, c))
<1> DEFINE raw == Host(HostAndPort(Authority(uri)))
<1>1. raw \in Seq(Nat) /\ (InUriSubtree(uri, c) <=> raw # <<>> /\ InDnsSubtree(raw, c))
  BY UriSubtree
<1>2. host = Lowered(raw)
  BY DEF extract_host
<1> HIDE DEF raw
<1>3. host \in Seq(Nat) /\ Len(host) = Len(raw)
  BY <1>1, <1>2, LoweredByte
<1>4. host = <<>> <=> raw = <<>>
  BY <1>1, <1>3
<1>5. InDnsSubtree(host, c) <=> InDnsSubtree(raw, c)
  BY <1>1, <1>2, CaseOfNameIgnored
<1>6. is_ip_address(host) => ~InDnsSubtree(host, c)
  BY <1>3, NoAddressIsName DEF InDnsSubtree
<1> QED BY <1>1, <1>3, <1>4, <1>5, <1>6

-----------------------------------------------------------------------------
(* The loops end.                                                          *)

\* What the cursors are: a text that is cut shorter, and at most one text.
Inv ==
  /\ kind \in {"dns", "uri", "ip"}
  /\ pc \in {"called", "validate", "labels", "walk", "returned"}
  /\ is_constraint \in BOOLEAN
  /\ kind # "ip" => name \in Seq(Nat) /\ constraint \in Seq(Nat)
  /\ kind = "ip" => name \in Seq(Octet) /\ constraint \in Seq(Octet)
  /\ pc # "called" /\ pc # "returned" => kind # "ip"
  /\ dns_name \in Seq(Nat)
  /\ bytes \in Seq(Nat)
  /\ constraint_labels = <<>> \/ \E text \in Seq(Nat) : constraint_labels = <<text>>

\* The iterator shrinks with every label, down to nothing.
LEMMA NextLabelShrinks ==
  ASSUME NEW base \in Seq(Nat)
  PROVE  LET r == NextLabel(<<base>>).remaining
         IN  \/ r = <<>>
             \/ \E text \in Seq(Nat) : r = <<text>> /\ Len(text) < Len(base)
<1> DEFINE p == LastOf(ASCII_PERIOD, base)
<1>1. p \in 0..Len(base)
  BY LastOfPosition
<1>2. NextLabel(<<base>>).remaining = IF p = 0 THEN <<>> ELSE <<UpTo(base, p - 1)>>
  BY DEF NextLabel
<1>3. p # 0 => UpTo(base, p - 1) \in Seq(Nat) /\ Len(UpTo(base, p - 1)) < Len(base)
  <2> HIDE DEF p
  <2>1. ASSUME p # 0 PROVE p - 1 \in Nat /\ p - 1 <= Len(base) /\ p - 1 < Len(base)
    BY <1>1, <2>1
  <2> QED BY <2>1, UpToTyped
<1> HIDE DEF p
<1> QED BY <1>2, <1>3

\* What a comparison may never do: go back, or stay without using anything up.
Progress == Phase' > Phase \/ (Phase' = Phase /\ Left' < Left)

\* Returning ends the comparison.
LEMMA ReturnStep ==
  ASSUME Inv, pc # "returned", NEW answer, Return(answer)
  PROVE  Inv' /\ Progress
<1>1. Inv'
  BY DEF Inv, Return, args, validation, iterators
<1>2. Phase' = 6 /\ Phase \in 0..5
  BY DEF Inv, Return, Phase
<1> QED BY <1>1, <1>2 DEF Progress

\* Calling dns_name_matches_constraint begins the first pass.
LEMMA CompareStep ==
  ASSUME Inv, pc = "called", kind # "ip", NEW n \in Seq(Nat), CompareAsDnsName(n)
  PROVE  Inv' /\ Progress
<1>1. Inv'
  BY DEF Inv, CompareAsDnsName, args, validation, iterators
<1>2. Phase' \in {1, 3} /\ Phase = 0
  BY DEF Inv, CompareAsDnsName, Phase
<1> QED BY <1>1, <1>2 DEF Progress

\* Every step keeps the types and comes closer to the end.
LEMMA NextProgresses ==
  ASSUME Inv, Next
  PROVE  Inv' /\ Progress
<1>1. CASE MatchDnsName
  BY <1>1, CompareStep DEF MatchDnsName, Inv
<1>2. CASE MatchUri
  <2> DEFINE host == extract_host(name)
  <2>1. name \in Seq(Nat) /\ kind # "ip" /\ pc = "called"
    BY <1>2 DEF MatchUri, Inv
  <2>2. host \in Seq(Nat)
    BY <2>1, UriByHost DEF Inv
  <2>3. Return(FALSE) \/ CompareAsDnsName(host)
    BY <1>2 DEF MatchUri
  <2> HIDE DEF host
  <2> QED BY <2>1, <2>2, <2>3, CompareStep, ReturnStep
<1>3. CASE MatchIpAddress
  BY <1>3, ReturnStep DEF MatchIpAddress
<1>4. CASE BeginValidation
  <2> DEFINE n == IF is_constraint THEN constraint ELSE dns_name
  <2>1. n \in Seq(Nat)
    BY <1>4 DEF BeginValidation, Inv
  <2>2. CASE Return(FALSE)
    BY <1>4, <2>2, ReturnStep DEF BeginValidation
  <2>3. CASE ~Return(FALSE)
    <3>1. /\ pc = "validate" /\ pc' = "labels"
          /\ bytes' \in {n, From(n, 3)}
          /\ bytes' = From(n, 3) => bytes' = n \/ Len(n) > 1
          /\ UNCHANGED <<args, dns_name, is_constraint, iterators, matched>>
      BY <1>4, <2>3 DEF BeginValidation
    <3>2. bytes' \in Seq(Nat)
      <4> HIDE DEF n
      <4> QED BY <2>1, <3>1, FromTyped
    <3>3. Inv'
      BY <3>1, <3>2 DEF Inv, args, iterators
    <3>4. Phase' = Phase + 1 /\ Phase \in {1, 3}
      BY <3>1 DEF Phase
    <3> QED BY <3>3, <3>4 DEF Progress
  <2> QED BY <2>2, <2>3
<1>5. CASE ValidateLabel
  <2> DEFINE p == FirstOf({ASCII_PERIOD}, bytes)
             rest == IF p = 0 THEN <<>> ELSE From(bytes, p + 1)
  <2>1. CASE Return(FALSE)
    BY <1>5, <2>1, ReturnStep DEF ValidateLabel
  <2>2. CASE ~Return(FALSE)
    <3>1. /\ pc = "labels" /\ bytes # <<>> /\ bytes' = rest
          /\ UNCHANGED <<args, pc, dns_name, is_constraint, is_wildcard, iterators, matched>>
      BY <1>5, <2>2 DEF ValidateLabel
    <3>2. bytes \in Seq(Nat)
      BY DEF Inv
    <3>3. p \in 0..Len(bytes)
      BY <3>2, FirstOfPosition
    <3>4. rest \in Seq(Nat) /\ Len(rest) < Len(bytes)
      <4> HIDE DEF p
      <4> QED BY <3>1, <3>2, <3>3, FromTyped
    <3> HIDE DEF rest
    <3>5. Inv'
      BY <3>1, <3>4 DEF Inv, args, iterators
    <3>6. Phase' = Phase /\ Left' < Left
      BY <3>1, <3>4 DEF Phase, Left
    <3> QED BY <3>5, <3>6 DEF Progress
  <2> QED BY <2>1, <2>2
<1>6. CASE RejectWildcard
  BY <1>6, ReturnStep DEF RejectWildcard
<1>7. CASE NameIsValid
  <2>1. Inv'
    BY <1>7 DEF NameIsValid, Inv, args, iterators
  <2>2. Phase' = 3 /\ Phase = 2
    BY <1>7 DEF NameIsValid, Phase
  <2> QED BY <2>1, <2>2 DEF Progress
<1>8. CASE ConstraintIsValid
  <2>1. CASE constraint = <<>>
    BY <1>8, <2>1, ReturnStep DEF ConstraintIsValid
  <2>2. CASE constraint # <<>>
    <3>1. StripPeriod(constraint) \in Seq(Nat)
      BY <1>8, StripPeriodTyped DEF ConstraintIsValid, Inv
    <3>2. Inv'
      BY <1>8, <2>2, <3>1 DEF ConstraintIsValid, Inv, args, validation
    <3>3. Phase' = 5 /\ Phase = 4
      BY <1>8, <2>2 DEF ConstraintIsValid, Phase
    <3> QED BY <3>2, <3>3 DEF Progress
  <2> QED BY <2>1, <2>2
<1>9. CASE WalkLabels
  <2> DEFINE dns == NextLabel(dns_labels)
             base == NextLabel(constraint_labels)
  <2>1. CASE \E answer : Return(answer)
    BY <1>9, <2>1, ReturnStep DEF WalkLabels
  <2>2. CASE ~\E answer : Return(answer)
    <3>1. /\ pc = "walk" /\ base.item # <<>>
          /\ constraint_labels' = base.remaining
          /\ UNCHANGED <<args, pc, dns_name, validation, matched>>
      BY <1>9, <2>2, Zenon DEF WalkLabels
    <3>2. constraint_labels # <<>>
      BY <3>1 DEF NextLabel
    <3>3. PICK text \in Seq(Nat) : constraint_labels = <<text>>
      BY <3>2 DEF Inv
    <3>4. \/ constraint_labels' = <<>>
          \/ \E t \in Seq(Nat) : constraint_labels' = <<t>> /\ Len(t) < Len(text)
      BY <3>1, <3>3, NextLabelShrinks, Zenon
    <3>5. Inv'
      BY <3>1, <3>4 DEF Inv, args, validation
    <3>6. Left = Len(text) + 1
      BY <3>1, <3>3 DEF Left
    <3>7. Left' < Left
      BY <3>1, <3>3, <3>4, <3>6 DEF Left
    <3>8. Phase' = Phase
      BY <3>1 DEF Phase
    <3> QED BY <3>5, <3>7, <3>8 DEF Progress
  <2> QED BY <2>1, <2>2
<1> QED BY <1>1, <1>2, <1>3, <1>4, <1>5, <1>6, <1>7, <1>8, <1>9 DEF Next

\* The types hold of every question.
LEMMA InitiallyTyped ==
  ASSUME Init
  PROVE  Inv
<1>1. PICK q \in Questions :
        kind = q.kind /\ name \in q.names /\ constraint \in q.constraints
  BY DEF Init
<1>2. kind \in {"dns", "uri", "ip"}
  BY <1>1, QuestionAssumption
<1>3. kind # "ip" => name \in Seq(Nat) /\ constraint \in Seq(Nat)
  BY <1>1, QuestionAssumption, Zenon
<1>4. kind = "ip" => name \in Seq(Octet) /\ constraint \in Seq(Octet)
  BY <1>1, QuestionAssumption, Zenon
<1>5. /\ pc = "called" /\ is_constraint = FALSE
      /\ dns_name = <<>> /\ bytes = <<>> /\ constraint_labels = <<>>
  BY DEF Init
<1>6. <<>> \in Seq(Nat)
  OBVIOUS
<1> QED BY <1>2, <1>3, <1>4, <1>5, <1>6, Zenon DEF Inv

\* Every comparison ends, for names and constraints of any length: each step is
\* one towards a later phase, or takes something from what its loop has left.
THEOREM ComparisonAlwaysProgresses == Spec => EveryStepProgresses
<1>1. Init => Inv
  BY InitiallyTyped
<1>2. Inv /\ [Next]_vars => Inv'
  <2>1. Inv /\ Next => Inv'
    BY NextProgresses
  <2>2. Inv /\ UNCHANGED vars => Inv'
    BY DEF Inv, vars, args, validation, iterators
  <2> QED BY <2>1, <2>2
<1>3. Inv /\ [Next]_vars => [Progress]_vars
  BY NextProgresses
<1> QED BY <1>1, <1>2, <1>3, PTL DEF Spec, EveryStepProgresses, Progress

-----------------------------------------------------------------------------
(* The answer.                                                             *)

\* The question has become one of two DNS names; the name, once it has been
\* validated, is acceptable; and the loops are where their parts say they are.
MatchInvariant ==
  /\ pc = "called" => ~is_constraint
  /\ pc \in {"validate", "labels", "walk"} =>
       /\ InSubtreeOfKind(kind, name, constraint) <=> InDnsSubtree(dns_name, constraint)
       /\ is_constraint => IsAcceptable(dns_name, FALSE)
  /\ pc = "labels" => Validating
  /\ pc = "walk" =>
       /\ is_constraint /\ IsAcceptable(constraint, TRUE) /\ constraint # <<>>
       /\ Walking
  /\ MatchCorrect

\* An answer that is right keeps the invariant.
LEMMA AnswerStep ==
  ASSUME NEW answer \in BOOLEAN, Return(answer),
         answer <=> InSubtreeOfKind(kind, name, constraint)
  PROVE  MatchInvariant'
<1>1. pc' = "returned" /\ matched' = answer /\ UNCHANGED <<kind, name, constraint>>
  BY DEF Return, args
<1>2. InSubtreeOfKind(kind, name, constraint)' <=> InSubtreeOfKind(kind, name, constraint)
  BY <1>1, Zenon
<1>3. InSubtreeOfKind(kind, name, constraint)' \in BOOLEAN
  BY DEF InSubtreeOfKind
<1>4. matched' = InSubtreeOfKind(kind, name, constraint)'
  BY <1>1, <1>2, <1>3
<1>5. MatchCorrect'
  BY <1>4 DEF MatchCorrect
<1>6. ~(pc' = "called") /\ ~(pc' \in {"validate", "labels", "walk"}) /\ ~(pc' = "labels") /\ ~(pc' = "walk")
  BY <1>1
<1> QED BY <1>5, <1>6, Zenon DEF MatchInvariant

\* So does a FALSE for two names that are compared.
LEMMA RejectStep ==
  ASSUME MatchInvariant, pc \in {"validate", "labels", "walk"}, Return(FALSE),
         ~InDnsSubtree(dns_name, constraint)
  PROVE  MatchInvariant'
<1>1. ~InSubtreeOfKind(kind, name, constraint)
  BY DEF MatchInvariant
<1> DEFINE answer == FALSE
<1>2. answer \in BOOLEAN /\ Return(answer) /\ (answer <=> InSubtreeOfKind(kind, name, constraint))
  BY <1>1
<1> HIDE DEF answer
<1> QED BY <1>2, AnswerStep

\* So does a TRUE.
LEMMA AcceptStep ==
  ASSUME MatchInvariant, pc \in {"validate", "labels", "walk"}, Return(TRUE),
         InDnsSubtree(dns_name, constraint)
  PROVE  MatchInvariant'
<1>1. InSubtreeOfKind(kind, name, constraint)
  BY DEF MatchInvariant
<1> DEFINE answer == TRUE
<1>2. answer \in BOOLEAN /\ Return(answer) /\ (answer <=> InSubtreeOfKind(kind, name, constraint))
  BY <1>1
<1> HIDE DEF answer
<1> QED BY <1>2, AnswerStep

\* A name or a constraint that is not acceptable decides the question.
LEMMA SubjectRejected ==
  ASSUME is_constraint \in BOOLEAN, ~IsAcceptable(Subject, is_constraint)
  PROVE  ~InDnsSubtree(dns_name, constraint)
<1>1. CASE is_constraint = TRUE
  BY <1>1 DEF Subject, InDnsSubtree
<1>2. CASE is_constraint = FALSE
  BY <1>2 DEF Subject, InDnsSubtree
<1> QED BY <1>1, <1>2

\* A call with a name that stands for the question keeps the invariant.
LEMMA CompareCorrectly ==
  ASSUME MatchInvariant, pc = "called", NEW n, CompareAsDnsName(n),
         InSubtreeOfKind(kind, name, constraint) <=> InDnsSubtree(n, constraint)
  PROVE  MatchInvariant'
<1>1. pc' = "validate" /\ dns_name' = n /\ UNCHANGED <<kind, name, constraint, is_constraint>>
  BY DEF CompareAsDnsName, args, validation
<1>2. ~is_constraint
  BY DEF MatchInvariant
<1>3. (InSubtreeOfKind(kind, name, constraint) <=> InDnsSubtree(dns_name, constraint))'
  BY <1>1, Zenon
<1>4. ~(pc' = "called") /\ ~(pc' = "labels") /\ ~(pc' = "walk") /\ ~(pc' = "returned")
  BY <1>1
<1> QED BY <1>1, <1>2, <1>3, <1>4, Zenon DEF MatchInvariant, MatchCorrect

\* Every step keeps the invariant.
LEMMA NextAnswersCorrectly ==
  ASSUME Inv, MatchInvariant, Next
  PROVE  MatchInvariant'
<1>0. ASSUME pc \in {"validate", "labels", "walk"}
      PROVE  /\ dns_name \in Seq(Nat) /\ constraint \in Seq(Nat) /\ Subject \in Seq(Nat)
             /\ is_constraint \in BOOLEAN
  BY <1>0 DEF Inv, Subject
<1>1. CASE MatchDnsName
  <2>1. pc = "called" /\ CompareAsDnsName(name)
    BY <1>1 DEF MatchDnsName
  <2>2. InSubtreeOfKind(kind, name, constraint) <=> InDnsSubtree(name, constraint)
    BY <1>1 DEF MatchDnsName, InSubtreeOfKind
  <2> QED BY <2>1, <2>2, CompareCorrectly
<1>2. CASE MatchUri
  <2> DEFINE host == extract_host(name)
  <2>1. pc = "called" /\ kind = "uri" /\ name \in Seq(Nat) /\ constraint \in Seq(Nat)
    BY <1>2 DEF MatchUri, Inv
  <2>2. \/ (host = <<>> \/ is_ip_address(host)) /\ Return(FALSE)
        \/ host # <<>> /\ CompareAsDnsName(host)
    BY <1>2, Zenon DEF MatchUri
  <2>3. InSubtreeOfKind(kind, name, constraint) <=> InUriSubtree(name, constraint)
    BY <2>1 DEF InSubtreeOfKind
  <2>4. /\ host = <<>> \/ is_ip_address(host) => ~InUriSubtree(name, constraint)
        /\ host # <<>> => (InUriSubtree(name, constraint) <=> InDnsSubtree(host, constraint))
    BY <2>1, UriByHost
  <2> HIDE DEF host
  <2>5. CASE (host = <<>> \/ is_ip_address(host)) /\ Return(FALSE)
    <3> DEFINE answer == FALSE
    <3>1. answer \in BOOLEAN /\ Return(answer) /\ (answer <=> InSubtreeOfKind(kind, name, constraint))
      BY <2>3, <2>4, <2>5
    <3> HIDE DEF answer
    <3> QED BY <3>1, AnswerStep
  <2>6. CASE host # <<>> /\ CompareAsDnsName(host)
    BY <2>1, <2>3, <2>4, <2>6, CompareCorrectly
  <2> QED BY <2>2, <2>5, <2>6
<1>3. CASE MatchIpAddress
  <2> DEFINE answer == ip_address_matches_constraint(name, constraint)
  <2>1. kind = "ip" /\ Return(answer) /\ name \in Seq(Octet) /\ constraint \in Seq(Octet)
    BY <1>3 DEF MatchIpAddress, Inv
  <2>2. answer \in BOOLEAN
    BY DEF ip_address_matches_constraint
  <2>3. InSubtreeOfKind(kind, name, constraint) <=> InIpSubtree(name, constraint)
    BY <2>1 DEF InSubtreeOfKind
  <2>4. answer <=> InIpSubtree(name, constraint)
    BY <2>1, AddressMatch
  <2> HIDE DEF answer
  <2> QED BY <2>1, <2>2, <2>3, <2>4, AnswerStep
<1>4. CASE BeginValidation
  <2>1. pc = "validate"
    BY <1>4 DEF BeginValidation
  <2>2. \/ Return(FALSE) /\ ~IsAcceptable(Subject, is_constraint)
        \/ /\ pc' = "labels" /\ Validating'
           /\ UNCHANGED <<args, dns_name, is_constraint, iterators, matched>>
    BY <1>0, <1>4, <2>1, BeginValidationStep
  <2>3. CASE Return(FALSE) /\ ~IsAcceptable(Subject, is_constraint)
    BY <1>0, <2>1, <2>3, SubjectRejected, RejectStep
  <2>4. CASE /\ pc' = "labels" /\ Validating'
             /\ UNCHANGED <<args, dns_name, is_constraint, iterators, matched>>
    <3>1. /\ InSubtreeOfKind(kind, name, constraint) <=> InDnsSubtree(dns_name, constraint)
          /\ is_constraint => IsAcceptable(dns_name, FALSE)
      BY <2>1 DEF MatchInvariant
    <3>2. UNCHANGED <<kind, name, constraint, dns_name, is_constraint>>
      BY <2>4 DEF args
    <3>3. (InSubtreeOfKind(kind, name, constraint) <=> InDnsSubtree(dns_name, constraint))'
      BY <3>1, <3>2, Zenon
    <3>4. (is_constraint => IsAcceptable(dns_name, FALSE))'
      BY <3>1, <3>2, Zenon
    <3>5. ~(pc' = "called") /\ ~(pc' = "walk") /\ ~(pc' = "returned")
      BY <2>4
    <3> QED BY <2>4, <3>3, <3>4, <3>5, Zenon DEF MatchInvariant, MatchCorrect
  <2> QED BY <2>2, <2>3, <2>4
<1>5. CASE ValidateLabel
  <2>1. pc = "labels"
    BY <1>5 DEF ValidateLabel
  <2>2. Validating
    BY <2>1 DEF MatchInvariant
  <2>3. \/ Return(FALSE) /\ ~IsAcceptable(Subject, is_constraint)
        \/ /\ Validating'
           /\ UNCHANGED <<args, pc, dns_name, is_constraint, is_wildcard, iterators, matched>>
    BY <1>0, <1>5, <2>1, <2>2, ValidateLabelStep
  <2>4. CASE Return(FALSE) /\ ~IsAcceptable(Subject, is_constraint)
    BY <1>0, <2>1, <2>4, SubjectRejected, RejectStep
  <2>5. CASE /\ Validating'
             /\ UNCHANGED <<args, pc, dns_name, is_constraint, is_wildcard, iterators, matched>>
    <3>1. /\ InSubtreeOfKind(kind, name, constraint) <=> InDnsSubtree(dns_name, constraint)
          /\ is_constraint => IsAcceptable(dns_name, FALSE)
      BY <2>1 DEF MatchInvariant
    <3>2. UNCHANGED <<kind, name, constraint, dns_name, is_constraint>>
      BY <2>5 DEF args
    <3>3. (InSubtreeOfKind(kind, name, constraint) <=> InDnsSubtree(dns_name, constraint))'
      BY <3>1, <3>2, Zenon
    <3>4. (is_constraint => IsAcceptable(dns_name, FALSE))'
      BY <3>1, <3>2, Zenon
    <3>5. ~(pc' = "called") /\ ~(pc' = "walk") /\ ~(pc' = "returned")
      BY <2>1, <2>5
    <3> QED BY <2>5, <3>3, <3>4, <3>5, Zenon DEF MatchInvariant, MatchCorrect
  <2> QED BY <2>3, <2>4, <2>5
<1>6. CASE RejectWildcard
  <2>1. pc = "labels" /\ bytes = <<>> /\ TooFewLabels /\ Return(FALSE)
    BY <1>6 DEF RejectWildcard
  <2>2. Validating
    BY <2>1 DEF MatchInvariant
  <2>3. ~IsAcceptable(Subject, is_constraint)
    BY <1>0, <2>1, <2>2, ValidationEnds
  <2> QED BY <1>0, <2>1, <2>3, SubjectRejected, RejectStep
<1>7. CASE NameIsValid
  <2>1. /\ pc = "labels" /\ bytes = <<>> /\ ~TooFewLabels /\ ~is_constraint
        /\ pc' = "validate" /\ is_constraint' = TRUE
        /\ UNCHANGED <<kind, name, constraint, dns_name>>
    BY <1>7 DEF NameIsValid, args
  <2>2. /\ Validating
        /\ InSubtreeOfKind(kind, name, constraint) <=> InDnsSubtree(dns_name, constraint)
    BY <2>1 DEF MatchInvariant
  <2>3. IsAcceptable(Subject, is_constraint)
    BY <1>0, <2>1, <2>2, ValidationEnds
  <2>4. IsAcceptable(dns_name, FALSE)
    <3>1. is_constraint = FALSE /\ Subject = dns_name
      BY <1>0, <2>1 DEF Subject
    <3> QED BY <2>3, <3>1
  <2>5. (InSubtreeOfKind(kind, name, constraint) <=> InDnsSubtree(dns_name, constraint))'
    BY <2>1, <2>2, Zenon
  <2>6. IsAcceptable(dns_name, FALSE)'
    BY <2>1, <2>4, Zenon
  <2>7. ~(pc' = "called") /\ ~(pc' = "labels") /\ ~(pc' = "walk") /\ ~(pc' = "returned")
    BY <2>1
  <2> QED BY <2>5, <2>6, <2>7, Zenon DEF MatchInvariant, MatchCorrect
<1>8. CASE ConstraintIsValid
  <2>1. pc = "labels" /\ bytes = <<>> /\ ~TooFewLabels /\ is_constraint
    BY <1>8 DEF ConstraintIsValid
  <2>2. /\ Validating /\ IsAcceptable(dns_name, FALSE)
        /\ InSubtreeOfKind(kind, name, constraint) <=> InDnsSubtree(dns_name, constraint)
    BY <2>1 DEF MatchInvariant
  <2>3. IsAcceptable(Subject, is_constraint)
    BY <1>0, <2>1, <2>2, ValidationEnds
  <2>4. IsAcceptable(constraint, TRUE)
    <3>1. is_constraint = TRUE /\ Subject = constraint
      BY <1>0, <2>1 DEF Subject
    <3> QED BY <2>3, <3>1
  <2>5. CASE constraint = <<>>
    <3>1. Return(TRUE)
      BY <1>8, <2>5 DEF ConstraintIsValid
    <3>2. InDnsSubtree(dns_name, constraint)
      BY <2>2, <2>4, <2>5, Zenon DEF InDnsSubtree
    <3> QED BY <2>1, <3>1, <3>2, AcceptStep
  <2>6. CASE constraint # <<>>
    <3> DEFINE base == StripPeriod(constraint)
    <3>1. /\ pc' = "walk" /\ dns_labels' = <<dns_name>> /\ constraint_labels' = <<base>>
          /\ UNCHANGED <<args, dns_name, validation, matched>>
      BY <1>8, <2>6 DEF ConstraintIsValid
    <3>2. UNCHANGED <<kind, name, constraint, dns_name, is_constraint>>
      BY <3>1 DEF args, validation
    <3>3. dns_name \in Seq(Nat) /\ base \in Seq(Nat)
      BY <1>0, <2>1, StripPeriodTyped
    <3>4. base # <<>>
      <4>1. WellEnded(base)
        BY <1>0, <2>1, <2>4, <2>6, AcceptableParts
      <4> QED BY <4>1 DEF WellEnded
    <3>5. Walked(dns_name, base, Len(dns_name), Len(base))
      BY <3>3, <3>4, WalkBegins
    <3>6. Remaining(dns_name, Len(dns_name)) = <<dns_name>> /\ Remaining(base, Len(base)) = <<base>>
      <4>1. ASSUME NEW text \in Seq(Nat) PROVE Remaining(text, Len(text)) = <<text>>
        <5>1. Len(text) # -1 /\ Len(text) \in Nat /\ Len(text) <= Len(text)
          OBVIOUS
        <5>2. /\ UpTo(text, Len(text)) \in Seq(Nat) /\ Len(UpTo(text, Len(text))) = Len(text)
              /\ \A k \in 1..Len(text) : UpTo(text, Len(text))[k] = text[k]
          BY <5>1, UpToTyped
        <5>3. UpTo(text, Len(text)) = text
          BY <5>2, SameSequence
        <5> QED BY <5>1, <5>3 DEF Remaining
      <4> HIDE DEF base
      <4> QED BY <3>3, <4>1
    <3>7. Walking'
      <4>1. Len(dns_name) \in (-1)..Len(dns_name) /\ Len(base) \in (-1)..Len(base)
        <5> HIDE DEF base
        <5> QED BY <3>3
      <4>2. /\ dns_labels' = Remaining(dns_name, Len(dns_name))
            /\ constraint_labels' = Remaining(base, Len(base))
        BY <3>1, <3>6
      <4>3. dns_name' = dns_name /\ StripPeriod(constraint') = base
        BY <3>2
      <4> HIDE DEF base
      <4>4. \E x \in (-1)..Len(dns_name'), y \in (-1)..Len(StripPeriod(constraint')) :
              /\ dns_labels' = Remaining(dns_name', x)
              /\ constraint_labels' = Remaining(StripPeriod(constraint'), y)
              /\ Walked(dns_name', StripPeriod(constraint'), x, y)
        BY <3>5, <4>1, <4>2, <4>3, Zenon
      <4> QED BY <4>4, Zenon DEF Walking
    <3>8. (InSubtreeOfKind(kind, name, constraint) <=> InDnsSubtree(dns_name, constraint))'
      BY <2>2, <3>2, Zenon
    <3>9. is_constraint' /\ IsAcceptable(dns_name, FALSE)' /\ IsAcceptable(constraint, TRUE)' /\ (constraint # <<>>)'
      BY <2>1, <2>2, <2>4, <2>6, <3>2, Zenon
    <3>10. ~(pc' = "called") /\ ~(pc' = "labels") /\ ~(pc' = "returned")
      BY <3>1
    <3> QED BY <3>7, <3>8, <3>9, <3>10, Zenon DEF MatchInvariant, MatchCorrect
  <2> QED BY <2>5, <2>6
<1>9. CASE WalkLabels
  <2>1. pc = "walk"
    BY <1>9 DEF WalkLabels
  <2>2. /\ Walking /\ IsAcceptable(dns_name, FALSE) /\ IsAcceptable(constraint, TRUE)
        /\ constraint # <<>> /\ is_constraint
        /\ InSubtreeOfKind(kind, name, constraint) <=> InDnsSubtree(dns_name, constraint)
    BY <2>1 DEF MatchInvariant
  <2>3. \/ Answers(TRUE)
        \/ Answers(FALSE)
        \/ Walking' /\ UNCHANGED <<args, pc, dns_name, validation, matched>>
    BY <1>0, <1>9, <2>1, <2>2, WalkLabelsStep
  <2>4. CASE Answers(TRUE)
    BY <2>1, <2>4, AcceptStep DEF Answers
  <2>5. CASE Answers(FALSE)
    BY <2>1, <2>5, RejectStep DEF Answers
  <2>6. CASE Walking' /\ UNCHANGED <<args, pc, dns_name, validation, matched>>
    <3>1. UNCHANGED <<kind, name, constraint, dns_name, is_constraint>>
      BY <2>6 DEF args, validation
    <3>2. (InSubtreeOfKind(kind, name, constraint) <=> InDnsSubtree(dns_name, constraint))'
      BY <2>2, <3>1, Zenon
    <3>3. is_constraint' /\ IsAcceptable(dns_name, FALSE)' /\ IsAcceptable(constraint, TRUE)' /\ (constraint # <<>>)'
      BY <2>2, <3>1, Zenon
    <3>4. ~(pc' = "called") /\ ~(pc' = "labels") /\ ~(pc' = "returned")
      BY <2>1, <2>6
    <3> QED BY <2>6, <3>2, <3>3, <3>4, Zenon DEF MatchInvariant, MatchCorrect
  <2> QED BY <2>3, <2>4, <2>5, <2>6
<1> QED BY <1>1, <1>2, <1>3, <1>4, <1>5, <1>6, <1>7, <1>8, <1>9 DEF Next

\* The comparison answers that a name is in the subtree of a constraint exactly
\* if it is, for texts and addresses of any length: the two validation passes
\* accept what is acceptable, the walk from the right finds the suffixes at label
\* boundaries, the host is cut out where a URI has it, and the masked octets
\* agree where the bits of the prefix do.
THEOREM MatchAlwaysCorrect == Spec => []MatchCorrect
<1>1. Init => Inv /\ MatchInvariant
  <2> SUFFICES ASSUME Init PROVE Inv /\ MatchInvariant
    OBVIOUS
  <2>1. pc = "called" /\ is_constraint = FALSE
    BY DEF Init
  <2>2. ~(pc \in {"validate", "labels", "walk"}) /\ pc # "returned"
    BY <2>1
  <2>3. MatchInvariant
    BY <2>1, <2>2 DEF MatchInvariant, MatchCorrect
  <2> QED BY <2>3, InitiallyTyped
<1>2. Inv /\ MatchInvariant /\ [Next]_vars => Inv' /\ MatchInvariant'
  <2> SUFFICES ASSUME Inv, MatchInvariant, [Next]_vars PROVE Inv' /\ MatchInvariant'
    OBVIOUS
  <2>1. CASE Next
    BY <2>1, NextProgresses, NextAnswersCorrectly
  <2>2. CASE UNCHANGED vars
    <3>1. Inv'
      BY <2>2 DEF Inv, vars, args, validation, iterators
    <3>2. UNCHANGED <<kind, name, constraint, pc, dns_name, is_constraint, bytes, label_count,
                      is_wildcard, dns_labels, constraint_labels, matched>>
      BY <2>2 DEF vars, args, validation, iterators
    <3>3. MatchInvariant'
      BY <3>2, Zenon DEF MatchInvariant, MatchCorrect, Validating, Walking, Subject, Consumed
    <3> QED BY <3>1, <3>3
  <2> QED BY <2>1, <2>2
<1>3. MatchInvariant => MatchCorrect
  BY DEF MatchInvariant
<1> QED BY <1>1, <1>2, <1>3, PTL DEF Spec
=============================================================================
