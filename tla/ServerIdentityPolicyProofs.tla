--------------------- MODULE ServerIdentityPolicyProofs ---------------------
(***************************************************************************)
(* Proofs about the server identity policy, for names of any length and    *)
(* leaves with any number of names.                                        *)
(***************************************************************************)
EXTENDS ServerIdentityPolicy, NaturalsInduction, WellFoundedInduction, TLAPS

-----------------------------------------------------------------------------
(* Characters and positions.                                               *)

LEMMA LowerProperties ==
  ASSUME NEW c
  PROVE  /\ Lower(Lower(c)) = Lower(c)
         /\ Lower(c) = ASCII_PERIOD <=> c = ASCII_PERIOD
         /\ Lower(c) = ASCII_ASTERISK <=> c = ASCII_ASTERISK
         /\ is_valid_dns_character(Lower(c)) <=> is_valid_dns_character(c)
         /\ c \in Character => Lower(c) \in Character
BY CharacterAssumption
   DEF Lower, ASCII_PERIOD, ASCII_ASTERISK, is_valid_dns_character

LEMMA SpecialCharacters ==
  /\ is_valid_dns_character(ASCII_PERIOD)
  /\ ~is_valid_dns_character(ASCII_ASTERISK)
  /\ ASCII_PERIOD # ASCII_ASTERISK
BY CharacterAssumption DEF is_valid_dns_character, ASCII_PERIOD, ASCII_ASTERISK

LEMMA LeastIndex ==
  ASSUME NEW S, S \subseteq Nat, S # {}
  PROVE  Min(S) \in S /\ \A y \in S : Min(S) <= y
<1> DEFINE less == {p \in Nat \X Nat : p[1] < p[2]}
<1>1. IsWellFoundedOn(less, Nat)
  BY NatLessThanWellFounded DEF OpToRel
<1>2. PICK x \in S : \A y \in S : <<y, x>> \notin less
  BY <1>1, WFMin, Zenon
<1>3. ASSUME NEW y \in S PROVE x <= y
  <2>1. x \in Nat /\ y \in Nat /\ ~(y < x)
    BY <1>2
  <2> QED BY <2>1
<1> QED BY <1>3 DEF Min

LEMMA IndexOfProperties ==
  ASSUME NEW t \in Text, NEW c
  PROVE  /\ IndexOf(c, t) \in 0..Len(t)
         /\ IndexOf(c, t) = 0 => \A j \in 1..Len(t) : t[j] # c
         /\ IndexOf(c, t) # 0 => /\ t[IndexOf(c, t)] = c
                                 /\ \A j \in 1..(IndexOf(c, t) - 1) : t[j] # c
<1> DEFINE I == {i \in 1..Len(t) : t[i] = c}
<1>0. Len(t) \in Nat
  BY DEF Text
<1>1. IndexOf(c, t) = IF I # {} THEN Min(I) ELSE 0
  BY DEF IndexOf, SelectInSeq
<1>2. CASE I = {}
  BY <1>0, <1>1, <1>2
<1>3. CASE I # {}
  <2>1. I \subseteq Nat
    OBVIOUS
  <2>2. Min(I) \in I /\ \A y \in I : Min(I) <= y
    <3> HIDE DEF I
    <3> QED BY <1>3, <2>1, LeastIndex
  <2>3. IndexOf(c, t) = Min(I)
    BY <1>1, <1>3
  <2>4. IndexOf(c, t) \in 1..Len(t) /\ t[IndexOf(c, t)] = c
    BY <2>2, <2>3
  <2>5. ASSUME NEW j \in 1..(IndexOf(c, t) - 1) PROVE t[j] # c
    <3>1. j \in 1..Len(t) /\ ~(IndexOf(c, t) <= j)
      BY <1>0, <2>4
    <3> QED BY <2>2, <2>3, <3>1
  <2> QED BY <1>0, <2>4, <2>5
<1> QED BY <1>2, <1>3

-----------------------------------------------------------------------------
(* Lowering and stripping.                                                 *)

LEMMA TextProperties ==
  ASSUME NEW t \in Text
  PROVE  /\ Len(t) \in Nat /\ DOMAIN t = 1..Len(t)
         /\ \A j \in 1..Len(t) : t[j] \in Character
BY DEF Text

LEMMA SameText ==
  ASSUME NEW s \in Text, NEW t \in Text, Len(s) = Len(t),
         \A j \in 1..Len(t) : s[j] = t[j]
  PROVE  s = t
BY DEF Text

LEMMA SubText ==
  ASSUME NEW t \in Text, NEW i \in Nat \ {0}, NEW j \in Nat, j <= Len(t)
  PROVE  LET cut == SubSeq(t, i, j)
         IN  /\ cut \in Text
             /\ Len(cut) = IF i <= j THEN j - i + 1 ELSE 0
             /\ \A k \in 1..(j - i + 1) : cut[k] = t[i + k - 1]
<1>1. Len(t) \in Nat /\ DOMAIN t = 1..Len(t) /\ \A k \in 1..Len(t) : t[k] \in Character
  BY TextProperties
<1> QED BY <1>1 DEF Text

LEMMA LoweredProperties ==
  ASSUME NEW t \in Text
  PROVE  /\ Lowered(t) \in Text /\ Len(Lowered(t)) = Len(t)
         /\ \A j \in 1..Len(t) : Lowered(t)[j] = Lower(t[j])
<1>1. Len(t) \in Nat /\ DOMAIN t = 1..Len(t) /\ \A k \in 1..Len(t) : t[k] \in Character
  BY TextProperties
<1>2. \A k \in 1..Len(t) : Lower(t[k]) \in Character
  BY <1>1, LowerProperties
<1> QED BY <1>1, <1>2 DEF Text, Lowered

LEMMA LoweredTwice ==
  ASSUME NEW t \in Text
  PROVE  Lowered(Lowered(t)) = Lowered(t)
<1>1. /\ Lowered(t) \in Text /\ Len(Lowered(t)) = Len(t)
      /\ \A j \in 1..Len(t) : Lowered(t)[j] = Lower(t[j])
  BY LoweredProperties
<1>2. /\ Lowered(Lowered(t)) \in Text /\ Len(Lowered(Lowered(t))) = Len(t)
      /\ \A j \in 1..Len(t) : Lowered(Lowered(t))[j] = Lower(Lowered(t)[j])
  BY <1>1, LoweredProperties
<1>3. \A j \in 1..Len(t) : Lowered(Lowered(t))[j] = Lowered(t)[j]
  BY <1>1, <1>2, LowerProperties
<1> QED BY <1>1, <1>2, <1>3, SameText

LEMMA LoweredSubText ==
  ASSUME NEW t \in Text, NEW i \in Nat \ {0}, NEW j \in Nat, j <= Len(t)
  PROVE  Lowered(SubSeq(t, i, j)) = SubSeq(Lowered(t), i, j)
<1> DEFINE cut == SubSeq(t, i, j)
           low == SubSeq(Lowered(t), i, j)
<1>0. Len(t) \in Nat
  BY TextProperties
<1>1. /\ cut \in Text /\ Len(cut) = IF i <= j THEN j - i + 1 ELSE 0
      /\ \A k \in 1..(j - i + 1) : cut[k] = t[i + k - 1]
  BY SubText
<1>2. /\ Lowered(t) \in Text /\ Len(Lowered(t)) = Len(t)
      /\ \A k \in 1..Len(t) : Lowered(t)[k] = Lower(t[k])
  BY LoweredProperties
<1>3. /\ low \in Text /\ Len(low) = IF i <= j THEN j - i + 1 ELSE 0
      /\ \A k \in 1..(j - i + 1) : low[k] = Lowered(t)[i + k - 1]
  BY <1>2, SubText
<1> HIDE DEF cut, low
<1>4. /\ Lowered(cut) \in Text /\ Len(Lowered(cut)) = Len(cut)
      /\ \A k \in 1..Len(cut) : Lowered(cut)[k] = Lower(cut[k])
  BY <1>1, LoweredProperties
<1>5. ASSUME NEW k \in 1..Len(low) PROVE Lowered(cut)[k] = low[k]
  <2>1. k \in 1..(j - i + 1) /\ i + k - 1 \in 1..Len(t) /\ k \in 1..Len(cut)
    BY <1>0, <1>1, <1>3
  <2> QED BY <1>1, <1>2, <1>3, <1>4, <2>1
<1>6. Lowered(cut) = low
  BY <1>1, <1>3, <1>4, <1>5, SameText
<1> QED BY <1>6 DEF cut, low

LEMMA StripProperties ==
  ASSUME NEW t \in Text
  PROVE  LET s == StripPeriod(t)
             stripped == Len(t) # 0 /\ t[Len(t)] = ASCII_PERIOD
         IN  /\ s \in Text
             /\ Len(s) = IF stripped THEN Len(t) - 1 ELSE Len(t)
             /\ \A j \in 1..Len(s) : s[j] = t[j]
<1>0. Len(t) \in Nat /\ (t # <<>> <=> Len(t) # 0)
  BY DEF Text
<1>1. CASE Len(t) # 0 /\ t[Len(t)] = ASCII_PERIOD
  <2> DEFINE n == Len(t) - 1
  <2>1. StripPeriod(t) = SubSeq(t, 1, n)
    BY <1>0, <1>1 DEF StripPeriod, Last, Front
  <2>2. n \in Nat /\ n <= Len(t) /\ n = Len(t) - 1
    BY <1>0, <1>1
  <2> HIDE DEF n
  <2>3. /\ SubSeq(t, 1, n) \in Text
        /\ Len(SubSeq(t, 1, n)) = IF 1 <= n THEN n - 1 + 1 ELSE 0
        /\ \A k \in 1..(n - 1 + 1) : SubSeq(t, 1, n)[k] = t[1 + k - 1]
    BY <2>2, SubText
  <2>4. Len(SubSeq(t, 1, n)) = n /\ \A k \in 1..n : SubSeq(t, 1, n)[k] = t[k]
    BY <2>2, <2>3
  <2> QED BY <1>1, <2>1, <2>2, <2>3, <2>4
<1>2. CASE ~(Len(t) # 0 /\ t[Len(t)] = ASCII_PERIOD)
  <2>1. StripPeriod(t) = t
    BY <1>0, <1>2 DEF StripPeriod, Last
  <2> QED BY <1>2, <2>1
<1> QED BY <1>1, <1>2

\* It does not matter which comes first.
LEMMA LoweredStripped ==
  ASSUME NEW t \in Text
  PROVE  Lowered(StripPeriod(t)) = Canonical(t)
<1> DEFINE s == StripPeriod(t)
           low == Lowered(t)
           u == StripPeriod(low)
<1>0. Len(t) \in Nat
  BY TextProperties
<1>1. /\ low \in Text /\ Len(low) = Len(t)
      /\ \A j \in 1..Len(t) : low[j] = Lower(t[j])
  BY LoweredProperties
<1>2. /\ s \in Text
      /\ Len(s) = IF Len(t) # 0 /\ t[Len(t)] = ASCII_PERIOD THEN Len(t) - 1 ELSE Len(t)
      /\ \A j \in 1..Len(s) : s[j] = t[j]
  BY StripProperties
<1> HIDE DEF low
<1>3. /\ u \in Text
      /\ Len(u) = IF Len(low) # 0 /\ low[Len(low)] = ASCII_PERIOD
                    THEN Len(low) - 1 ELSE Len(low)
      /\ \A j \in 1..Len(u) : u[j] = low[j]
  BY <1>1, StripProperties
<1> HIDE DEF s, u
<1>4. Len(t) # 0 => (low[Len(t)] = ASCII_PERIOD <=> t[Len(t)] = ASCII_PERIOD)
  BY <1>0, <1>1, LowerProperties
<1>5. Len(s) = Len(u)
  BY <1>1, <1>2, <1>3, <1>4
<1>6. /\ Lowered(s) \in Text /\ Len(Lowered(s)) = Len(s)
      /\ \A j \in 1..Len(s) : Lowered(s)[j] = Lower(s[j])
  BY <1>2, LoweredProperties
<1>7. \A j \in 1..Len(u) : Lowered(s)[j] = u[j]
  <2>1. Len(s) \in 0..Len(t)
    BY <1>0, <1>2
  <2> QED BY <1>0, <1>1, <1>2, <1>3, <1>5, <1>6, <2>1
<1>8. Lowered(s) = u
  BY <1>3, <1>5, <1>6, <1>7, SameText
<1> QED BY <1>8 DEF Canonical, s, u, low

-----------------------------------------------------------------------------
(* First labels.                                                           *)

\* The first label of the text has n characters.
IsFirstLabel(t, n) ==
  /\ n \in 0..Len(t)
  /\ \A j \in 1..n : t[j] # ASCII_PERIOD
  /\ n < Len(t) => t[n + 1] = ASCII_PERIOD

LabelLength(t) ==
  IF IndexOf(ASCII_PERIOD, t) = 0 THEN Len(t) ELSE IndexOf(ASCII_PERIOD, t) - 1

LEMMA FirstLabel ==
  ASSUME NEW t \in Text
  PROVE  LabelLength(t) \in Nat /\ IsFirstLabel(t, LabelLength(t))
<1> DEFINE i == IndexOf(ASCII_PERIOD, t)
<1>1. Len(t) \in Nat
  BY TextProperties
<1>2. /\ i \in 0..Len(t)
      /\ i = 0 => \A j \in 1..Len(t) : t[j] # ASCII_PERIOD
      /\ i # 0 => t[i] = ASCII_PERIOD /\ \A j \in 1..(i - 1) : t[j] # ASCII_PERIOD
  BY IndexOfProperties
<1>3. LabelLength(t) = IF i = 0 THEN Len(t) ELSE i - 1
  BY DEF LabelLength
<1> HIDE DEF i
<1> QED BY <1>1, <1>2, <1>3 DEF IsFirstLabel

LEMMA OneFirstLabel ==
  ASSUME NEW t \in Text, NEW m, NEW n, IsFirstLabel(t, m), IsFirstLabel(t, n)
  PROVE  m = n
<1>1. Len(t) \in Nat
  BY TextProperties
<1>2. m \in 0..Len(t) /\ n \in 0..Len(t)
  BY DEF IsFirstLabel
<1>3. CASE m < n
  BY <1>1, <1>2, <1>3 DEF IsFirstLabel
<1>4. CASE n < m
  BY <1>1, <1>2, <1>4 DEF IsFirstLabel
<1> QED BY <1>1, <1>2, <1>3, <1>4

LEMMA FirstLabelLowered ==
  ASSUME NEW t \in Text, NEW n, IsFirstLabel(t, n)
  PROVE  IsFirstLabel(Lowered(t), n)
<1>1. Len(t) \in Nat
  BY TextProperties
<1>2. /\ Lowered(t) \in Text /\ Len(Lowered(t)) = Len(t)
      /\ \A j \in 1..Len(t) : Lowered(t)[j] = Lower(t[j])
  BY LoweredProperties
<1>3. \A j \in 1..Len(t) : Lowered(t)[j] = ASCII_PERIOD <=> t[j] = ASCII_PERIOD
  BY <1>2, LowerProperties
<1> QED BY <1>1, <1>2, <1>3 DEF IsFirstLabel

LEMMA SplitAtPeriod ==
  ASSUME NEW t \in Text
  PROVE  split_around_index(t, IndexOf(ASCII_PERIOD, t)) =
           [before |-> SubSeq(t, 1, LabelLength(t)),
            after  |-> SubSeq(t, LabelLength(t) + 2, Len(t))]
<1> DEFINE i == IndexOf(ASCII_PERIOD, t)
<1>1. Len(t) \in Nat
  BY TextProperties
<1>2. i \in 0..Len(t)
  BY IndexOfProperties
<1>3. LabelLength(t) = IF i = 0 THEN Len(t) ELSE i - 1
  BY DEF LabelLength
<1> HIDE DEF i
<1>4. CASE i = 0
  <2>1. /\ SubSeq(t, 1, Len(t)) \in Text
        /\ Len(SubSeq(t, 1, Len(t))) = IF 1 <= Len(t) THEN Len(t) - 1 + 1 ELSE 0
        /\ \A k \in 1..(Len(t) - 1 + 1) : SubSeq(t, 1, Len(t))[k] = t[1 + k - 1]
    BY <1>1, SubText
  <2>2. SubSeq(t, 1, Len(t)) = t
    <3>1. Len(SubSeq(t, 1, Len(t))) = Len(t)
      BY <1>1, <2>1
    <3>2. \A k \in 1..Len(t) : SubSeq(t, 1, Len(t))[k] = t[k]
      BY <1>1, <2>1
    <3> QED BY <2>1, <3>1, <3>2, SameText
  <2>3. SubSeq(t, Len(t) + 2, Len(t)) = <<>>
    <3>1. /\ SubSeq(t, Len(t) + 2, Len(t)) \in Text
          /\ Len(SubSeq(t, Len(t) + 2, Len(t))) = 0
      BY <1>1, SubText
    <3> QED BY <3>1 DEF Text
  <2> QED BY <1>3, <1>4, <2>2, <2>3 DEF split_around_index, i
<1>5. CASE i # 0
  <2>1. LabelLength(t) = i - 1 /\ LabelLength(t) + 2 = i + 1
    BY <1>1, <1>2, <1>3, <1>5
  <2> QED BY <1>5, <2>1 DEF split_around_index, i
<1> QED BY <1>4, <1>5

LEMMA FirstLabelOnlyProperties ==
  ASSUME NEW t \in Text, NEW n, IsFirstLabel(t, n)
  PROVE  LET s == FirstLabelOnly(t)
         IN  /\ s \in Text
             /\ Len(s) = IF Len(t) = n + 1 THEN n ELSE Len(t)
             /\ \A j \in 1..Len(s) : s[j] = t[j]
<1> DEFINE i == IndexOf(ASCII_PERIOD, t)
           u == StripPeriod(t)
<1>1. Len(t) \in Nat /\ n \in 0..Len(t)
  BY TextProperties DEF IsFirstLabel
<1>2. i \in 0..Len(t) /\ n = IF i = 0 THEN Len(t) ELSE i - 1
  <2>1. n = LabelLength(t)
    BY FirstLabel, OneFirstLabel
  <2> QED BY <2>1, IndexOfProperties DEF LabelLength
<1>3. /\ u \in Text
      /\ Len(u) = IF Len(t) # 0 /\ t[Len(t)] = ASCII_PERIOD THEN Len(t) - 1 ELSE Len(t)
      /\ \A j \in 1..Len(u) : u[j] = t[j]
  BY StripProperties
<1>4. FirstLabelOnly(t) = IF i = Len(t) THEN u ELSE t
  BY DEF FirstLabelOnly
<1> HIDE DEF i, u
<1>5. CASE Len(t) = n + 1
  <2>1. i = Len(t) /\ Len(t) # 0 /\ t[Len(t)] = ASCII_PERIOD
    BY <1>1, <1>2, <1>5 DEF IsFirstLabel
  <2> QED BY <1>1, <1>3, <1>4, <1>5, <2>1
<1>6. CASE Len(t) # n + 1
  <2>1. i = Len(t) => Len(t) = 0
    BY <1>1, <1>2, <1>6
  <2>2. i = Len(t) => u = t
    <3> SUFFICES ASSUME Len(t) = 0 PROVE u = t
      BY <2>1
    <3> QED BY <1>3, SameText
  <2> QED BY <1>4, <1>6, <2>2
<1> QED BY <1>5, <1>6

-----------------------------------------------------------------------------
(* Wildcards, character by character.                                      *)

\* From the i-th and the k-th character on, the texts agree on w characters.
SameRun(s, i, t, k, w) == \A x \in 1..w : s[i + x - 1] = t[k + x - 1]

LEMMA SameCuts ==
  ASSUME NEW s \in Text, NEW i \in Nat \ {0}, NEW j \in Nat, j <= Len(s),
         NEW t \in Text, NEW k \in Nat \ {0}, NEW l \in Nat, l <= Len(t),
         NEW w \in Int, w = j - i + 1, w = l - k + 1
  PROVE  SubSeq(s, i, j) = SubSeq(t, k, l)
           <=> SameRun(s, i, t, k, w)
<1> DEFINE u == SubSeq(s, i, j)
           v == SubSeq(t, k, l)
<1>1. /\ u \in Text /\ Len(u) = IF i <= j THEN j - i + 1 ELSE 0
      /\ \A x \in 1..(j - i + 1) : u[x] = s[i + x - 1]
  BY SubText
<1>2. /\ v \in Text /\ Len(v) = IF k <= l THEN l - k + 1 ELSE 0
      /\ \A x \in 1..(l - k + 1) : v[x] = t[k + x - 1]
  BY SubText
<1> HIDE DEF u, v
<1>3. Len(u) = Len(v) /\ 1..Len(v) = 1..w
  BY <1>1, <1>2
<1>4. ASSUME \A x \in 1..w : s[i + x - 1] = t[k + x - 1]
      PROVE  u = v
  <2>1. \A x \in 1..Len(v) : u[x] = v[x]
    BY <1>1, <1>2, <1>3, <1>4
  <2> QED BY <1>1, <1>2, <1>3, <2>1, SameText
<1>5. ASSUME u = v
      PROVE  \A x \in 1..w : s[i + x - 1] = t[k + x - 1]
  BY <1>1, <1>2, <1>5
<1>6. u = v <=> \A x \in 1..w : s[i + x - 1] = t[k + x - 1]
  BY <1>4, <1>5
<1> QED BY <1>6 DEF u, v, SameRun

\* What valid_match_for_name compares, in terms of the whole texts: the asterisk
\* is the a-th character, the first labels have m and n characters.
Fits(pattern, host, a, m, n) ==
  /\ SubSeq(pattern, m + 2, Len(pattern)) = SubSeq(host, n + 2, Len(host))
  /\ m <= n
  /\ SubSeq(host, 1, a - 1) = SubSeq(pattern, 1, a - 1)
  /\ SubSeq(host, n - (m - a) + 1, n) = SubSeq(pattern, a + 1, m)

\* The k characters of the host from the i-th one stand for the asterisk.
FitsAt(pattern, host, i, k) ==
  /\ Len(host) = Len(pattern) - 1 + k
  /\ \A j \in 1..(i - 1) : host[j] = pattern[j]
  /\ \A j \in (i + 1)..Len(pattern) : host[j + k - 1] = pattern[j]

LEMMA FitsCharacters ==
  ASSUME NEW p \in Text, NEW h \in Text, NEW m, NEW n,
         IsFirstLabel(p, m), IsFirstLabel(h, n), NEW a \in 1..m
  PROVE  Fits(p, h, a, m, n)
           <=> m <= n /\ FitsAt(FirstLabelOnly(p), FirstLabelOnly(h), a, n - m + 1)
<1> DEFINE d == FirstLabelOnly(p)
           g == FirstLabelOnly(h)
<1>1. Len(p) \in Nat /\ Len(h) \in Nat /\ m \in 0..Len(p) /\ n \in 0..Len(h)
  BY TextProperties DEF IsFirstLabel
<1>2. /\ d \in Text /\ Len(d) = IF Len(p) = m + 1 THEN m ELSE Len(p)
      /\ \A j \in 1..Len(d) : d[j] = p[j]
  BY FirstLabelOnlyProperties
<1>3. /\ g \in Text /\ Len(g) = IF Len(h) = n + 1 THEN n ELSE Len(h)
      /\ \A j \in 1..Len(g) : g[j] = h[j]
  BY FirstLabelOnlyProperties
<1> HIDE DEF d, g
<1>4. SUFFICES ASSUME m <= n
               PROVE  Fits(p, h, a, m, n) <=> FitsAt(d, g, a, n - m + 1)
  BY DEF Fits, d, g
<1>5. SubSeq(h, 1, a - 1) = SubSeq(p, 1, a - 1) <=> \A j \in 1..(a - 1) : h[j] = p[j]
  <2> DEFINE e == a - 1
  <2>1. e \in Nat /\ e <= Len(h) /\ e <= Len(p)
    BY <1>1, <1>4
  <2> HIDE DEF e
  <2>2. SubSeq(h, 1, e) = SubSeq(p, 1, e)
          <=> SameRun(h, 1, p, 1, e)
    <3>1. e \in Int /\ e = e - 1 + 1 /\ 1 \in Nat \ {0}
      BY <2>1
    <3> QED BY <2>1, <3>1, SameCuts
  <2>3. SameRun(h, 1, p, 1, e) <=> \A j \in 1..e : h[j] = p[j]
    BY <2>1 DEF SameRun
  <2>4. SubSeq(h, 1, e) = SubSeq(p, 1, e) <=> \A j \in 1..e : h[j] = p[j]
    BY <2>2, <2>3
  <2> QED BY <2>4 DEF e
<1>6. SubSeq(h, n - (m - a) + 1, n) = SubSeq(p, a + 1, m)
        <=> \A j \in (a + 1)..m : h[j + n - m] = p[j]
  <2> DEFINE f == n - (m - a) + 1
             e == a + 1
             w == m - a
  <2>1. /\ f \in Nat \ {0} /\ e \in Nat \ {0} /\ n \in Nat /\ m \in Nat
        /\ n <= Len(h) /\ m <= Len(p) /\ w \in Int
        /\ w = n - f + 1 /\ w = m - e + 1 /\ f = e + n - m
    BY <1>1, <1>4
  <2> HIDE DEF f, e, w
  <2>2. SubSeq(h, f, n) = SubSeq(p, e, m)
          <=> SameRun(h, f, p, e, w)
    BY <2>1, SameCuts
  <2>3. SameRun(h, f, p, e, w) <=> \A j \in e..m : h[j + n - m] = p[j]
    <3>1. ASSUME SameRun(h, f, p, e, w), NEW j \in e..m
          PROVE  h[j + n - m] = p[j]
      <4>1. /\ j - e + 1 \in 1..w /\ f + (j - e + 1) - 1 = j + n - m
            /\ e + (j - e + 1) - 1 = j
        BY <2>1
      <4> QED BY <3>1, <4>1 DEF SameRun
    <3>2. ASSUME \A j \in e..m : h[j + n - m] = p[j], NEW x \in 1..w
          PROVE  h[f + x - 1] = p[e + x - 1]
      <4>1. e + x - 1 \in e..m /\ (e + x - 1) + n - m = f + x - 1
        BY <2>1
      <4> QED BY <3>2, <4>1
    <3> QED BY <3>1, <3>2 DEF SameRun
  <2>4. SubSeq(h, f, n) = SubSeq(p, e, m) <=> \A j \in e..m : h[j + n - m] = p[j]
    BY <2>2, <2>3
  <2> QED BY <2>4 DEF f, e
<1>7. SubSeq(p, m + 2, Len(p)) = SubSeq(h, n + 2, Len(h))
        <=> /\ Len(g) = Len(d) + n - m
            /\ \A j \in (m + 1)..Len(d) : g[j + n - m] = d[j]
  <2> DEFINE e == m + 2
             f == n + 2
             u == SubSeq(p, e, Len(p))
             v == SubSeq(h, f, Len(h))
  <2>1. e \in Nat \ {0} /\ f \in Nat \ {0} /\ e = m + 2 /\ f = n + 2
    BY <1>1
  <2> HIDE DEF e, f
  <2>2. Len(u) = IF e <= Len(p) THEN Len(p) - e + 1 ELSE 0
    BY <1>1, <2>1, SubText
  <2>3. Len(v) = IF f <= Len(h) THEN Len(h) - f + 1 ELSE 0
    BY <1>1, <2>1, SubText
  <2>4. Len(u) = Len(v) <=> Len(g) = Len(d) + n - m
    <3> HIDE DEF u, v
    <3>1. Len(u) = IF Len(d) = m THEN 0 ELSE Len(d) - m - 1
      BY <1>1, <1>2, <2>1, <2>2
    <3>2. Len(v) = IF Len(g) = n THEN 0 ELSE Len(g) - n - 1
      BY <1>1, <1>3, <2>1, <2>3
    <3>3. Len(d) \in m..Len(p) /\ Len(g) \in n..Len(h)
      BY <1>1, <1>2, <1>3
    <3>4. Len(d) # m + 1 /\ Len(g) # n + 1
      BY <1>1, <1>2, <1>3
    <3> QED BY <1>1, <3>1, <3>2, <3>3, <3>4
  <2>5. CASE Len(g) # Len(d) + n - m
    BY <2>1, <2>4, <2>5
  <2>6. CASE Len(g) = Len(d) + n - m /\ Len(d) = m
    <3>1. Len(u) = 0 /\ Len(v) = 0
      BY <1>1, <1>2, <1>3, <2>1, <2>2, <2>3, <2>6
    <3>2. u \in Text /\ v \in Text
      BY <1>1, <2>1, SubText
    <3>3. u = v
      <4> HIDE DEF u, v
      <4> QED BY <3>1, <3>2, SameText
    <3>4. \A j \in (m + 1)..Len(d) : g[j + n - m] = d[j]
      BY <1>1, <2>6
    <3> QED BY <2>1, <2>6, <3>3, <3>4
  <2>7. CASE Len(g) = Len(d) + n - m /\ Len(d) # m
    <3>1. /\ Len(d) = Len(p) /\ Len(g) = Len(h) /\ Len(p) - e = Len(h) - f
          /\ m + 2 <= Len(p) /\ n + 2 <= Len(h)
      BY SMTT(30), <1>1, <1>2, <1>3, <2>1, <2>7
    <3> DEFINE w == Len(p) - e + 1
    <3>2. u = v <=> SameRun(p, e, h, f, w)
      <4> DEFINE k == Len(p)
                 l == Len(h)
      <4>1. /\ k \in Nat /\ l \in Nat /\ k <= Len(p) /\ l <= Len(h)
            /\ w \in Int /\ w = k - e + 1 /\ w = l - f + 1
            /\ e \in Nat \ {0} /\ f \in Nat \ {0}
        BY <1>1, <2>1, <3>1
      <4> HIDE DEF w, k, l
      <4>2. SubSeq(p, e, k) = SubSeq(h, f, l) <=> SameRun(p, e, h, f, w)
        BY <4>1, SameCuts
      <4> QED BY <4>2 DEF k, l
    <3> HIDE DEF u, v
    <3>3. g[(m + 1) + n - m] = d[m + 1]
      <4>1. m + 1 \in 1..Len(d) /\ n + 1 \in 1..Len(g) /\ (m + 1) + n - m = n + 1
        BY <1>1, <3>1
      <4>2. p[m + 1] = ASCII_PERIOD /\ h[n + 1] = ASCII_PERIOD
        BY <1>1, <3>1 DEF IsFirstLabel
      <4> QED BY <1>2, <1>3, <4>1, <4>2
    <3>4. ASSUME SameRun(p, e, h, f, w),
                 NEW j \in (m + 1)..Len(d)
          PROVE  g[j + n - m] = d[j]
      <4>1. CASE j = m + 1
        BY <3>3, <4>1
      <4>2. CASE j # m + 1
        <5>1. /\ j - m - 1 \in 1..w /\ e + (j - m - 1) - 1 = j
              /\ f + (j - m - 1) - 1 = j + n - m
              /\ j \in 1..Len(d) /\ j + n - m \in 1..Len(g)
          BY <1>1, <2>1, <3>1, <4>2
        <5>2. p[j] = h[j + n - m]
          BY <3>4, <5>1 DEF SameRun
        <5> QED BY <1>2, <1>3, <5>1, <5>2
      <4> QED BY <4>1, <4>2
    <3>5. ASSUME \A j \in (m + 1)..Len(d) : g[j + n - m] = d[j],
                 NEW x \in 1..w
          PROVE  p[e + x - 1] = h[f + x - 1]
      <4>1. /\ e + x - 1 \in (m + 1)..Len(d) /\ (e + x - 1) + n - m = f + x - 1
            /\ e + x - 1 \in 1..Len(d) /\ f + x - 1 \in 1..Len(g)
        BY <1>1, <2>1, <3>1
      <4>2. g[f + x - 1] = d[e + x - 1]
        BY <3>5, <4>1
      <4> QED BY <1>2, <1>3, <4>1, <4>2
    <3>6. u = v <=> \A j \in (m + 1)..Len(d) : g[j + n - m] = d[j]
      BY <3>2, <3>4, <3>5 DEF SameRun
    <3> QED BY <2>7, <3>6 DEF u, v, e, f
  <2> QED BY <2>5, <2>6, <2>7
<1>8. (\A j \in 1..(a - 1) : h[j] = p[j]) <=> \A j \in 1..(a - 1) : g[j] = d[j]
  <2>1. \A j \in 1..(a - 1) : j \in 1..Len(d) /\ j \in 1..Len(g)
    BY <1>1, <1>2, <1>3, <1>4
  <2> QED BY <1>2, <1>3, <2>1
<1>9. (\A j \in (a + 1)..m : h[j + n - m] = p[j])
        <=> \A j \in (a + 1)..m : g[j + n - m] = d[j]
  <2>1. \A j \in (a + 1)..m : j \in 1..Len(d) /\ j + n - m \in 1..Len(g)
    BY <1>1, <1>2, <1>3, <1>4
  <2> QED BY <1>2, <1>3, <2>1
<1>10. (\A j \in (a + 1)..Len(d) : g[j + (n - m + 1) - 1] = d[j])
         <=> /\ \A j \in (a + 1)..m : g[j + n - m] = d[j]
             /\ \A j \in (m + 1)..Len(d) : g[j + n - m] = d[j]
  <2>1. (a + 1)..Len(d) = ((a + 1)..m) \cup ((m + 1)..Len(d))
    BY <1>1, <1>2
  <2>2. \A j \in (a + 1)..Len(d) : j + (n - m + 1) - 1 = j + n - m
    BY <1>1
  <2>3. (\A j \in (a + 1)..Len(d) : g[j + (n - m + 1) - 1] = d[j])
          <=> \A j \in (a + 1)..Len(d) : g[j + n - m] = d[j]
    BY <2>2
  <2> QED BY <2>1, <2>3
<1>11. Len(g) = Len(d) - 1 + (n - m + 1) <=> Len(g) = Len(d) + n - m
  <2>1. Len(g) \in Nat /\ Len(d) \in Nat
    BY <1>2, <1>3, TextProperties
  <2> QED BY <1>1, <2>1
<1> QED
  BY <1>4, <1>5, <1>6, <1>7, <1>8, <1>9, <1>10, <1>11 DEF Fits, FitsAt

LEMMA JoinedTexts ==
  ASSUME NEW s \in Text, NEW t \in Text
  PROVE  /\ s \o t \in Text /\ Len(s \o t) = Len(s) + Len(t)
         /\ \A j \in 1..Len(s) : (s \o t)[j] = s[j]
         /\ \A j \in 1..Len(t) : (s \o t)[Len(s) + j] = t[j]
<1>1. Len(s) \in Nat /\ Len(t) \in Nat
  BY TextProperties
<1> QED BY <1>1 DEF Text

\* The pattern with the i-th character replaced by k characters of the host.
Filled(pattern, host, i, k) ==
  SubSeq(pattern, 1, i - 1) \o SubSeq(host, i, i + k - 1)

LEMMA FilledCharacters ==
  ASSUME NEW d \in Text, NEW g \in Text, NEW i \in 1..Len(d), NEW k \in 1..Len(g),
         i + k - 1 <= Len(g)
  PROVE  LET f == Filled(d, g, i, k)
             c == f \o SubSeq(d, i + 1, Len(d))
         IN  /\ f \in Text /\ Len(f) = i + k - 1
             /\ c \in Text /\ Len(c) = Len(d) - 1 + k
             /\ \A j \in 1..(i - 1) : f[j] = d[j] /\ c[j] = d[j]
             /\ \A j \in i..(i + k - 1) : f[j] = g[j] /\ c[j] = g[j]
             /\ \A j \in (i + 1)..Len(d) : c[j + k - 1] = d[j]
<1> DEFINE e == i - 1
           l == i + k - 1
           m == i + 1
           n == Len(d)
           before == SubSeq(d, 1, e)
           filler == SubSeq(g, i, l)
           after == SubSeq(d, m, n)
           f == before \o filler
           c == f \o after
<1>1. /\ Len(d) \in Nat /\ Len(g) \in Nat /\ e \in Nat /\ e <= Len(d) /\ l \in Nat
      /\ l <= Len(g) /\ m \in Nat \ {0} /\ n \in Nat /\ n <= Len(d) /\ i \in Nat \ {0}
      /\ k \in Nat \ {0} /\ e = i - 1 /\ l = i + k - 1 /\ m = i + 1 /\ n = Len(d) /\ i <= n
  <2>1. Len(d) \in Nat /\ Len(g) \in Nat
    BY TextProperties
  <2> QED BY <2>1
<1> HIDE DEF e, l, m, n
<1>2. /\ before \in Text /\ Len(before) = IF 1 <= e THEN e - 1 + 1 ELSE 0
      /\ \A j \in 1..(e - 1 + 1) : before[j] = d[1 + j - 1]
  BY <1>1, SubText
<1>3. /\ filler \in Text /\ Len(filler) = IF i <= l THEN l - i + 1 ELSE 0
      /\ \A j \in 1..(l - i + 1) : filler[j] = g[i + j - 1]
  BY <1>1, SubText
<1>4. /\ after \in Text /\ Len(after) = IF m <= n THEN n - m + 1 ELSE 0
      /\ \A j \in 1..(n - m + 1) : after[j] = d[m + j - 1]
  BY <1>1, SubText
<1> HIDE DEF before, filler, after
<1>5. Len(before) = i - 1 /\ Len(filler) = k /\ Len(after) = n - i
  BY <1>1, <1>2, <1>3, <1>4
<1>6. /\ f \in Text /\ Len(f) = Len(before) + Len(filler)
      /\ \A j \in 1..Len(before) : f[j] = before[j]
      /\ \A j \in 1..Len(filler) : f[Len(before) + j] = filler[j]
  BY <1>2, <1>3, JoinedTexts
<1> HIDE DEF f
<1>7. /\ c \in Text /\ Len(c) = Len(f) + Len(after)
      /\ \A j \in 1..Len(f) : c[j] = f[j]
      /\ \A j \in 1..Len(after) : c[Len(f) + j] = after[j]
  BY <1>4, <1>6, JoinedTexts
<1> HIDE DEF c
<1>8. Len(f) = i + k - 1 /\ Len(c) = n - 1 + k
  BY <1>1, <1>5, <1>6, <1>7
<1>9. ASSUME NEW j \in 1..(i - 1) PROVE f[j] = d[j] /\ c[j] = d[j]
  <2>1. j \in 1..Len(before) /\ j \in 1..(e - 1 + 1) /\ 1 + j - 1 = j /\ j \in 1..Len(f)
    BY <1>1, <1>5, <1>8
  <2> QED BY <1>2, <1>6, <1>7, <2>1
<1>10. ASSUME NEW j \in i..(i + k - 1) PROVE f[j] = g[j] /\ c[j] = g[j]
  <2>1. /\ j - i + 1 \in 1..Len(filler) /\ j - i + 1 \in 1..(l - i + 1)
        /\ i + (j - i + 1) - 1 = j /\ Len(before) + (j - i + 1) = j /\ j \in 1..Len(f)
    BY <1>1, <1>5, <1>8
  <2>2. f[j] = filler[j - i + 1] /\ filler[j - i + 1] = g[j]
    BY <1>3, <1>6, <2>1
  <2> QED BY <1>7, <2>1, <2>2
<1>11. ASSUME NEW j \in (i + 1)..n PROVE c[j + k - 1] = d[j]
  <2>1. /\ j - i \in 1..Len(after) /\ j - i \in 1..(n - m + 1)
        /\ m + (j - i) - 1 = j /\ Len(f) + (j - i) = j + k - 1
    BY <1>1, <1>5, <1>8
  <2> QED BY <1>4, <1>7, <2>1
<1>12. f = Filled(d, g, i, k) /\ c = Filled(d, g, i, k) \o SubSeq(d, i + 1, Len(d))
  BY DEF Filled, c, f, before, filler, after, e, l, m, n
<1>13. /\ f \in Text /\ Len(f) = i + k - 1
       /\ c \in Text /\ Len(c) = Len(d) - 1 + k
       /\ \A j \in 1..(i - 1) : f[j] = d[j] /\ c[j] = d[j]
       /\ \A j \in i..(i + k - 1) : f[j] = g[j] /\ c[j] = g[j]
       /\ \A j \in (i + 1)..Len(d) : c[j + k - 1] = d[j]
  BY <1>1, <1>6, <1>7, <1>8, <1>9, <1>10, <1>11
<1> QED BY <1>12, <1>13, Zenon

\* The pattern becomes the host, character by character.
LEMMA InstantiatesCharacters ==
  ASSUME NEW d \in Text, NEW g \in Text
  PROVE  Instantiates(g, d)
           <=> \E i \in 1..Len(d), k \in 1..Len(g) :
                 /\ d[i] = ASCII_ASTERISK
                 /\ i + k - 1 <= Len(g)
                 /\ FitsAt(d, g, i, k)
                 /\ \A j \in 1..(i + k - 1) : g[j] # ASCII_PERIOD
<1>0. Len(d) \in Nat /\ Len(g) \in Nat /\ DOMAIN d = 1..Len(d)
  BY TextProperties
<1>1. ASSUME NEW i \in 1..Len(d), NEW k \in 1..Len(g), i + k - 1 <= Len(g)
      PROVE  /\ g = Filled(d, g, i, k) \o SubSeq(d, i + 1, Len(d)) <=> FitsAt(d, g, i, k)
             /\ FitsAt(d, g, i, k) =>
                  (IndexOf(ASCII_PERIOD, Filled(d, g, i, k)) = 0
                     <=> \A j \in 1..(i + k - 1) : g[j] # ASCII_PERIOD)
  <2> DEFINE f == Filled(d, g, i, k)
             c == f \o SubSeq(d, i + 1, Len(d))
  <2>1. /\ f \in Text /\ Len(f) = i + k - 1
        /\ c \in Text /\ Len(c) = Len(d) - 1 + k
        /\ \A j \in 1..(i - 1) : f[j] = d[j] /\ c[j] = d[j]
        /\ \A j \in i..(i + k - 1) : f[j] = g[j] /\ c[j] = g[j]
        /\ \A j \in (i + 1)..Len(d) : c[j + k - 1] = d[j]
    BY <1>1, FilledCharacters
  <2> HIDE DEF f, c
  <2>2. ASSUME g = c PROVE FitsAt(d, g, i, k)
    BY <2>1, <2>2 DEF FitsAt
  <2>3. ASSUME FitsAt(d, g, i, k) PROVE g = c
    <3>1. Len(g) = Len(c)
      BY <2>1, <2>3 DEF FitsAt
    <3>2. ASSUME NEW j \in 1..Len(c) PROVE g[j] = c[j]
      <4>1. CASE j \in 1..(i - 1)
        BY <2>1, <2>3, <4>1 DEF FitsAt
      <4>2. CASE j \in i..(i + k - 1)
        BY <2>1, <4>2
      <4>3. CASE j > i + k - 1
        <5>1. j - k + 1 \in (i + 1)..Len(d) /\ (j - k + 1) + k - 1 = j
          BY <1>0, <2>1, <4>3
        <5>2. g[j] = d[j - k + 1]
          BY <2>3, <5>1 DEF FitsAt
        <5>3. c[j] = d[j - k + 1]
          BY <2>1, <5>1
        <5> QED BY <5>2, <5>3
      <4> QED BY <1>0, <2>1, <4>1, <4>2, <4>3
    <3> QED BY <2>1, <3>1, <3>2, SameText
  <2>4. ASSUME FitsAt(d, g, i, k)
        PROVE  IndexOf(ASCII_PERIOD, f) = 0
                 <=> \A j \in 1..(i + k - 1) : g[j] # ASCII_PERIOD
    <3>1. \A j \in 1..(i + k - 1) : f[j] = g[j]
      <4>1. \A j \in 1..(i - 1) : f[j] = g[j]
        BY <2>1, <2>4 DEF FitsAt
      <4>2. 1..(i + k - 1) = (1..(i - 1)) \cup (i..(i + k - 1))
        BY <1>0
      <4> QED BY <2>1, <4>1, <4>2
    <3>2. IndexOf(ASCII_PERIOD, f) = 0 <=> \A j \in 1..Len(f) : f[j] # ASCII_PERIOD
      <4>1. /\ IndexOf(ASCII_PERIOD, f) \in 0..Len(f)
            /\ IndexOf(ASCII_PERIOD, f) = 0 => \A j \in 1..Len(f) : f[j] # ASCII_PERIOD
            /\ IndexOf(ASCII_PERIOD, f) # 0 => f[IndexOf(ASCII_PERIOD, f)] = ASCII_PERIOD
        BY <2>1, IndexOfProperties
      <4>2. Len(f) \in Nat
        BY <2>1, TextProperties
      <4> QED BY <4>1, <4>2
    <3> QED BY <2>1, <3>1, <3>2
  <2> QED BY <2>2, <2>3, <2>4 DEF f, c
<1>2. Instantiates(g, d)
        <=> \E i \in 1..Len(d), k \in 1..Len(g) :
              /\ d[i] = ASCII_ASTERISK
              /\ i + k - 1 <= Len(g)
              /\ g = Filled(d, g, i, k) \o SubSeq(d, i + 1, Len(d))
              /\ IndexOf(ASCII_PERIOD, Filled(d, g, i, k)) = 0
  BY <1>0 DEF Instantiates, Filled
<1> QED BY <1>1, <1>2

LEMMA FirstLabelOfFirstLabelOnly ==
  ASSUME NEW t \in Text, NEW n, IsFirstLabel(t, n)
  PROVE  /\ IsFirstLabel(FirstLabelOnly(t), n)
         /\ n < Len(FirstLabelOnly(t)) => Len(FirstLabelOnly(t)) = Len(t)
<1>1. /\ FirstLabelOnly(t) \in Text
      /\ Len(FirstLabelOnly(t)) = IF Len(t) = n + 1 THEN n ELSE Len(t)
      /\ \A j \in 1..Len(FirstLabelOnly(t)) : FirstLabelOnly(t)[j] = t[j]
  BY FirstLabelOnlyProperties
<1>2. Len(t) \in Nat /\ n \in 0..Len(t)
  BY TextProperties DEF IsFirstLabel
<1> QED BY <1>1, <1>2 DEF IsFirstLabel

\* What the comparison accepts is an instance of the wildcard.
LEMMA FittingIsInstance ==
  ASSUME NEW p \in Text, NEW h \in Text, NEW m, NEW n,
         IsFirstLabel(p, m), IsFirstLabel(h, n),
         NEW a \in 1..m, p[a] = ASCII_ASTERISK, Fits(p, h, a, m, n)
  PROVE  Instantiates(FirstLabelOnly(h), FirstLabelOnly(p))
<1> DEFINE d == FirstLabelOnly(p)
           g == FirstLabelOnly(h)
           k == n - m + 1
<1>1. m <= n /\ FitsAt(d, g, a, k)
  BY FitsCharacters
<1>2. d \in Text /\ \A j \in 1..Len(d) : d[j] = p[j]
  BY FirstLabelOnlyProperties
<1>3. g \in Text
  BY FirstLabelOnlyProperties
<1>4. IsFirstLabel(d, m) /\ IsFirstLabel(g, n)
  BY FirstLabelOfFirstLabelOnly
<1> HIDE DEF d, g
<1>5. Len(d) \in Nat /\ Len(g) \in Nat /\ m \in 0..Len(d) /\ n \in 0..Len(g)
  BY <1>2, <1>3, <1>4, TextProperties DEF IsFirstLabel
<1>6. a \in 1..Len(d) /\ k \in 1..Len(g) /\ a + k - 1 <= n /\ a + k - 1 <= Len(g)
  BY <1>1, <1>5
<1>7. d[a] = ASCII_ASTERISK
  BY <1>2, <1>6
<1>8. \A j \in 1..(a + k - 1) : g[j] # ASCII_PERIOD
  BY <1>4, <1>5, <1>6 DEF IsFirstLabel
<1> HIDE DEF k
<1>9. Instantiates(g, d)
  BY <1>1, <1>2, <1>3, <1>6, <1>7, <1>8, InstantiatesCharacters
<1> QED BY <1>9 DEF d, g

\* The comparison accepts every instance, and the name passes the analysis: but
\* for one asterisk in the first label it has the characters of a host name.
LEMMA InstanceFits ==
  ASSUME NEW p \in Text, NEW h \in Text, NEW m, NEW n,
         IsFirstLabel(p, m), IsFirstLabel(h, n),
         \A j \in 1..Len(h) : is_valid_dns_character(h[j]),
         Instantiates(FirstLabelOnly(h), FirstLabelOnly(p))
  PROVE  \E a \in 1..m : /\ p[a] = ASCII_ASTERISK
                         /\ Fits(p, h, a, m, n)
                         /\ \A j \in 1..Len(p) : j # a => is_valid_dns_character(p[j])
<1> DEFINE d == FirstLabelOnly(p)
           g == FirstLabelOnly(h)
<1>1. /\ d \in Text /\ \A j \in 1..Len(d) : d[j] = p[j]
      /\ Len(d) = IF Len(p) = m + 1 THEN m ELSE Len(p)
  BY FirstLabelOnlyProperties
<1>2. /\ g \in Text /\ \A j \in 1..Len(g) : g[j] = h[j]
      /\ Len(g) = IF Len(h) = n + 1 THEN n ELSE Len(h)
  BY FirstLabelOnlyProperties
<1>3. IsFirstLabel(d, m) /\ IsFirstLabel(g, n)
  BY FirstLabelOfFirstLabelOnly
<1>4. PICK i \in 1..Len(d), k \in 1..Len(g) :
        /\ d[i] = ASCII_ASTERISK
        /\ i + k - 1 <= Len(g)
        /\ FitsAt(d, g, i, k)
        /\ \A j \in 1..(i + k - 1) : g[j] # ASCII_PERIOD
  <2>1. Instantiates(g, d)
    OBVIOUS
  <2> HIDE DEF d, g
  <2> QED BY <1>1, <1>2, <2>1, InstantiatesCharacters
<1>5. \A a \in 1..m : Fits(p, h, a, m, n) <=> m <= n /\ FitsAt(d, g, a, n - m + 1)
  BY FitsCharacters
<1> HIDE DEF d, g
<1>6. /\ Len(d) \in Nat /\ Len(g) \in Nat /\ m \in 0..Len(d) /\ n \in 0..Len(g)
      /\ Len(p) \in Nat /\ Len(h) \in Nat /\ m \in 0..Len(p) /\ n \in 0..Len(h)
  BY <1>1, <1>2, <1>3, TextProperties DEF IsFirstLabel
<1>7. i \in 1..m
  <2> SUFFICES ASSUME i > m PROVE FALSE
    BY <1>4, <1>6
  <2>1. d[m + 1] = ASCII_PERIOD
    BY <1>3, <1>4, <1>6 DEF IsFirstLabel
  <2>2. i # m + 1
    BY <1>4, <2>1, SpecialCharacters
  <2>3. m + 1 \in 1..(i - 1) /\ m + 1 \in 1..(i + k - 1)
    BY <1>4, <1>6, <2>2
  <2>4. g[m + 1] = d[m + 1]
    BY <1>4, <2>3 DEF FitsAt
  <2> QED BY <1>4, <2>1, <2>3, <2>4
<1>8. n = m + k - 1
  <2> DEFINE l == m + k - 1
  <2>0. i \in Nat /\ k \in Nat \ {0} /\ m \in Nat /\ i <= m /\ m <= Len(d)
    BY <1>4, <1>6, <1>7
  <2>1. l \in 0..Len(g) /\ Len(g) = Len(d) - 1 + k
    BY <1>4, <1>6, <2>0 DEF FitsAt
  <2>2. ASSUME NEW j \in 1..l PROVE g[j] # ASCII_PERIOD
    <3>1. CASE j <= i + k - 1
      BY <1>4, <2>0, <3>1
    <3>2. CASE j > i + k - 1
      <4>1. /\ j - k + 1 \in (i + 1)..Len(d) /\ (j - k + 1) + k - 1 = j
            /\ j - k + 1 \in 1..m
        BY <1>6, <2>0, <3>2
      <4>2. g[j] = d[j - k + 1]
        BY <1>4, <4>1 DEF FitsAt
      <4> QED BY <1>3, <4>1, <4>2 DEF IsFirstLabel
    <3> QED BY <2>0, <3>1, <3>2
  <2>3. ASSUME l < Len(g) PROVE g[l + 1] = ASCII_PERIOD
    <3>1. m < Len(d) /\ m + 1 \in (i + 1)..Len(d) /\ (m + 1) + k - 1 = l + 1
      BY <1>6, <2>0, <2>1, <2>3
    <3>2. g[l + 1] = d[m + 1]
      BY <1>4, <3>1 DEF FitsAt
    <3> QED BY <1>3, <3>1, <3>2 DEF IsFirstLabel
  <2>4. IsFirstLabel(g, l)
    <3> HIDE DEF l
    <3> QED BY <2>1, <2>2, <2>3 DEF IsFirstLabel
  <2> HIDE DEF l
  <2>5. n = l
    BY <1>2, <1>3, <2>4, OneFirstLabel
  <2> QED BY <2>5 DEF l
<1>9. Fits(p, h, i, m, n)
  <2>1. m <= n /\ k = n - m + 1
    BY <1>4, <1>6, <1>8
  <2> QED BY <1>4, <1>5, <1>7, <2>1
<1>10. p[i] = ASCII_ASTERISK
  BY <1>1, <1>4
<1>11. ASSUME NEW j \in 1..Len(p), j # i PROVE is_valid_dns_character(p[j])
  <2>1. CASE j < i
    <3>1. j \in 1..(i - 1) /\ j \in 1..Len(d) /\ j \in 1..Len(g) /\ j \in 1..Len(h)
      BY <1>2, <1>4, <1>6, <2>1
    <3>2. p[j] = g[j] /\ g[j] = h[j]
      BY <1>1, <1>2, <1>4, <3>1 DEF FitsAt
    <3> QED BY <3>1, <3>2
  <2>2. CASE j > i /\ j <= Len(d)
    <3>0. i \in Nat /\ k \in Nat \ {0} /\ Len(g) = Len(d) - 1 + k
      BY <1>4, <1>6 DEF FitsAt
    <3>1. /\ j \in (i + 1)..Len(d) /\ j \in 1..Len(d)
          /\ j + k - 1 \in 1..Len(g) /\ j + k - 1 \in 1..Len(h)
      BY <1>2, <1>6, <2>2, <3>0
    <3>2. p[j] = g[j + k - 1] /\ g[j + k - 1] = h[j + k - 1]
      BY <1>1, <1>2, <1>4, <3>1 DEF FitsAt
    <3> QED BY <3>1, <3>2
  <2>3. CASE j > Len(d)
    <3>1. j = m + 1 /\ m < Len(p)
      BY <1>1, <1>6, <2>3
    <3> QED BY <3>1, SpecialCharacters DEF IsFirstLabel
  <2> QED BY <1>4, <1>6, <1>11, <2>1, <2>2, <2>3
<1> QED BY <1>7, <1>9, <1>10, <1>11

-----------------------------------------------------------------------------
(* The code compares wildcards as Fits does.                               *)

LEMMA SubSubText ==
  ASSUME NEW t \in Text, NEW m \in Nat, m <= Len(t),
         NEW i \in Nat \ {0}, NEW j \in Nat, j <= m
  PROVE  SubSeq(SubSeq(t, 1, m), i, j) = SubSeq(t, i, j)
<1> DEFINE u == SubSeq(t, 1, m)
           v == SubSeq(u, i, j)
           w == SubSeq(t, i, j)
<1>0. Len(t) \in Nat /\ j <= Len(t) /\ 1 \in Nat \ {0}
  BY TextProperties
<1>1. /\ u \in Text /\ Len(u) = IF 1 <= m THEN m - 1 + 1 ELSE 0
      /\ \A k \in 1..(m - 1 + 1) : u[k] = t[1 + k - 1]
  BY <1>0, SubText
<1>2. /\ w \in Text /\ Len(w) = IF i <= j THEN j - i + 1 ELSE 0
      /\ \A k \in 1..(j - i + 1) : w[k] = t[i + k - 1]
  BY <1>0, SubText
<1> HIDE DEF u
<1>3. Len(u) = m /\ j <= Len(u)
  BY <1>1
<1>4. /\ v \in Text /\ Len(v) = IF i <= j THEN j - i + 1 ELSE 0
      /\ \A k \in 1..(j - i + 1) : v[k] = u[i + k - 1]
  BY <1>1, <1>3, SubText
<1> HIDE DEF v, w
<1>5. ASSUME NEW k \in 1..Len(w) PROVE v[k] = w[k]
  <2>1. /\ k \in 1..(j - i + 1) /\ i + k - 1 \in 1..(m - 1 + 1)
        /\ 1 + (i + k - 1) - 1 = i + k - 1
    BY <1>2
  <2> QED BY <1>1, <1>2, <1>4, <2>1
<1>6. v = w
  BY <1>2, <1>4, <1>5, SameText
<1> QED BY <1>6 DEF u, v, w

LEMMA WildcardComparison ==
  ASSUME NEW b \in Text, NEW g \in Text, Lowered(g) = g, NEW a \in 1..LabelLength(b)
  PROVE  valid_match_for_name(
           [base_name |-> b, asterisk_index |-> a,
            first_period_index |-> IndexOf(ASCII_PERIOD, b)],
           [bytes |-> g, first_period_index |-> IndexOf(ASCII_PERIOD, g)])
         <=> Fits(Lowered(b), g, a, LabelLength(b), LabelLength(g))
<1> DEFINE m == LabelLength(b)
           n == LabelLength(g)
           wildcard == split_around_index(b, IndexOf(ASCII_PERIOD, b))
           host == split_around_index(g, IndexOf(ASCII_PERIOD, g))
           affixes == split_around_index(wildcard.before, a)
           rest == Len(host.before) - Len(affixes.after)
           e == a - 1
           f == a + 1
<1>1. valid_match_for_name(
           [base_name |-> b, asterisk_index |-> a,
            first_period_index |-> IndexOf(ASCII_PERIOD, b)],
           [bytes |-> g, first_period_index |-> IndexOf(ASCII_PERIOD, g)])
        <=> /\ Lowered(wildcard.after) = Lowered(host.after)
            /\ ~(Len(host.before) < Len(wildcard.before))
            /\ Lowered(SubSeq(host.before, 1, Len(affixes.before))) = Lowered(affixes.before)
            /\ Lowered(SubSeq(host.before, rest + 1, Len(host.before)))
                 = Lowered(affixes.after)
  <2>1. a # 0
    <3>1. LabelLength(b) \in Nat
      BY FirstLabel
    <3> QED BY <3>1
  <2> QED
    BY <2>1 DEF valid_match_for_name, TooShort, case_insensitive_ascii_match
<1>2. /\ Len(b) \in Nat /\ Len(g) \in Nat /\ m \in Nat /\ n \in Nat
      /\ m <= Len(b) /\ n <= Len(g) /\ a \in Nat \ {0} /\ a <= m
      /\ 1 \in Nat \ {0} /\ m <= m /\ n <= n
  <2>1. /\ Len(b) \in Nat /\ Len(g) \in Nat /\ m \in Nat /\ n \in Nat
        /\ m \in 0..Len(b) /\ n \in 0..Len(g)
    BY FirstLabel, TextProperties DEF IsFirstLabel
  <2> QED BY <2>1
<1>3. wildcard.before = SubSeq(b, 1, m) /\ wildcard.after = SubSeq(b, m + 2, Len(b))
  BY SplitAtPeriod
<1>4. host.before = SubSeq(g, 1, n) /\ host.after = SubSeq(g, n + 2, Len(g))
  BY SplitAtPeriod
<1> HIDE DEF m, n, wildcard, host
<1>5. Len(SubSeq(b, 1, m)) = m /\ Len(SubSeq(g, 1, n)) = n
  <2>1. Len(SubSeq(b, 1, m)) = IF 1 <= m THEN m - 1 + 1 ELSE 0
    BY <1>2, SubText
  <2>2. Len(SubSeq(g, 1, n)) = IF 1 <= n THEN n - 1 + 1 ELSE 0
    BY <1>2, SubText
  <2> QED BY <1>2, <2>1, <2>2
<1>6. /\ e \in Nat /\ e <= m /\ e <= Len(b) /\ f \in Nat \ {0}
      /\ e = a - 1 /\ f = a + 1
  BY <1>2
<1>7. affixes = [before |-> SubSeq(SubSeq(b, 1, m), 1, e),
                 after |-> SubSeq(SubSeq(b, 1, m), f, m)]
  BY <1>2, <1>3, <1>5 DEF split_around_index
<1> HIDE DEF affixes, e, f
<1>8. affixes.before = SubSeq(b, 1, e)
  BY <1>2, <1>6, <1>7, SubSubText
<1>9. affixes.after = SubSeq(b, f, m)
  BY <1>2, <1>6, <1>7, SubSubText
<1>10. Len(affixes.before) = e /\ Len(affixes.after) = m - a
  <2>1. Len(SubSeq(b, 1, e)) = IF 1 <= e THEN e - 1 + 1 ELSE 0
    BY <1>2, <1>6, SubText
  <2>2. Len(SubSeq(b, f, m)) = IF f <= m THEN m - f + 1 ELSE 0
    BY <1>2, <1>6, SubText
  <2> QED BY <1>2, <1>6, <1>8, <1>9, <2>1, <2>2
<1>11. rest = n - (m - a)
  BY <1>4, <1>5, <1>10
<1> HIDE DEF rest
<1>12. SUFFICES ASSUME m <= n
                PROVE  /\ Lowered(wildcard.after) = SubSeq(Lowered(b), m + 2, Len(Lowered(b)))
                       /\ Lowered(host.after) = SubSeq(g, n + 2, Len(g))
                       /\ Lowered(SubSeq(host.before, 1, Len(affixes.before)))
                            = SubSeq(g, 1, a - 1)
                       /\ Lowered(affixes.before) = SubSeq(Lowered(b), 1, a - 1)
                       /\ Lowered(SubSeq(host.before, rest + 1, Len(host.before)))
                            = SubSeq(g, n - (m - a) + 1, n)
                       /\ Lowered(affixes.after) = SubSeq(Lowered(b), a + 1, m)
  <2>1. Len(host.before) = n /\ Len(wildcard.before) = m
    BY <1>3, <1>4, <1>5
  <2>2. ~(Len(host.before) < Len(wildcard.before)) <=> m <= n
    BY <1>2, <2>1
  <2>3. CASE ~(m <= n)
    BY <1>1, <2>2, <2>3 DEF Fits, m, n
  <2>4. CASE m <= n
    <3>1. Fits(Lowered(b), g, a, m, n)
            <=> /\ Lowered(wildcard.after) = Lowered(host.after)
                /\ ~(Len(host.before) < Len(wildcard.before))
                /\ Lowered(SubSeq(host.before, 1, Len(affixes.before)))
                     = Lowered(affixes.before)
                /\ Lowered(SubSeq(host.before, rest + 1, Len(host.before)))
                     = Lowered(affixes.after)
      BY <1>12, <2>2, <2>4, Zenon DEF Fits
    <3> QED BY <1>1, <3>1 DEF m, n
  <2> QED BY <2>3, <2>4
<1>13. Lowered(wildcard.after) = SubSeq(Lowered(b), m + 2, Len(Lowered(b)))
  <2>1. m + 2 \in Nat \ {0} /\ Len(b) <= Len(b) /\ Len(Lowered(b)) = Len(b)
    BY <1>2, LoweredProperties
  <2> DEFINE i == m + 2
             j == Len(b)
  <2>2. i \in Nat \ {0} /\ j \in Nat /\ j <= Len(b)
    BY <1>2, <2>1
  <2>3. Lowered(wildcard.after) = Lowered(SubSeq(b, i, j))
    BY <1>3
  <2> HIDE DEF i, j
  <2>4. Lowered(SubSeq(b, i, j)) = SubSeq(Lowered(b), i, j)
    BY <2>2, LoweredSubText
  <2> QED BY <2>1, <2>3, <2>4 DEF i, j
<1>14. Lowered(host.after) = SubSeq(g, n + 2, Len(g))
  <2>1. n + 2 \in Nat \ {0} /\ Len(g) <= Len(g)
    BY <1>2
  <2> DEFINE i == n + 2
             j == Len(g)
  <2>2. i \in Nat \ {0} /\ j \in Nat /\ j <= Len(g)
    BY <1>2, <2>1
  <2>3. Lowered(host.after) = Lowered(SubSeq(g, i, j))
    BY <1>4
  <2> HIDE DEF i, j
  <2>4. Lowered(SubSeq(g, i, j)) = SubSeq(Lowered(g), i, j)
    BY <2>2, LoweredSubText
  <2> QED BY <2>3, <2>4 DEF i, j
<1>15. Lowered(SubSeq(host.before, 1, Len(affixes.before))) = SubSeq(g, 1, a - 1)
  <2>1. e <= n /\ e <= Len(g)
    BY <1>2, <1>6, <1>12
  <2>2. SubSeq(host.before, 1, e) = SubSeq(g, 1, e)
    BY <1>2, <1>4, <1>6, <2>1, SubSubText
  <2>3. Lowered(SubSeq(g, 1, e)) = SubSeq(g, 1, e)
    <3>1. 1 \in Nat \ {0} /\ e \in Nat /\ e <= Len(g)
      BY <1>6, <2>1
    <3>2. Lowered(SubSeq(g, 1, e)) = SubSeq(Lowered(g), 1, e)
      BY <3>1, LoweredSubText
    <3> QED BY <3>2
  <2> QED BY <1>6, <1>10, <2>2, <2>3
<1>16. Lowered(affixes.before) = SubSeq(Lowered(b), 1, a - 1)
  <2>1. 1 \in Nat \ {0} /\ e \in Nat /\ e <= Len(b)
    BY <1>6
  <2>2. Lowered(SubSeq(b, 1, e)) = SubSeq(Lowered(b), 1, e)
    BY <2>1, LoweredSubText
  <2> QED BY <1>6, <1>8, <2>2
<1>17. Lowered(SubSeq(host.before, rest + 1, Len(host.before)))
         = SubSeq(g, n - (m - a) + 1, n)
  <2> DEFINE l == rest + 1
  <2>1. l \in Nat \ {0} /\ l = n - (m - a) + 1
    BY <1>2, <1>11, <1>12
  <2> HIDE DEF l
  <2>2. SubSeq(host.before, l, n) = SubSeq(g, l, n)
    BY <1>2, <1>4, <2>1, SubSubText
  <2>3. Lowered(SubSeq(g, l, n)) = SubSeq(g, l, n)
    <3>1. l \in Nat \ {0} /\ n \in Nat /\ n <= Len(g)
      BY <1>2, <2>1
    <3>2. Lowered(SubSeq(g, l, n)) = SubSeq(Lowered(g), l, n)
      BY <3>1, LoweredSubText
    <3> QED BY <3>2
  <2>4. Len(host.before) = n
    BY <1>4, <1>5
  <2> QED BY <2>1, <2>2, <2>3, <2>4 DEF l
<1>18. Lowered(affixes.after) = SubSeq(Lowered(b), a + 1, m)
  <2>1. Lowered(SubSeq(b, f, m)) = SubSeq(Lowered(b), f, m)
    BY <1>2, <1>6, LoweredSubText
  <2> QED BY <1>6, <1>9, <2>1
<1> QED BY <1>13, <1>14, <1>15, <1>16, <1>17, <1>18

-----------------------------------------------------------------------------
(* The analysis of names and host names.                                   *)

LEMMA CanonicalProperties ==
  ASSUME NEW t \in Text
  PROVE  LET b == StripPeriod(t)
             c == Canonical(t)
         IN  /\ b \in Text /\ c \in Text /\ Len(b) = Len(c) /\ Len(b) <= Len(t)
             /\ Len(t) <= Len(b) + 1
             /\ \A j \in 1..Len(c) : b[j] = t[j] /\ c[j] = Lower(t[j])
             /\ c = Lowered(b) /\ Lowered(c) = c
<1> DEFINE b == StripPeriod(t)
<1>1. /\ b \in Text
      /\ Len(b) = IF Len(t) # 0 /\ t[Len(t)] = ASCII_PERIOD THEN Len(t) - 1 ELSE Len(t)
      /\ \A j \in 1..Len(b) : b[j] = t[j]
  BY StripProperties
<1>2. Lowered(b) = Canonical(t)
  BY LoweredStripped
<1> HIDE DEF b
<1>3. /\ Lowered(b) \in Text /\ Len(Lowered(b)) = Len(b)
      /\ \A j \in 1..Len(b) : Lowered(b)[j] = Lower(b[j])
  BY <1>1, LoweredProperties
<1>4. Lowered(Lowered(b)) = Lowered(b)
  BY <1>1, LoweredTwice
<1>5. Len(b) <= Len(t) /\ Len(t) <= Len(b) + 1
  <2>1. Len(t) \in Nat
    BY TextProperties
  <2> QED BY <1>1, <2>1
<1>6. /\ b \in Text /\ Lowered(b) \in Text /\ Len(b) = Len(Lowered(b))
      /\ \A j \in 1..Len(Lowered(b)) : b[j] = t[j] /\ Lowered(b)[j] = Lower(t[j])
  BY <1>1, <1>3
<1>7. /\ b \in Text /\ Canonical(t) \in Text /\ Len(b) = Len(Canonical(t))
      /\ Len(b) <= Len(t) /\ Len(t) <= Len(b) + 1
      /\ \A j \in 1..Len(Canonical(t)) : b[j] = t[j] /\ Canonical(t)[j] = Lower(t[j])
      /\ Canonical(t) = Lowered(b) /\ Lowered(Canonical(t)) = Canonical(t)
  BY <1>2, <1>4, <1>5, <1>6
<1> QED BY <1>7 DEF b

\* The first period of a prepared host name is found before it is stripped, and
\* is still its first period afterwards.
LEMMA PreparedHostname ==
  ASSUME NEW h \in Text
  PROVE  IF \A i \in 1..Len(h) : is_valid_dns_character(h[i])
           THEN /\ PreparedServerHostname(h) =
                     [bytes |-> Canonical(h),
                      first_period_index |-> IndexOf(ASCII_PERIOD, Canonical(h))]
                /\ PreparedServerHostname(h) # Absent
           ELSE PreparedServerHostname(h) = Absent
<1> DEFINE g == Canonical(h)
           i == IndexOf(ASCII_PERIOD, h)
           k == IndexOf(ASCII_PERIOD, g)
<1>1. Len(h) \in Nat /\ DOMAIN h = 1..Len(h)
  BY TextProperties
<1>2. g \in Text /\ Len(g) <= Len(h) /\ \A j \in 1..Len(g) : g[j] = Lower(h[j])
  BY CanonicalProperties
<1>3. \A j \in 1..Len(g) : g[j] = ASCII_PERIOD <=> h[j] = ASCII_PERIOD
  BY <1>2, LowerProperties
<1>4. /\ i \in 0..Len(h)
      /\ i = 0 => \A j \in 1..Len(h) : h[j] # ASCII_PERIOD
      /\ i # 0 => h[i] = ASCII_PERIOD /\ \A j \in 1..(i - 1) : h[j] # ASCII_PERIOD
  BY IndexOfProperties
<1> HIDE DEF g
<1>5. /\ k \in 0..Len(g)
      /\ k = 0 => \A j \in 1..Len(g) : g[j] # ASCII_PERIOD
      /\ k # 0 => g[k] = ASCII_PERIOD /\ \A j \in 1..(k - 1) : g[j] # ASCII_PERIOD
  BY <1>2, IndexOfProperties
<1> HIDE DEF i, k
<1>6. k = IF i > Len(g) THEN 0 ELSE i
  <2>0. Len(g) \in Nat
    BY <1>2, TextProperties
  <2>1. CASE i > Len(g)
    <3> SUFFICES ASSUME k # 0 PROVE FALSE
      BY <2>1
    <3>1. k \in 1..Len(g) /\ k \in 1..(i - 1) /\ i # 0
      BY <1>1, <1>4, <1>5, <2>0, <2>1
    <3> QED BY <1>3, <1>4, <1>5, <3>1
  <2>2. CASE i = 0
    <3> SUFFICES ASSUME k # 0 PROVE FALSE
      BY <2>0, <2>2
    <3>1. k \in 1..Len(g) /\ k \in 1..Len(h)
      BY <1>1, <1>2, <1>5, <2>0
    <3> QED BY <1>3, <1>4, <1>5, <2>2, <3>1
  <2>3. CASE i # 0 /\ ~(i > Len(g))
    <3>1. i \in 1..Len(g)
      BY <1>1, <1>4, <2>0, <2>3
    <3>2. g[i] = ASCII_PERIOD
      BY <1>3, <1>4, <2>3, <3>1
    <3>3. k # 0
      BY <1>5, <3>1, <3>2
    <3>4. ~(k < i)
      <4> SUFFICES ASSUME k < i PROVE FALSE
        OBVIOUS
      <4>1. k \in 1..Len(g) /\ k \in 1..(i - 1)
        BY <1>1, <1>4, <1>5, <2>0, <3>3
      <4> QED BY <1>3, <1>4, <1>5, <2>3, <3>3, <4>1
    <3>5. ~(i < k)
      <4> SUFFICES ASSUME i < k PROVE FALSE
        OBVIOUS
      <4>1. i \in 1..(k - 1)
        BY <1>5, <2>0, <3>1
      <4> QED BY <1>5, <3>2, <3>3, <4>1
    <3> QED BY <1>5, <2>0, <2>3, <3>1, <3>4, <3>5
  <2> QED BY <2>1, <2>2, <2>3
<1>7. PreparedServerHostname(h) =
        IF \A j \in 1..Len(h) : is_valid_dns_character(h[j])
          THEN [bytes |-> g, first_period_index |-> IF i > Len(g) THEN 0 ELSE i]
          ELSE Absent
  BY <1>1 DEF PreparedServerHostname, Canonical, g, i
<1>8. [bytes |-> g, first_period_index |-> k] # Absent
  <2>1. k \in Nat
    <3>1. Len(g) \in Nat
      BY <1>2, TextProperties
    <3> QED BY <1>5, <3>1
  <2>2. [bytes |-> g, first_period_index |-> k] \in [bytes : Text, first_period_index : Nat]
    BY <1>2, <2>1
  <2> QED BY <2>2, AbsentAssumption
<1> QED BY <1>6, <1>7, <1>8 DEF g, k

LEMMA IdnaIdentifier ==
  /\ ASCII_IDNA_IDENTIFIER \in Text /\ Len(ASCII_IDNA_IDENTIFIER) = 4
  /\ \A j \in 1..4 : /\ Lower(ASCII_IDNA_IDENTIFIER[j]) = ASCII_IDNA_IDENTIFIER[j]
                     /\ ASCII_IDNA_IDENTIFIER[j] # ASCII_ASTERISK
<1>1. ASCII_IDNA_IDENTIFIER \in Text /\ Len(ASCII_IDNA_IDENTIFIER) = 4
  <2>1. "x" \in Character /\ "n" \in Character /\ "-" \in Character
    BY CharacterAssumption
  <2>2. \A c, d, e \in Character : <<c, d, e, e>> \in Seq(Character)
    OBVIOUS
  <2> QED BY <2>1, <2>2 DEF ASCII_IDNA_IDENTIFIER, Text
<1>2. \A j \in 1..4 : ASCII_IDNA_IDENTIFIER[j] \in {"x", "n", "-"}
  BY DEF ASCII_IDNA_IDENTIFIER
<1>3. \A c \in {"x", "n", "-"} : Lower(c) = c /\ c # ASCII_ASTERISK
  BY CharacterAssumption DEF Lower, ASCII_ASTERISK
<1> QED BY <1>1, <1>2, <1>3

\* With an asterisk in it, a name that looks like an A-label as far as it goes
\* is one.
LEMMA ALabel ==
  ASSUME NEW nm \in Text, NEW b, b = StripPeriod(nm),
         NEW a \in 1..Len(b), b[a] = ASCII_ASTERISK,
         NEW l, l = IF Len(b) < 4 THEN Len(b) ELSE 4
  PROVE  case_insensitive_ascii_match(SubSeq(b, 1, l), SubSeq(ASCII_IDNA_IDENTIFIER, 1, l))
           <=> IsPrefix(ASCII_IDNA_IDENTIFIER, Lowered(nm))
<1> DEFINE idna == ASCII_IDNA_IDENTIFIER
           low == Lowered(nm)
           c == Lowered(b)
<1>1. /\ b \in Text /\ Len(b) <= Len(nm) /\ Len(nm) <= Len(b) + 1
      /\ \A j \in 1..Len(b) : b[j] = nm[j]
  BY CanonicalProperties
<1>2. Len(b) \in Nat /\ Len(nm) \in Nat
  BY <1>1, TextProperties
<1>3. /\ low \in Text /\ Len(low) = Len(nm)
      /\ \A j \in 1..Len(nm) : low[j] = Lower(nm[j])
  BY LoweredProperties
<1>4. /\ c \in Text /\ Len(c) = Len(b)
      /\ \A j \in 1..Len(b) : c[j] = Lower(b[j])
  BY <1>1, LoweredProperties
<1>5. /\ idna \in Text /\ Len(idna) = 4
      /\ \A j \in 1..4 : Lower(idna[j]) = idna[j] /\ idna[j] # ASCII_ASTERISK
  BY IdnaIdentifier
<1>6. Lowered(idna) = idna
  <2>1. /\ Lowered(idna) \in Text /\ Len(Lowered(idna)) = Len(idna)
        /\ \A j \in 1..Len(idna) : Lowered(idna)[j] = Lower(idna[j])
    BY <1>5, LoweredProperties
  <2> QED BY <1>5, <2>1, SameText
<1> HIDE DEF idna, low, c
<1>7. l \in Nat /\ l <= Len(b) /\ l <= 4 /\ 1 \in Nat \ {0} /\ l <= Len(nm)
  BY <1>1, <1>2
<1>8. Lowered(SubSeq(b, 1, l)) = SubSeq(c, 1, l)
  BY <1>1, <1>7, LoweredSubText DEF c
<1>9. Lowered(SubSeq(idna, 1, l)) = SubSeq(idna, 1, l)
  <2>1. l <= Len(idna)
    BY <1>5, <1>7
  <2>2. Lowered(SubSeq(idna, 1, l)) = SubSeq(Lowered(idna), 1, l)
    BY <1>5, <1>7, <2>1, LoweredSubText
  <2> QED BY <1>6, <2>2
<1>10. \A k \in Nat : k <= 4 /\ k <= Len(b) =>
         (SubSeq(c, 1, k) = SubSeq(idna, 1, k) <=> \A j \in 1..k : c[j] = idna[j])
  <2> SUFFICES ASSUME NEW k \in Nat, k <= 4, k <= Len(b)
               PROVE  SubSeq(c, 1, k) = SubSeq(idna, 1, k) <=> \A j \in 1..k : c[j] = idna[j]
    OBVIOUS
  <2>1. k \in Int /\ k = k - 1 + 1 /\ k <= Len(c) /\ k <= Len(idna)
    BY <1>4, <1>5
  <2>2. SubSeq(c, 1, k) = SubSeq(idna, 1, k) <=> SameRun(c, 1, idna, 1, k)
    BY <1>4, <1>5, <1>7, <2>1, SameCuts
  <2>3. SameRun(c, 1, idna, 1, k) <=> \A j \in 1..k : c[j] = idna[j]
    BY DEF SameRun
  <2> QED BY <2>2, <2>3
<1>11. case_insensitive_ascii_match(SubSeq(b, 1, l), SubSeq(idna, 1, l))
         <=> \A j \in 1..l : c[j] = idna[j]
  BY <1>7, <1>8, <1>9, <1>10 DEF case_insensitive_ascii_match
<1>12. IsPrefix(idna, low) <=> 4 <= Len(nm) /\ \A j \in 1..4 : low[j] = idna[j]
  <2>1. CASE ~(4 <= Len(nm))
    BY <1>3, <1>5, <2>1 DEF IsPrefix
  <2>2. CASE 4 <= Len(nm)
    <3>1. SubSeq(idna, 1, 4) = SubSeq(low, 1, 4) <=> SameRun(idna, 1, low, 1, 4)
      <4>1. /\ 4 \in Nat /\ 4 \in Int /\ 4 = 4 - 1 + 1 /\ 4 <= Len(low)
            /\ 4 <= Len(idna) /\ 1 \in Nat \ {0}
        BY <1>3, <1>5, <2>2
      <4> QED BY <1>3, <1>5, <4>1, SameCuts
    <3>2. SameRun(idna, 1, low, 1, 4) <=> \A j \in 1..4 : low[j] = idna[j]
      BY DEF SameRun
    <3> QED BY <1>3, <1>5, <2>2, <3>1, <3>2 DEF IsPrefix
  <2> QED BY <2>1, <2>2
<1>13. \A j \in 1..Len(b) : c[j] = low[j]
  BY <1>1, <1>2, <1>3, <1>4
<1>14. c[a] = ASCII_ASTERISK /\ low[a] = ASCII_ASTERISK
  BY <1>4, <1>13, LowerProperties
<1>15. CASE Len(b) < 4
  <2>1. a \in 1..l /\ a \in 1..4 /\ a \in Nat
    BY <1>2, <1>15
  <2>2. ~(\A j \in 1..l : c[j] = idna[j])
    BY <1>5, <1>14, <2>1
  <2>3. ~(\A j \in 1..4 : low[j] = idna[j])
    BY <1>5, <1>14, <2>1
  <2> QED BY <1>11, <1>12, <2>2, <2>3 DEF idna, low
<1>16. CASE ~(Len(b) < 4)
  <2>1. l = 4 /\ 4 <= Len(nm) /\ \A j \in 1..4 : j \in 1..Len(b)
    BY <1>1, <1>2, <1>16
  <2>2. (\A j \in 1..4 : c[j] = idna[j]) <=> (\A j \in 1..4 : low[j] = idna[j])
    BY <1>13, <2>1
  <2> QED BY <1>11, <1>12, <2>1, <2>2 DEF idna, low
<1> QED BY <1>15, <1>16

\* A name with the characters of a host name, and perhaps an asterisk in its
\* first label if that is no A-label.
Acceptable(nm) ==
  LET b == StripPeriod(nm)
      a == IndexOf(ASCII_ASTERISK, b)
  IN  /\ \A i \in 1..Len(b) : is_valid_dns_character(b[i]) \/ (i = a /\ i <= LabelLength(b))
      /\ a # 0 => ~IsPrefix(ASCII_IDNA_IDENTIFIER, Lowered(nm))

LEMMA AnalysedHostname ==
  ASSUME NEW nm \in Text
  PROVE  IF Acceptable(nm)
           THEN /\ AnalysedCertificateHostname(nm) =
                     [base_name |-> StripPeriod(nm),
                      asterisk_index |-> IndexOf(ASCII_ASTERISK, StripPeriod(nm)),
                      first_period_index |-> IndexOf(ASCII_PERIOD, StripPeriod(nm))]
                /\ AnalysedCertificateHostname(nm) # Absent
           ELSE AnalysedCertificateHostname(nm) = Absent
<1> DEFINE b == StripPeriod(nm)
           p == IndexOf(ASCII_PERIOD, b)
           a == IndexOf(ASCII_ASTERISK, b)
           l == IF Len(b) < 4 THEN Len(b) ELSE 4
           acceptable == \A i \in DOMAIN b : \/ is_valid_dns_character(b[i])
                                             \/ i = a /\ (p = 0 \/ i < p)
           is_a_label == case_insensitive_ascii_match(
                           SubSeq(b, 1, l), SubSeq(ASCII_IDNA_IDENTIFIER, 1, l))
           name == [base_name |-> b, asterisk_index |-> a, first_period_index |-> p]
<1>1. AnalysedCertificateHostname(nm) =
        IF ~acceptable \/ (a # 0 /\ is_a_label) THEN Absent ELSE name
  BY DEF AnalysedCertificateHostname
<1>2. b \in Text /\ Len(b) \in Nat /\ DOMAIN b = 1..Len(b)
  <2>1. b \in Text
    BY CanonicalProperties
  <2> HIDE DEF b
  <2> QED BY <2>1, TextProperties
<1>3. LabelLength(b) = IF p = 0 THEN Len(b) ELSE p - 1
  BY DEF LabelLength
<1>4. a # 0 => (is_a_label <=> IsPrefix(ASCII_IDNA_IDENTIFIER, Lowered(nm)))
  <2> SUFFICES ASSUME a # 0
               PROVE  is_a_label <=> IsPrefix(ASCII_IDNA_IDENTIFIER, Lowered(nm))
    OBVIOUS
  <2>1. a \in 1..Len(b) /\ b[a] = ASCII_ASTERISK
    <3> HIDE DEF b
    <3>1. a \in 0..Len(b) /\ b[a] = ASCII_ASTERISK
      BY <1>2, IndexOfProperties
    <3> QED BY <1>2, <3>1
  <2>2. \A c, k : /\ c = b /\ k = l
                  => (case_insensitive_ascii_match(
                        SubSeq(c, 1, k), SubSeq(ASCII_IDNA_IDENTIFIER, 1, k))
                      <=> IsPrefix(ASCII_IDNA_IDENTIFIER, Lowered(nm)))
    <3> SUFFICES ASSUME NEW c, NEW k, c = b, k = l
                 PROVE  case_insensitive_ascii_match(
                          SubSeq(c, 1, k), SubSeq(ASCII_IDNA_IDENTIFIER, 1, k))
                        <=> IsPrefix(ASCII_IDNA_IDENTIFIER, Lowered(nm))
      OBVIOUS
    <3>1. /\ c = StripPeriod(nm) /\ k = (IF Len(c) < 4 THEN Len(c) ELSE 4)
          /\ a \in 1..Len(c) /\ c[a] = ASCII_ASTERISK
      BY <2>1
    <3> HIDE DEF b, l, a
    <3> QED BY <3>1, ALabel
  <2> QED BY <2>2
<1>5. p \in 0..Len(b)
  <2> HIDE DEF b
  <2> QED BY <1>2, IndexOfProperties
<1>6. a \in 0..Len(b)
  <2> HIDE DEF b
  <2> QED BY <1>2, IndexOfProperties
<1>7. name # Absent
  <2>1. a \in Nat /\ p \in Nat
    BY <1>2, <1>5, <1>6
  <2> HIDE DEF a, b, p
  <2>2. name \in [base_name : Text, asterisk_index : Nat, first_period_index : Nat]
    BY <1>2, <2>1
  <2> QED BY <2>2, AbsentAssumption
<1>8. Acceptable(nm) <=> acceptable /\ (a # 0 => ~IsPrefix(ASCII_IDNA_IDENTIFIER, Lowered(nm)))
  <2>1. Acceptable(nm)
          <=> /\ \A i \in 1..Len(b) : is_valid_dns_character(b[i]) \/ (i = a /\ i <= LabelLength(b))
              /\ a # 0 => ~IsPrefix(ASCII_IDNA_IDENTIFIER, Lowered(nm))
    BY DEF Acceptable
  <2> HIDE DEF a, b, p
  <2>2. \A i \in 1..Len(b) : i <= LabelLength(b) <=> p = 0 \/ i < p
    BY <1>2, <1>3, <1>5
  <2>3. acceptable
          <=> \A i \in 1..Len(b) : is_valid_dns_character(b[i]) \/ (i = a /\ i <= LabelLength(b))
    BY <1>2, <2>2
  <2> QED BY <2>1, <2>3, Zenon
<1> HIDE DEF acceptable, is_a_label
<1>9. Acceptable(nm) <=> ~(~acceptable \/ (a # 0 /\ is_a_label))
  BY <1>4, <1>8
<1> HIDE DEF name
<1>10. IF Acceptable(nm)
         THEN AnalysedCertificateHostname(nm) = name /\ AnalysedCertificateHostname(nm) # Absent
         ELSE AnalysedCertificateHostname(nm) = Absent
  BY <1>1, <1>7, <1>9
<1> QED BY <1>10 DEF name

-----------------------------------------------------------------------------
(* The comparison decides what the names denote.                           *)

LEMMA MatchIffDenotes ==
  ASSUME NEW h \in Text, h # Absent, NEW nm \in Text
  PROVE  match_hostname(PreparedServerHostname(h), nm) <=> Denotes(nm, h)
<1> DEFINE g == Canonical(h)
           b == StripPeriod(nm)
           c == Canonical(nm)
           a == IndexOf(ASCII_ASTERISK, b)
           m == LabelLength(b)
           n == LabelLength(g)
           name == [base_name |-> b, asterisk_index |-> a,
                    first_period_index |-> IndexOf(ASCII_PERIOD, b)]
           target == [bytes |-> g, first_period_index |-> IndexOf(ASCII_PERIOD, g)]
           prefixed == IsPrefix(ASCII_IDNA_IDENTIFIER, Lowered(nm))
           instance == Instantiates(FirstLabelOnly(g), FirstLabelOnly(c))
<1>0. Len(h) \in Nat /\ DOMAIN h = 1..Len(h)
  BY TextProperties
<1>1. CASE ~(\A i \in 1..Len(h) : is_valid_dns_character(h[i]))
  <2>1. PreparedServerHostname(h) = Absent
    BY <1>1, PreparedHostname
  <2> QED BY <1>0, <1>1, <2>1 DEF match_hostname, Denotes
<1>2. CASE \A i \in 1..Len(h) : is_valid_dns_character(h[i])
  <2>1. PreparedServerHostname(h) = target /\ PreparedServerHostname(h) # Absent
    BY <1>2, PreparedHostname
  <2>2. match_hostname(PreparedServerHostname(h), nm)
          <=> Acceptable(nm) /\ valid_match_for_name(name, target)
    BY <2>1, AnalysedHostname DEF match_hostname
  <2>3. Denotes(nm, h) <=> c = g \/ (~prefixed /\ instance)
    BY <1>0, <1>2 DEF Denotes
  <2>4. Acceptable(nm)
          <=> /\ \A i \in 1..Len(b) : is_valid_dns_character(b[i]) \/ (i = a /\ i <= m)
              /\ a # 0 => ~prefixed
    BY DEF Acceptable
  <2>5. /\ b \in Text /\ c \in Text /\ Len(b) = Len(c) /\ c = Lowered(b)
        /\ \A j \in 1..Len(c) : b[j] = nm[j] /\ c[j] = Lower(nm[j])
    BY CanonicalProperties
  <2>6. /\ g \in Text /\ Len(g) <= Len(h) /\ Lowered(g) = g
        /\ \A j \in 1..Len(g) : g[j] = Lower(h[j])
    BY CanonicalProperties
  <2>7. a # 0 => (a \in 1..m => (valid_match_for_name(name, target) <=> Fits(c, g, a, m, n)))
    <3> HIDE DEF b, g, a, c
    <3> QED BY <2>5, <2>6, WildcardComparison
  <2>8. a = 0 => (valid_match_for_name(name, target) <=> Lowered(b) = Lowered(g))
    BY DEF valid_match_for_name, case_insensitive_ascii_match
  <2> HIDE DEF b, g, c
  <2>9. \A j \in 1..Len(g) : is_valid_dns_character(g[j])
    <3>1. Len(g) \in Nat
      BY <2>6, TextProperties
    <3>2. \A j \in 1..Len(g) : j \in 1..Len(h)
      BY <1>0, <2>6, <3>1
    <3> QED BY <1>2, <2>6, <3>2, LowerProperties
  <2>10. \A j \in 1..Len(b) : /\ is_valid_dns_character(b[j]) <=> is_valid_dns_character(c[j])
                              /\ b[j] = ASCII_ASTERISK <=> c[j] = ASCII_ASTERISK
    BY <2>5, LowerProperties
  <2>11. m \in Nat /\ n \in Nat /\ IsFirstLabel(c, m) /\ IsFirstLabel(g, n) /\ m \in 0..Len(b)
    <3>1. m \in Nat /\ IsFirstLabel(b, m) /\ n \in Nat /\ IsFirstLabel(g, n)
      BY <2>5, <2>6, FirstLabel
    <3> HIDE DEF m
    <3>2. IsFirstLabel(c, m)
      BY <2>5, <3>1, FirstLabelLowered
    <3> QED BY <3>1, <3>2 DEF IsFirstLabel
  <2>12. /\ a \in 0..Len(b)
         /\ a = 0 => \A j \in 1..Len(b) : b[j] # ASCII_ASTERISK
         /\ a # 0 => b[a] = ASCII_ASTERISK
    BY <2>5, IndexOfProperties
  <2>13. Len(b) \in Nat
    BY <2>5, TextProperties
  <2> HIDE DEF a, m, n, name, target, prefixed
  <2>14. instance => \E i \in 1..m :
           /\ c[i] = ASCII_ASTERISK
           /\ Fits(c, g, i, m, n)
           /\ \A j \in 1..Len(c) : j # i => is_valid_dns_character(c[j])
    BY SMTT(30), <2>5, <2>6, <2>9, <2>11, InstanceFits
  <2>15. a \in 1..m /\ c[a] = ASCII_ASTERISK /\ Fits(c, g, a, m, n) => instance
    BY <2>5, <2>6, <2>11, FittingIsInstance
  <2> HIDE DEF instance
  <2>16. CASE a = 0
    <3>1. ~instance
      <4> SUFFICES ASSUME instance PROVE FALSE
        OBVIOUS
      <4>1. PICK i \in 1..m : c[i] = ASCII_ASTERISK
        BY <2>14
      <4>2. i \in 1..Len(b)
        BY <2>11, <2>13
      <4> QED BY <2>10, <2>12, <2>16, <4>1, <4>2
    <3>2. c = g => \A i \in 1..Len(b) : is_valid_dns_character(b[i])
      BY <2>5, <2>9, <2>10
    <3>3. valid_match_for_name(name, target) <=> c = g
      BY <2>5, <2>6, <2>8, <2>16
    <3>4. c = g => Acceptable(nm)
      <4> SUFFICES ASSUME c = g PROVE Acceptable(nm)
        OBVIOUS
      <4>1. \A i \in 1..Len(b) : is_valid_dns_character(b[i]) \/ (i = a /\ i <= m)
        BY <3>2
      <4> QED BY <2>4, <2>16, <4>1, Zenon
    <3> QED BY <2>2, <2>3, <3>1, <3>3, <3>4
  <2>17. CASE a # 0
    <3>0. a \in 1..Len(b) /\ c[a] = ASCII_ASTERISK
      BY <2>10, <2>12, <2>13, <2>17
    <3>1. c # g
      BY <2>5, <2>9, <3>0, SpecialCharacters
    <3>2. ~is_valid_dns_character(b[a])
      BY <2>12, <2>17, SpecialCharacters
    <3>3. ASSUME Acceptable(nm), valid_match_for_name(name, target)
          PROVE  ~prefixed /\ instance
      <4>1. a <= m /\ ~prefixed
        BY <2>4, <2>17, <3>0, <3>2, <3>3
      <4>2. a \in 1..m
        BY <2>11, <2>13, <3>0, <4>1
      <4> QED BY <2>7, <2>15, <2>17, <3>0, <3>3, <4>1, <4>2
    <3>4. ASSUME ~prefixed, instance
          PROVE  Acceptable(nm) /\ valid_match_for_name(name, target)
      <4>1. PICK i \in 1..m :
              /\ c[i] = ASCII_ASTERISK
              /\ Fits(c, g, i, m, n)
              /\ \A j \in 1..Len(c) : j # i => is_valid_dns_character(c[j])
        BY <2>14, <3>4
      <4>2. i = a
        BY <2>5, <3>0, <4>1, SpecialCharacters
      <4>3. a \in 1..m /\ a <= m
        BY <2>11, <4>2
      <4>4. Acceptable(nm)
        <5>1. ASSUME NEW j \in 1..Len(b)
              PROVE  is_valid_dns_character(b[j]) \/ (j = a /\ j <= m)
          BY <2>5, <2>10, <4>1, <4>2, <4>3
        <5> QED BY <2>4, <3>4, <5>1, Zenon
      <4> QED BY <2>7, <2>17, <4>1, <4>2, <4>3, <4>4
    <3> QED BY <2>2, <2>3, <3>1, <3>3, <3>4
  <2> QED BY <2>16, <2>17
<1> QED BY <1>1, <1>2

-----------------------------------------------------------------------------
(* The policy.                                                             *)

\* The fields are made of the arguments; the names that the loop has passed do
\* not serve, and some name was checked exactly if the loop has passed one.
IdentityInvariant ==
  /\ \E q \in Question : hostname = q.hostname /\ ip = q.ip /\ leaf = q.leaf
  /\ pc \in {"new", "names", "done"}
  /\ IF pc = "new"
       THEN server_hostname = Absent /\ index = 1 /\ ~checked_match
       ELSE /\ server_hostname = IF hostname = Absent THEN Absent
                                                      ELSE PreparedServerHostname(hostname)
            /\ server_ip = parse(ip)
  /\ pc = "names" =>
       /\ index \in Nat \ {0}
       /\ checked_match <=> index > 1
       /\ leaf.san # Undecodable =>
            /\ index <= Len(general_names) + 1
            /\ \A j \in 1..(index - 1) : ~Serves(general_names[j])
  /\ pc = "done" => result = Expected

LEMMA QuestionProperties ==
  ASSUME NEW q \in Question, hostname = q.hostname, ip = q.ip, leaf = q.leaf
  PROVE  /\ hostname # Absent => hostname \in Text
         /\ ip # Absent => IpAddress(ip.form, ip.octets) # Absent
         /\ leaf.san # Undecodable =>
              /\ Len(general_names) \in Nat /\ DOMAIN general_names = 1..Len(general_names)
              /\ \A i \in DOMAIN general_names :
                   general_names[i].kind = "dns" => general_names[i].value \in Text
         /\ leaf.common_names # <<>> /\ Last(leaf.common_names) # Undecodable =>
              Last(leaf.common_names) # Absent /\ Last(leaf.common_names) \in Text
<1>1. hostname # Absent => hostname \in Text
  BY QuestionAssumption
<1>2. ip # Absent => IpAddress(ip.form, ip.octets) # Absent
  BY QuestionAssumption
<1>3. ASSUME leaf.san # Undecodable
      PROVE  /\ Len(general_names) \in Nat /\ DOMAIN general_names = 1..Len(general_names)
             /\ \A i \in DOMAIN general_names :
                  general_names[i].kind = "dns" => general_names[i].value \in Text
  <2>1. CASE leaf.san = Absent
    BY <2>1 DEF general_names
  <2>2. CASE leaf.san # Absent
    <3> DEFINE names == leaf.san
               S == ToSet(names)
    <3>1. names \in Seq(S) /\ \A name \in S : name.kind = "dns" => name.value \in Text
      BY <1>3, <2>2, QuestionAssumption
    <3>2. general_names = names
      BY <2>2 DEF general_names
    <3>3. \A i \in DOMAIN names : names[i] \in S
      BY DEF ToSet
    <3> HIDE DEF names, S
    <3>4. Len(names) \in Nat /\ DOMAIN names = 1..Len(names)
      BY <3>1
    <3> QED BY <3>1, <3>2, <3>3, <3>4
  <2> QED BY <2>1, <2>2
<1>4. ASSUME leaf.common_names # <<>>, Last(leaf.common_names) # Undecodable
      PROVE  Last(leaf.common_names) # Absent /\ Last(leaf.common_names) \in Text
  <2> DEFINE names == leaf.common_names
             S == ToSet(names)
  <2>1. names \in Seq(S) /\ \A name \in S : name # Undecodable => name # Absent /\ name \in Text
    BY QuestionAssumption
  <2>2. \A i \in DOMAIN names : names[i] \in S
    BY DEF ToSet
  <2>3. names # <<>> /\ Last(names) # Undecodable
    BY <1>4
  <2> HIDE DEF names, S
  <2>4. Len(names) \in DOMAIN names
    BY <2>1, <2>3
  <2>5. Last(names) \in S
    BY <2>2, <2>4 DEF Last
  <2>6. Last(names) # Absent /\ Last(names) \in Text
    BY <2>1, <2>3, <2>5
  <2> QED BY <2>6 DEF names
<1> QED BY <1>1, <1>2, <1>3, <1>4

LEMMA IpMatch ==
  ASSUME NEW value, ip # Absent => IpAddress(ip.form, ip.octets) # Absent
  PROVE  match_ip_address(parse(ip), from_san_bytes(value))
           <=> /\ ip # Absent
               /\ \/ ip.form = "V4" /\ value.len = 4
                  \/ ip.form = "V6" /\ value.len = 16
               /\ value.octets = ip.octets
BY DEF match_ip_address, parse, from_san_bytes, IpAddress

LEMMA HostMatch ==
  ASSUME NEW nm \in Text, hostname # Absent => hostname \in Text,
         server_hostname = IF hostname = Absent THEN Absent ELSE PreparedServerHostname(hostname)
  PROVE  match_hostname(server_hostname, nm) <=> Denotes(nm, hostname)
<1>1. CASE hostname = Absent
  BY <1>1 DEF match_hostname, Denotes
<1>2. CASE hostname # Absent
  BY <1>2, MatchIffDenotes
<1> QED BY <1>1, <1>2

LEMMA MatchIffServes ==
  ASSUME IdentityInvariant, pc # "new", leaf.san # Undecodable, NEW i \in DOMAIN general_names
  PROVE  MatchesServer(general_names[i]) <=> Serves(general_names[i])
<1> DEFINE name == general_names[i]
<1>1. PICK q \in Question : hostname = q.hostname /\ ip = q.ip /\ leaf = q.leaf
  BY DEF IdentityInvariant
<1>2. /\ hostname # Absent => hostname \in Text
      /\ ip # Absent => IpAddress(ip.form, ip.octets) # Absent
      /\ name.kind = "dns" => name.value \in Text
  BY <1>1, QuestionProperties
<1>3. /\ server_hostname = IF hostname = Absent THEN Absent ELSE PreparedServerHostname(hostname)
      /\ server_ip = parse(ip)
  BY DEF IdentityInvariant
<1> HIDE DEF name
<1>4. name.kind = "dns" =>
        (match_hostname(server_hostname, name.value) <=> Denotes(name.value, hostname))
  BY <1>2, <1>3, HostMatch
<1>5. match_ip_address(server_ip, from_san_bytes(name.value))
        <=> /\ ip # Absent
            /\ \/ ip.form = "V4" /\ name.value.len = 4
               \/ ip.form = "V6" /\ name.value.len = 16
            /\ name.value.octets = ip.octets
  BY <1>2, <1>3, IpMatch
<1>6. MatchesServer(name) <=> Serves(name)
  BY <1>4, <1>5 DEF MatchesServer, Serves
<1> QED BY <1>6 DEF name

\* One step of the policy.
LEMMA IdentityStep ==
  ASSUME IdentityInvariant, [Next]_vars
  PROVE  IdentityInvariant'
<1> USE DEF IdentityInvariant
<1>0. PICK q \in Question : hostname = q.hostname /\ ip = q.ip /\ leaf = q.leaf
  OBVIOUS
<1>00. leaf.san # Undecodable =>
         Len(general_names) \in Nat /\ DOMAIN general_names = 1..Len(general_names)
  BY <1>0, QuestionProperties
<1>1. CASE New
  <2>1. /\ hostname' = hostname /\ ip' = ip /\ leaf' = leaf /\ pc' = "names"
        /\ index' = 1 /\ ~checked_match'
        /\ server_hostname' = IF hostname = Absent THEN Absent
                                                   ELSE PreparedServerHostname(hostname)
        /\ server_ip' = parse(ip)
    BY <1>1 DEF New, args
  <2>2. general_names' = general_names
    BY <2>1 DEF general_names
  <2>3. leaf.san # Undecodable => 1 <= Len(general_names) + 1
    BY <1>00
  <2>4. \A j \in 1..(1 - 1) : ~Serves(general_names[j])'
    OBVIOUS
  <2> QED BY <1>0, <2>1, <2>2, <2>3, <2>4
<1>2. ASSUME NEW verdict, Return(verdict), pc # "new", verdict = Expected
      PROVE  IdentityInvariant'
  <2>1. /\ hostname' = hostname /\ ip' = ip /\ leaf' = leaf /\ pc' = "done"
        /\ server_hostname' = server_hostname /\ server_ip' = server_ip
        /\ result' = verdict
    BY <1>2 DEF Return, args, fields
  <2>2. Expected' = Expected
    BY <2>1 DEF Expected, SomeNameServes, Serves, general_names
  <2> QED BY <1>0, <1>2, <2>1, <2>2
<1>3. CASE RejectUndecodable
  <2>1. Return("undecodable") /\ pc # "new" /\ Expected = "undecodable"
    BY <1>3 DEF RejectUndecodable, Expected
  <2> QED BY <1>2, <2>1
<1>4. CASE CheckName
  <2>1. /\ pc = "names" /\ pc # "new" /\ leaf.san # Undecodable /\ index <= Len(general_names)
        /\ checked_match' = TRUE
    BY <1>4 DEF CheckName
  <2>2. index \in Nat \ {0} /\ index \in DOMAIN general_names
    BY <1>00, <2>1
  <2>3. MatchesServer(general_names[index]) <=> Serves(general_names[index])
    BY <2>1, <2>2, MatchIffServes
  <2>4. CASE MatchesServer(general_names[index])
    <3>1. Return("Ok")
      BY <1>4, <2>4 DEF CheckName
    <3>2. Expected = "Ok"
      BY <2>1, <2>2, <2>3, <2>4 DEF Expected, SomeNameServes
    <3> QED BY <1>2, <2>1, <3>1, <3>2
  <2>5. CASE ~MatchesServer(general_names[index])
    <3>1. /\ hostname' = hostname /\ ip' = ip /\ leaf' = leaf /\ pc' = pc
          /\ server_hostname' = server_hostname /\ server_ip' = server_ip
          /\ index' = index + 1
      BY <1>4, <2>5 DEF CheckName, args, fields
    <3>2. general_names' = general_names
      BY <3>1 DEF general_names
    <3>3. \A j \in 1..(index' - 1) : ~Serves(general_names[j])
      <4>1. \A j \in 1..(index - 1) : ~Serves(general_names[j])
        BY <2>1
      <4>2. \A j \in 1..(index' - 1) : j \in 1..(index - 1) \/ j = index
        BY <2>2, <3>1
      <4> QED BY <2>3, <2>5, <4>1, <4>2
    <3>4. \A j \in 1..(index' - 1) : ~Serves(general_names[j])'
      BY <3>1, <3>2, <3>3 DEF Serves
    <3>5. /\ index' \in Nat \ {0} /\ (checked_match' <=> index' > 1)
          /\ index' <= Len(general_names') + 1
      BY <1>00, <2>1, <2>2, <3>1, <3>2
    <3> QED BY <1>0, <2>1, <3>1, <3>4, <3>5
  <2> QED BY <2>4, <2>5
<1>5. ASSUME AllNamesChecked
      PROVE  /\ pc = "names" /\ leaf.san # Undecodable /\ ~SomeNameServes
             /\ checked_match <=> Len(general_names) > 0
  <2>1. pc = "names" /\ leaf.san # Undecodable /\ index > Len(general_names)
    BY <1>5 DEF AllNamesChecked
  <2>2. /\ index \in Nat \ {0} /\ index <= Len(general_names) + 1
        /\ checked_match <=> index > 1
    BY <2>1
  <2>3. index = Len(general_names) + 1 /\ DOMAIN general_names = 1..(index - 1)
    BY <1>00, <2>1, <2>2
  <2> QED BY <1>00, <2>1, <2>2, <2>3 DEF SomeNameServes
<1>6. CASE NoNameMatched
  <2>1. AllNamesChecked /\ checked_match /\ Return("noNameMatched")
    BY <1>6 DEF NoNameMatched
  <2>2. Expected = "noNameMatched" /\ pc # "new"
    BY <1>5, <2>1 DEF Expected
  <2> QED BY <1>2, <2>1, <2>2
<1>7. CASE CheckCommonName
  <2>1. AllNamesChecked /\ ~checked_match
    BY <1>7 DEF CheckCommonName
  <2>2. /\ leaf.san # Undecodable /\ ~SomeNameServes /\ ~(Len(general_names) > 0)
        /\ pc # "new"
    BY <1>5, <2>1
  <2>3. CASE leaf.common_names = <<>> \/ Last(leaf.common_names) = Undecodable
    <3>1. common_name = Absent
      BY <2>3 DEF common_name
    <3>2. Return("noCommonName")
      BY <1>7, <3>1 DEF CheckCommonName
    <3>3. Expected = "noCommonName"
      BY <2>2, <2>3 DEF Expected
    <3> QED BY <1>2, <2>2, <3>2, <3>3
  <2>4. CASE leaf.common_names # <<>> /\ Last(leaf.common_names) # Undecodable
    <3>1. common_name = Last(leaf.common_names)
      BY <2>4 DEF common_name
    <3>2. common_name # Absent /\ common_name \in Text
      BY <1>0, <2>4, <3>1, QuestionProperties
    <3>3. match_hostname(server_hostname, common_name) <=> Denotes(common_name, hostname)
      <4>1. hostname # Absent => hostname \in Text
        BY <1>0, QuestionProperties
      <4>2. server_hostname = IF hostname = Absent THEN Absent
                                                   ELSE PreparedServerHostname(hostname)
        BY <2>2
      <4> QED BY <3>2, <4>1, <4>2, HostMatch
    <3>4. Return(IF match_hostname(server_hostname, common_name)
                   THEN "Ok" ELSE "otherCommonName")
      BY <1>7, <3>2 DEF CheckCommonName
    <3>5. Expected = IF Denotes(common_name, hostname) THEN "Ok" ELSE "otherCommonName"
      BY <2>2, <2>4, <3>1 DEF Expected
    <3>6. CASE Denotes(common_name, hostname)
      <4>1. Return("Ok") /\ Expected = "Ok"
        BY <3>3, <3>4, <3>5, <3>6
      <4> QED BY <1>2, <2>2, <4>1
    <3>7. CASE ~Denotes(common_name, hostname)
      <4>1. Return("otherCommonName") /\ Expected = "otherCommonName"
        BY <3>3, <3>4, <3>5, <3>7
      <4> QED BY <1>2, <2>2, <4>1
    <3> QED BY <3>6, <3>7
  <2> QED BY <2>3, <2>4
<1>8. CASE UNCHANGED vars
  <2>1. /\ hostname' = hostname /\ ip' = ip /\ leaf' = leaf /\ pc' = pc
        /\ server_hostname' = server_hostname /\ server_ip' = server_ip
        /\ index' = index /\ checked_match' = checked_match /\ result' = result
    BY <1>8 DEF vars, args, fields
  <2>2. general_names' = general_names
    BY <2>1 DEF general_names
  <2>3. Expected' = Expected
    BY <2>1 DEF Expected, SomeNameServes, Serves, general_names
  <2>4. \A j \in 1..(index - 1) : Serves(general_names[j])' <=> Serves(general_names[j])
    BY <2>1, <2>2 DEF Serves
  <2> QED BY <1>0, <2>1, <2>2, <2>3, <2>4
<1> QED BY <1>1, <1>3, <1>4, <1>6, <1>7, <1>8 DEF Next

\* The fields, the loop and the answer mean what IdentityInvariant says.
THEOREM IdentityHolds == Spec => []IdentityInvariant
<1>1. Init => IdentityInvariant
  BY DEF Init, IdentityInvariant
<1>2. IdentityInvariant /\ [Next]_vars => IdentityInvariant'
  BY IdentityStep
<1> QED BY <1>1, <1>2, PTL DEF Spec

\* For host names and names of any length and leaves with any number of names:
\* the policy accepts exactly the leaves of which an alternative name, or without
\* any the last common name, denotes the server.
THEOREM IdentityAlwaysCorrect == Spec => []IdentityCorrect
<1>1. IdentityInvariant => IdentityCorrect
  BY DEF IdentityInvariant, IdentityCorrect
<1> QED BY <1>1, IdentityHolds, PTL

\* The parts of a text cut at an index within it.
LEMMA SplitLengths ==
  ASSUME NEW w \in Text, NEW a \in 1..Len(w)
  PROVE  /\ Len(split_around_index(w, a).before) = a - 1
         /\ Len(split_around_index(w, a).after) = Len(w) - a
<1>1. Len(w) \in Nat
  BY TextProperties
<1>2. Len(SubSeq(w, 1, a - 1)) = IF 1 <= a - 1 THEN a - 1 - 1 + 1 ELSE 0
  BY <1>1, SubText
<1>3. Len(SubSeq(w, a + 1, Len(w))) = IF a + 1 <= Len(w) THEN Len(w) - (a + 1) + 1 ELSE 0
  BY <1>1, SubText
<1> QED BY <1>1, <1>2, <1>3 DEF split_around_index

\* The first label and its length.
LEMMA FirstLabelLength ==
  ASSUME NEW b \in Text
  PROVE  /\ IndexOf(ASCII_PERIOD, b) <= Len(b)
         /\ split_around_index(b, IndexOf(ASCII_PERIOD, b)).before \in Text
         /\ Len(split_around_index(b, IndexOf(ASCII_PERIOD, b)).before) = LabelLength(b)
         /\ LabelLength(b) \in Nat
<1>1. IndexOf(ASCII_PERIOD, b) \in 0..Len(b) /\ Len(b) \in Nat
  BY IndexOfProperties, TextProperties
<1>2. LabelLength(b) \in Nat /\ LabelLength(b) \in 0..Len(b)
  BY FirstLabel, TextProperties DEF IsFirstLabel
<1>3. split_around_index(b, IndexOf(ASCII_PERIOD, b)).before = SubSeq(b, 1, LabelLength(b))
  BY SplitAtPeriod
<1> DEFINE m == LabelLength(b)
<1> HIDE DEF m
<1>4. Len(SubSeq(b, 1, m)) = m /\ SubSeq(b, 1, m) \in Text
  <2>1. m \in Nat /\ m \in 0..Len(b)
    BY <1>2 DEF m
  <2>2. /\ Len(SubSeq(b, 1, m)) = IF 1 <= m THEN m - 1 + 1 ELSE 0
        /\ SubSeq(b, 1, m) \in Text
    BY <1>1, <2>1, SubText
  <2> QED BY <2>1, <2>2
<1> QED BY <1>1, <1>2, <1>3, <1>4 DEF m

\* What is cut out of a host's label that is not too short is part of it.
LEMMA ComparisonSlicesWithin ==
  ASSUME NEW nm \in Text, NEW host \in Text,
         AnalysedCertificateHostname(nm) # Absent,
         AnalysedCertificateHostname(nm).asterisk_index # 0,
         PreparedServerHostname(host) # Absent
  PROVE  SlicedWithin(AnalysedCertificateHostname(nm), PreparedServerHostname(host))
<1> DEFINE b == StripPeriod(nm)
           a == IndexOf(ASCII_ASTERISK, b)
           p == IndexOf(ASCII_PERIOD, b)
           m == LabelLength(b)
           g == Canonical(host)
           q == IndexOf(ASCII_PERIOD, g)
           k == LabelLength(g)
           name == AnalysedCertificateHostname(nm)
           target == PreparedServerHostname(host)
<1>1. Acceptable(nm)
  BY AnalysedHostname
<1>2. name.base_name = b /\ name.asterisk_index = a /\ name.first_period_index = p
  BY <1>1, AnalysedHostname
<1>3. target.bytes = g /\ target.first_period_index = q
  BY PreparedHostname
<1>4. b \in Text /\ g \in Text
  BY CanonicalProperties
<1>5. \A i \in 1..Len(b) : is_valid_dns_character(b[i]) \/ (i = a /\ i <= m)
  BY <1>1 DEF Acceptable
<1>6. a # 0
  BY <1>2
<1> HIDE DEF b, g, name, target
<1> DEFINE label == split_around_index(b, p).before
           hostLabel == split_around_index(g, q).before
<1>7. p <= Len(b) /\ label \in Text /\ Len(label) = m /\ m \in Nat
  BY <1>4, FirstLabelLength
<1>8. q <= Len(g) /\ Len(hostLabel) = k /\ k \in Nat
  BY <1>4, FirstLabelLength
<1>9. a \in 0..Len(b) /\ b[a] = ASCII_ASTERISK /\ Len(b) \in Nat
  BY <1>4, <1>6, IndexOfProperties, TextProperties
<1> HIDE DEF a, p, m, q, k
<1>10. a \in 1..m
  BY <1>5, <1>6, <1>7, <1>9, SpecialCharacters
<1> HIDE DEF label, hostLabel
<1>11. /\ Len(split_around_index(label, a).before) = a - 1
       /\ Len(split_around_index(label, a).after) = m - a
  BY <1>7, <1>10, SplitLengths
<1>12. ASSUME ~TooShort(hostLabel, label)
       PROVE  /\ a <= Len(label)
              /\ Len(split_around_index(label, a).before) <= Len(hostLabel)
              /\ Len(split_around_index(label, a).after) <= Len(hostLabel)
  <2>1. m <= k
    BY <1>7, <1>8, <1>12 DEF TooShort
  <2> QED BY <1>7, <1>8, <1>10, <1>11, <2>1
<1>13. /\ label = split_around_index(name.base_name, name.first_period_index).before
       /\ hostLabel = split_around_index(target.bytes, target.first_period_index).before
  BY <1>2, <1>3 DEF label, hostLabel
<1>14. SlicedWithin(name, target)
  BY <1>2, <1>3, <1>7, <1>8, <1>12, <1>13, Zenon DEF SlicedWithin
<1> QED BY <1>14 DEF name, target

\* However long the names are and wherever their periods and asterisks stand,
\* every slice valid_match_for_name takes of the certificate's name and of the
\* host's, for an alternative name or the common name, is within bounds.
THEOREM SlicesAlwaysInRange == Spec => []SlicesInRange
<1>1. ASSUME IdentityInvariant PROVE SlicesInRange
  <2>0. PICK q \in Question : hostname = q.hostname /\ ip = q.ip /\ leaf = q.leaf
    BY <1>1 DEF IdentityInvariant
  <2>1. ASSUME NEW nm \in ComparedNames
        PROVE  nm \in Text
    <3>1. leaf.san # Undecodable
      BY <2>1 DEF ComparedNames
    <3>2. CASE nm \in {common_name} \ {Absent}
      <4>1. /\ leaf.common_names # <<>> /\ Last(leaf.common_names) # Undecodable
            /\ nm = Last(leaf.common_names)
        BY <3>2 DEF common_name
      <4> QED BY <2>0, <4>1, QuestionProperties
    <3>3. CASE nm \notin {common_name} \ {Absent}
      <4>1. PICK i \in DOMAIN general_names :
              general_names[i].kind = "dns" /\ nm = general_names[i].value
        BY <2>1, <3>1, <3>3 DEF ComparedNames
      <4> QED BY <2>0, <3>1, <4>1, QuestionProperties
    <3> QED BY <3>2, <3>3
  <2>2. ASSUME server_hostname # Absent
        PROVE  hostname \in Text /\ server_hostname = PreparedServerHostname(hostname)
    BY <1>1, <2>0, <2>2, QuestionProperties DEF IdentityInvariant
  <2>3. ASSUME server_hostname # Absent, NEW nm \in ComparedNames,
               AnalysedCertificateHostname(nm) # Absent,
               AnalysedCertificateHostname(nm).asterisk_index # 0
        PROVE  SlicedWithin(AnalysedCertificateHostname(nm), server_hostname)
    <3>1. nm \in Text /\ hostname \in Text /\ server_hostname = PreparedServerHostname(hostname)
      BY <2>1, <2>2, <2>3
    <3>2. SlicedWithin(AnalysedCertificateHostname(nm), PreparedServerHostname(hostname))
      BY <2>3, <3>1, ComparisonSlicesWithin
    <3> QED BY <3>1, <3>2, Zenon
  <2> QED BY <2>3, Zenon DEF SlicesInRange
<1> QED BY <1>1, IdentityHolds, PTL
=============================================================================
