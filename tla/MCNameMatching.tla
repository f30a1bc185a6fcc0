--------------------------- MODULE MCNameMatching ---------------------------
(***************************************************************************)
(* Comparisons of names with constraints: all short ones.                  *)
(***************************************************************************)
EXTENDS NameMatching

\* ASCII codes of letters and a digit, and two bytes that differ from a hyphen
\* and from each other only in the bit of the case.
a == 97
b == 98
A == 65
B == 66
one == 49
CarriageReturn == 13
OpenBrace == 123

Batch(k, ns, cs) == [kind |-> k, names |-> ns, constraints |-> cs]

-----------------------------------------------------------------------------
(* DNS names: where a constraint ends, what is valid, how long names may   *)
(* be, wildcards, and bytes that the mask confuses.                        *)

SuffixQuestions ==
  {Batch("dns", SeqOf({a, B, ASCII_PERIOD}, 6), SeqOf({A, b, ASCII_PERIOD}, 4))}

AnyBytes == SeqOf({a, one, ASCII_HYPHEN, ASCII_UNDERSCORE, ASCII_PERIOD, ASCII_ASTERISK}, 4)

ValidityQuestions ==
  {Batch("dns", AnyBytes, {<<>>}),
   Batch("dns", {<<a, ASCII_PERIOD, one, ASCII_PERIOD, a>>}, AnyBytes)}

LongNames == SeqOf({a, ASCII_PERIOD}, 8)

LengthQuestions ==
  {Batch("dns", LongNames, {<<>>, <<a>>, <<ASCII_PERIOD, a>>}),
   Batch("dns", {<<b, ASCII_PERIOD, a, a, a>>}, LongNames)}

Wildcards == {<<ASCII_ASTERISK, ASCII_PERIOD>> \o n : n \in SeqOf({a, B, ASCII_PERIOD}, 4)}

WildcardQuestions ==
  {Batch("dns", Wildcards,
         SeqOf({A, b, ASCII_PERIOD}, 2)
           \cup {<<b, ASCII_PERIOD, a>>, <<ASCII_ASTERISK, ASCII_PERIOD, b, ASCII_PERIOD, a>>})}

Confusable == SeqOf({a, ASCII_HYPHEN, CarriageReturn, ASCII_OPEN_BRACKET, OpenBrace}, 3)

MaskQuestions == {Batch("dns", Confusable, Confusable)}

-----------------------------------------------------------------------------
(* URIs: what follows the scheme, where the scheme ends, and addresses.    *)

Scheme == <<b>> \o SchemeEnd

HostTexts ==
  SeqOf({A, ASCII_PERIOD, ASCII_COLON, ASCII_AT, ASCII_SLASH}, 6)
  \cup SeqOf({a, ASCII_COLON, ASCII_OPEN_BRACKET, ASCII_CLOSE_BRACKET, ASCII_AT}, 4)
  \cup SeqOf({a, ASCII_AT, ASCII_QUESTION_MARK, ASCII_NUMBER_SIGN}, 4)
  \cup {<<one, ASCII_PERIOD, one, ASCII_PERIOD, one, ASCII_PERIOD, one>>,
        <<ASCII_OPEN_BRACKET, ASCII_COLON, ASCII_COLON, one, ASCII_CLOSE_BRACKET>>}

UriQuestions ==
  {Batch("uri", {Scheme \o t : t \in HostTexts}, {<<>>, <<a>>, <<ASCII_PERIOD, a>>}),
   Batch("uri", SeqOf({a, ASCII_COLON, ASCII_SLASH}, 7), {<<a>>})}

MCIpv6Text == {<<ASCII_COLON, ASCII_COLON>>, <<ASCII_COLON, ASCII_COLON, one>>}

-----------------------------------------------------------------------------
(* Addresses: masks with every mix of octets, lengths that do not fit.     *)

OctetOf(n) == [k \in 1..8 |-> (n \div 2^(8 - k)) % 2]

MaskOctets == {OctetOf(n) : n \in {255, 254, 128, 64, 1, 0}}

Address(first, rest, n) == <<OctetOf(first)>> \o [k \in 1..(n - 1) |-> OctetOf(rest)]

Bases == {Address(255, 1, 4), Address(128, 0, 4)}
Addresses == Bases \cup {Address(254, 1, 4), Address(255, 0, 4)}

Ipv6Masks ==
  {[k \in 1..16 |-> IF k < i THEN AllOnes ELSE IF k = i THEN o ELSE z] :
     i \in {1, 2, 16}, o \in MaskOctets, z \in {AllZeros, OctetOf(1)}}

AddressQuestions ==
  {Batch("ip", Addresses, {base \o mask : base \in Bases, mask \in [1..4 -> MaskOctets]}),
   Batch("ip", {Address(255, 1, 16), Address(255, 0, 16)},
         {Address(255, 1, 16) \o mask : mask \in Ipv6Masks}),
   Batch("ip", {Address(255, 1, n) : n \in {1, 4, 8, 16}},
         {Address(255, 1, n) \o Address(255, 255, n) : n \in {2, 4, 8, 16}})}

-----------------------------------------------------------------------------
MCQuestions ==
  SuffixQuestions \cup ValidityQuestions \cup LengthQuestions \cup WildcardQuestions
    \cup MaskQuestions \cup UriQuestions \cup AddressQuestions
=============================================================================
