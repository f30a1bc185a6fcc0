---------------------------- MODULE NameSubtrees ----------------------------
(***************************************************************************)
(* Which names a name constraint covers, said declaratively: positions and *)
(* suffixes instead of the loops, cursors and slices of the code.  DNS     *)
(* names and URIs are sequences of ASCII codes, addresses and masks are    *)
(* sequences of octets, and an octet is a sequence of eight bits, the most *)
(* significant one first.                                                  *)
(***************************************************************************)
EXTENDS Integers, SequencesExt

CONSTANTS
  MAXIMUM_LABEL_LENGTH,
  MAXIMUM_NAME_LENGTH

ASSUME LimitAssumption ==
  MAXIMUM_LABEL_LENGTH \in Nat \ {0} /\ MAXIMUM_NAME_LENGTH \in Nat

ASCII_PERIOD == 46
ASCII_ASTERISK == 42
ASCII_HYPHEN == 45
ASCII_UNDERSCORE == 95
ASCII_SLASH == 47
ASCII_QUESTION_MARK == 63
ASCII_NUMBER_SIGN == 35
ASCII_AT == 64
ASCII_COLON == 58
ASCII_OPEN_BRACKET == 91
ASCII_CLOSE_BRACKET == 93

Numeric == 48..57
UpperCase == 65..90
Letter == UpperCase \cup 97..122

LabelByte == Numeric \cup Letter \cup {ASCII_HYPHEN, ASCII_UNDERSCORE}

Lowered(text) ==
  [i \in DOMAIN text |-> IF text[i] \in UpperCase THEN text[i] + 32 ELSE text[i]]

StripPeriod(name) ==
  IF name # <<>> /\ Last(name) = ASCII_PERIOD THEN Front(name) ELSE name

-----------------------------------------------------------------------------
(* DNS names.                                                              *)

AtLabelBoundary(name, i) == i \notin DOMAIN name \/ name[i] = ASCII_PERIOD

\* One period at the end is allowed.  A name that may lead with a period is a
\* constraint; an asterisk is a whole first label, before two or more others.
IsAcceptable(name, may_lead) ==
  LET body    == StripPeriod(name)
      periods == {i \in DOMAIN body : body[i] = ASCII_PERIOD}
  IN  /\ Len(name) <= MAXIMUM_NAME_LENGTH
      /\ name # <<>> =>
           /\ body # <<>> /\ Last(body) # ASCII_PERIOD
           /\ \A i \in DOMAIN body :
                \/ /\ body[i] \in LabelByte
                   /\ body[i] = ASCII_HYPHEN =>
                        ~AtLabelBoundary(body, i - 1) /\ ~AtLabelBoundary(body, i + 1)
                \/ /\ body[i] = ASCII_PERIOD
                   /\ IF i = 1 THEN may_lead ELSE body[i - 1] # ASCII_PERIOD
                \/ /\ body[i] = ASCII_ASTERISK /\ i = 1
                   /\ 2 \in periods /\ \E j \in periods : j > 2
           /\ \A i \in DOMAIN body :
                i + MAXIMUM_LABEL_LENGTH <= Len(body)
                  => \E j \in periods : i <= j /\ j <= i + MAXIMUM_LABEL_LENGTH
           /\ \E i \in DOMAIN body :   \* the last label is not all numeric
                /\ body[i] \notin Numeric
                /\ \A j \in periods : j < i

\* Labels are added on the left: none or more, and one or more if the
\* constraint has a leading period.  Case does not matter, nor does a period at
\* the end of the constraint; a name that ends in one is in no subtree but the
\* one of all names.
InDnsSubtree(name, constraint) ==
  LET base == Lowered(StripPeriod(constraint))
  IN  /\ IsAcceptable(name, FALSE)
      /\ IsAcceptable(constraint, TRUE)
      /\ \/ constraint = <<>>
         \/ Head(base) = ASCII_PERIOD /\ IsSuffix(base, Lowered(name))
         \/ Head(base) # ASCII_PERIOD /\ base = Lowered(name)
         \/ /\ Head(base) # ASCII_PERIOD
            /\ IsSuffix(<<ASCII_PERIOD>> \o base, Lowered(name))

-----------------------------------------------------------------------------
(* URIs.                                                                   *)

SchemeEnd == <<ASCII_COLON, ASCII_SLASH, ASCII_SLASH>>
Delimiter == {ASCII_SLASH, ASCII_QUESTION_MARK, ASCII_NUMBER_SIGN}

OccursAt(uri, i, text) ==
  i + Len(text) - 1 <= Len(uri) /\ SubSeq(uri, i, i + Len(text) - 1) = text

Free(uri, from, to, bytes) == \A i \in from..to : uri[i] \notin bytes

\* The bytes from a to z are the authority: from the first "://" to a delimiter.
IsAuthority(uri, a, z) ==
  /\ a > 3 /\ OccursAt(uri, a - 3, SchemeEnd)
  /\ \A i \in 1..(a - 4) : ~OccursAt(uri, i, SchemeEnd)
  /\ Free(uri, a, z, Delimiter)
  /\ z = Len(uri) \/ uri[z + 1] \in Delimiter

\* The bytes from h to z are the host with its port: what follows the user.
IsHostAndPort(uri, h, z) ==
  \E a \in 1..h :
    /\ IsAuthority(uri, a, z)
    /\ h = a \/ uri[h - 1] = ASCII_AT
    /\ Free(uri, h, z, {ASCII_AT})

\* A host is in brackets, or ends where the last colon begins the port.
IsHost(uri, i, j) ==
  \E z \in j..Len(uri) :
    \/ /\ i > 1 /\ uri[i - 1] = ASCII_OPEN_BRACKET
       /\ IsHostAndPort(uri, i - 1, z)
       /\ j < z /\ uri[j + 1] = ASCII_CLOSE_BRACKET
       /\ Free(uri, i, j, {ASCII_CLOSE_BRACKET})
    \/ /\ uri[i] # ASCII_OPEN_BRACKET
       /\ IsHostAndPort(uri, i, z)
       /\ \/ j = z /\ Free(uri, i, z, {ASCII_COLON})
          \/ /\ j < z /\ uri[j + 1] = ASCII_COLON
             /\ Free(uri, j + 2, z, {ASCII_COLON})

\* A URI whose host is an IP address, or that has none, is in no subtree.
InUriSubtree(uri, constraint) ==
  \E i, j \in DOMAIN uri :
    /\ i <= j /\ IsHost(uri, i, j)
    /\ InDnsSubtree(SubSeq(uri, i, j), constraint)

-----------------------------------------------------------------------------
(* IP addresses: a constraint is a base address and a mask.                *)

Bit(octets, k) == octets[((k - 1) \div 8) + 1][((k - 1) % 8) + 1]

\* The mask is n ones and then zeros, for some n, and the first n bits agree.
InSubnet(address, base, mask) ==
  \E n \in 0..(8 * Len(address)) :
    /\ \A k \in 1..(8 * Len(address)) : Bit(mask, k) = 1 <=> k <= n
    /\ \A k \in 1..n : Bit(address, k) = Bit(base, k)

InIpSubtree(address, constraint) ==
  /\ Len(address) \in {4, 16}
  /\ Len(constraint) = 2 * Len(address)
  /\ InSubnet(address, SubSeq(constraint, 1, Len(address)),
              SubSeq(constraint, Len(address) + 1, Len(constraint)))

-----------------------------------------------------------------------------
InSubtreeOfKind(kind, name, constraint) ==
  \/ kind = "dns" /\ InDnsSubtree(name, constraint)
  \/ kind = "uri" /\ InUriSubtree(name, constraint)
  \/ kind = "ip" /\ InIpSubtree(name, constraint)
=============================================================================
