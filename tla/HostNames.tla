------------------------------ MODULE HostNames ------------------------------
(***************************************************************************)
(* Comparing the host name a server was reached under with the names in    *)
(* its certificate: how the server identity policy does it, and what it    *)
(* amounts to.  A name is a sequence of characters; an index is 0 where    *)
(* the code has None.                                                      *)
(***************************************************************************)
EXTENDS SequencesExt

CONSTANTS
  Absent,        \* Rust's None
  Character,     \* what names are made of
  Alphanumeric,  \* ASCII letters and digits
  LowerCase      \* the lower-case letter of each upper-case one

Text == Seq(Character)

\* What is known of ASCII characters.
ASSUME CharacterAssumption ==
  /\ Alphanumeric \cup {".", "*", "-"} \subseteq Character
  /\ Alphanumeric \cap {".", "*", "-"} = {}
  /\ {"x", "n"} \subseteq Alphanumeric \ DOMAIN LowerCase
  /\ DOMAIN LowerCase \subseteq Alphanumeric
  /\ \A c \in DOMAIN LowerCase : LowerCase[c] \in Alphanumeric \ DOMAIN LowerCase

\* None is no host name.
ASSUME AbsentAssumption ==
  /\ Absent \notin [bytes : Text, first_period_index : Nat]
  /\ Absent \notin [base_name : Text, asterisk_index : Nat, first_period_index : Nat]

ASCII_PERIOD == "."
ASCII_ASTERISK == "*"
ASCII_IDNA_IDENTIFIER == <<"x", "n", "-", "-">>

Lower(c) == IF c \in DOMAIN LowerCase THEN LowerCase[c] ELSE c

Lowered(name) == [i \in DOMAIN name |-> Lower(name[i])]

case_insensitive_ascii_match(a, b) == Lowered(a) = Lowered(b)

is_valid_dns_character(c) == c \in Alphanumeric \cup {"-", ASCII_PERIOD}

IndexOf(c, name) == SelectInSeq(name, LAMBDA d : d = c)

StripPeriod(name) ==
  IF name # <<>> /\ Last(name) = ASCII_PERIOD THEN Front(name) ELSE name

-----------------------------------------------------------------------------
(* The code.                                                               *)

\* Slip: a period that was stripped is still taken for a separator.
PreparedWithStaleIndex(hostname) ==
  IF \A i \in DOMAIN hostname : is_valid_dns_character(hostname[i])
    THEN [bytes |-> StripPeriod(Lowered(hostname)),
          first_period_index |-> IndexOf(ASCII_PERIOD, hostname)]
    ELSE Absent

\* The host name the caller asks about.
PreparedServerHostname(hostname) ==
  LET bytes == StripPeriod(Lowered(hostname))
      index == IndexOf(ASCII_PERIOD, hostname)
  IN  IF \A i \in DOMAIN hostname : is_valid_dns_character(hostname[i])
        THEN [bytes |-> bytes,
              first_period_index |-> IF index > Len(bytes) THEN 0 ELSE index]
        ELSE Absent

\* A name from a certificate.  An asterisk_index of 0 makes it a single name,
\* any other a wildcard: one asterisk, before any period, in no IDNA A-label.
AnalysedCertificateHostname(dns_name) ==
  LET base_name  == StripPeriod(dns_name)
      period     == IndexOf(ASCII_PERIOD, base_name)
      asterisk   == IndexOf(ASCII_ASTERISK, base_name)
      prefix_len == IF Len(base_name) < 4 THEN Len(base_name) ELSE 4
      acceptable == \A i \in DOMAIN base_name :
                      \/ is_valid_dns_character(base_name[i])
                      \/ i = asterisk /\ (period = 0 \/ i < period)
      is_a_label == case_insensitive_ascii_match(
                      SubSeq(base_name, 1, prefix_len),
                      SubSeq(ASCII_IDNA_IDENTIFIER, 1, prefix_len))
  IN  IF ~acceptable \/ (asterisk # 0 /\ is_a_label)
        THEN Absent
        ELSE [base_name |-> base_name,
              asterisk_index |-> asterisk,
              first_period_index |-> period]

split_around_index(bytes, index) ==
  IF index = 0
    THEN [before |-> bytes, after |-> <<>>]
    ELSE [before |-> SubSeq(bytes, 1, index - 1),
          after  |-> SubSeq(bytes, index + 1, Len(bytes))]

\* Slip: the asterisk may stand for nothing.
TooShortByOne(label, wildcard_label) == Len(label) + 1 < Len(wildcard_label)

\* Slip: labels of any length are compared.
NeverTooShort(label, wildcard_label) == FALSE

\* With this the asterisk stands for at least one character.
TooShort(label, wildcard_label) == Len(label) < Len(wildcard_label)

valid_match_for_name(name, target) ==
  IF name.asterisk_index = 0
    THEN case_insensitive_ascii_match(name.base_name, target.bytes)
    ELSE LET wildcard == split_around_index(name.base_name, name.first_period_index)
             host     == split_around_index(target.bytes, target.first_period_index)
             affixes  == split_around_index(wildcard.before, name.asterisk_index)
             rest     == Len(host.before) - Len(affixes.after)
         IN  /\ case_insensitive_ascii_match(wildcard.after, host.after)
             /\ ~TooShort(host.before, wildcard.before)
             /\ case_insensitive_ascii_match(
                  SubSeq(host.before, 1, Len(affixes.before)), affixes.before)
             /\ case_insensitive_ascii_match(
                  SubSeq(host.before, rest + 1, Len(host.before)), affixes.after)

match_hostname(server_hostname, dns_name) ==
  /\ server_hostname # Absent
  /\ AnalysedCertificateHostname(dns_name) # Absent
  /\ valid_match_for_name(AnalysedCertificateHostname(dns_name), server_hostname)

-----------------------------------------------------------------------------
(* What it amounts to.                                                     *)

\* Case and a trailing period do not matter.
Canonical(name) == StripPeriod(Lowered(name))

\* A name of one label and a name of that label and an empty one are told
\* apart only where there is no wildcard.
FirstLabelOnly(name) ==
  IF IndexOf(ASCII_PERIOD, name) = Len(name) THEN StripPeriod(name) ELSE name

\* The host is what the pattern becomes when the asterisk in its first label is
\* replaced by one or more characters, none of them a period.
Instantiates(host, pattern) ==
  \E i \in DOMAIN pattern, n \in 1..Len(host) :
    LET before == SubSeq(pattern, 1, i - 1)
        after  == SubSeq(pattern, i + 1, Len(pattern))
        filler == SubSeq(host, i, i + n - 1)
    IN  /\ pattern[i] = ASCII_ASTERISK
        /\ i + n - 1 <= Len(host)
        /\ host = before \o filler \o after
        /\ IndexOf(ASCII_PERIOD, before \o filler) = 0

\* A host name that may be asked about is denoted by the same name, and by
\* wildcards that are not A-labels.
Denotes(name, hostname) ==
  /\ hostname # Absent
  /\ \A i \in DOMAIN hostname : is_valid_dns_character(hostname[i])
  /\ \/ Canonical(name) = Canonical(hostname)
     \/ /\ ~IsPrefix(ASCII_IDNA_IDENTIFIER, Lowered(name))
        /\ Instantiates(FirstLabelOnly(Canonical(hostname)), FirstLabelOnly(Canonical(name)))
=============================================================================
