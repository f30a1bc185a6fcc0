--------------------------- MODULE UriConstraints ---------------------------
(***************************************************************************)
(* The host of a URI, as the code cuts it out.  No host is the empty text: *)
(* the code never returns an empty host.                                   *)
(***************************************************************************)
EXTENDS NameSubtrees

CONSTANT Ipv6Text   \* the texts that Rust's library reads as an IPv6 address

\* Every notation of an IPv6 address has a colon.
ASSUME Ipv6TextAssumption ==
  \A text \in Ipv6Text : \E i \in DOMAIN text : text[i] = ASCII_COLON

FirstOf(bytes, text) == SelectInSeq(text, LAMBDA b : b \in bytes)
LastOf(byte, text) == SelectLastInSeq(text, LAMBDA b : b = byte)

From(text, i) == SubSeq(text, i, Len(text))
UpTo(text, i) == SubSeq(text, 1, i)

\* What follows the first "://", up to a delimiter.
Authority(uri) ==
  LET separators == {i \in DOMAIN uri : OccursAt(uri, i, SchemeEnd)}
      after_scheme == From(uri, Min(separators) + 3)
      authority_end == FirstOf(Delimiter, after_scheme)
  IN  IF separators = {} THEN <<>>
      ELSE IF authority_end = 0 THEN after_scheme
      ELSE UpTo(after_scheme, authority_end - 1)

\* Slip: the first at sign ends the user, not the last.
HostAndPortAfterFirstAt(authority) == From(authority, FirstOf({ASCII_AT}, authority) + 1)

HostAndPort(authority) == From(authority, LastOf(ASCII_AT, authority) + 1)

\* What is in brackets, or what precedes the last colon.
Host(host_and_port) ==
  LET end         == FirstOf({ASCII_CLOSE_BRACKET}, host_and_port)
      colon_index == LastOf(ASCII_COLON, host_and_port)
  IN  IF host_and_port # <<>> /\ Head(host_and_port) = ASCII_OPEN_BRACKET
        THEN SubSeq(host_and_port, 2, end - 1)
        ELSE IF colon_index = 0 THEN host_and_port ELSE UpTo(host_and_port, colon_index - 1)

extract_host(uri) == Lowered(Host(HostAndPort(Authority(uri))))

\* Decimal numbers up to 255 without leading zeros.
IsDecimalOctet(text) ==
  /\ Len(text) \in 1..3
  /\ \A i \in DOMAIN text : text[i] \in Numeric
  /\ Len(text) > 1 => text[1] # 48
  /\ Len(text) = 3 =>
       100 * (text[1] - 48) + 10 * (text[2] - 48) + (text[3] - 48) <= 255

IsIpv4Text(text) ==
  \E i, j, k \in DOMAIN text :
    /\ i < j /\ j < k
    /\ text[i] = ASCII_PERIOD /\ text[j] = ASCII_PERIOD /\ text[k] = ASCII_PERIOD
    /\ IsDecimalOctet(UpTo(text, i - 1))
    /\ IsDecimalOctet(SubSeq(text, i + 1, j - 1))
    /\ IsDecimalOctet(SubSeq(text, j + 1, k - 1))
    /\ IsDecimalOctet(From(text, k + 1))

is_ip_address(host) == IsIpv4Text(host) \/ host \in Ipv6Text
=============================================================================
