---------------------------- MODULE IpConstraints ----------------------------
(***************************************************************************)
(* Comparing an IP address with a constraint, as the code does it: octet   *)
(* by octet, with a mask whose shape is tested by shifting.                *)
(***************************************************************************)
EXTENDS NameSubtrees

Octet == [1..8 -> {0, 1}]

AllOnes == [k \in 1..8 |-> 1]
AllZeros == [k \in 1..8 |-> 0]

Not(byte) == [k \in 1..8 |-> 1 - byte[k]]

And(a, b) == [k \in 1..8 |-> a[k] * b[k]]

\* Shifting by n < 8; the bits that leave the octet on the left are lost.
wrapping_shl(byte, n) == [k \in 1..8 |-> IF k + n <= 8 THEN byte[k + n] ELSE 0]

leading_zeros(byte) ==
  LET first == SelectInSeq(byte, LAMBDA bit : bit = 1)
  IN  IF first = 0 THEN 8 ELSE first - 1

\* Slip: what follows the first octet that is not all ones is not looked at.
is_valid_cidr_mask_first_octet(mask) ==
  LET first_interesting_index == SelectInSeq(mask, LAMBDA byte : byte # AllOnes)
      byte                    == mask[first_interesting_index]
  IN  \/ first_interesting_index = 0
      \/ wrapping_shl(byte, leading_zeros(Not(byte))) = AllZeros

\* Ones and then zeros: after the octets that are all ones, shifting the ones
\* off the next must leave nothing, and nothing may follow.
is_valid_cidr_mask(mask) ==
  LET first_interesting_index == SelectInSeq(mask, LAMBDA byte : byte # AllOnes)
      byte                    == mask[first_interesting_index]
      leading_one_count       == leading_zeros(Not(byte))
  IN  \/ first_interesting_index = 0
      \/ /\ leading_one_count < 8 => wrapping_shl(byte, leading_one_count) = AllZeros
         /\ \A i \in (first_interesting_index + 1)..Len(mask) : mask[i] = AllZeros

address_is_in_subnet(address, subnet) ==
  LET base == SubSeq(subnet, 1, Len(subnet) \div 2)
      mask == SubSeq(subnet, (Len(subnet) \div 2) + 1, Len(subnet))
  IN  /\ is_valid_cidr_mask(mask)
      /\ \A i \in DOMAIN address : And(address[i], mask[i]) = And(base[i], mask[i])

ip_address_matches_constraint(ip_address, constraint) ==
  /\ <<Len(ip_address), Len(constraint)>> \in {<<4, 8>>, <<16, 32>>}
  /\ address_is_in_subnet(ip_address, constraint)
=============================================================================
