---------------------------- MODULE NameMatching ----------------------------
(***************************************************************************)
(* Is a name of a certificate in the subtree of a name constraint?  The    *)
(* three comparisons the name constraints policy makes, one for each kind  *)
(* of name; a URI is compared by its host, as a DNS name.  The loops of    *)
(* the DNS comparison are here iteration by iteration: the two passes that *)
(* validate the name and the constraint, and the walk over their labels    *)
(* from the right.                                                         *)
(*                                                                         *)
(* An Option is a sequence of at most one element.                         *)
(***************************************************************************)
EXTENDS UriConstraints, IpConstraints

CONSTANT Questions   \* [kind, names, constraints]: compare each of the names with
                     \* each of the constraints

ASSUME QuestionAssumption ==
  \A q \in Questions :
    /\ q.kind \in {"dns", "uri", "ip"}
    /\ q.kind # "ip" => \A text \in q.names \cup q.constraints : text \in Seq(Nat)
    /\ q.kind = "ip" => \A octets \in q.names \cup q.constraints : octets \in Seq(Octet)

VARIABLES
  kind, name, constraint,            \* the arguments
  pc,
  dns_name,                          \* the name that is compared as a DNS name
  is_constraint,                     \* the constraint is validated, not the name
  bytes, label_count, is_wildcard,   \* locals of is_valid_dns_name
  dns_labels, constraint_labels,     \* the two iterators: what remains, if any
  matched                            \* what was returned

args == <<kind, name, constraint>>
validation == <<is_constraint, bytes, label_count, is_wildcard>>
iterators == <<dns_labels, constraint_labels>>
vars == <<args, pc, dns_name, validation, iterators, matched>>

-----------------------------------------------------------------------------
Init ==
  /\ \E q \in Questions : kind = q.kind /\ name \in q.names /\ constraint \in q.constraints
  /\ pc = "called"
  /\ dns_name = <<>>
  /\ is_constraint = FALSE
  /\ bytes = <<>>
  /\ label_count = 0
  /\ is_wildcard = FALSE
  /\ dns_labels = <<>>
  /\ constraint_labels = <<>>
  /\ matched = FALSE

Return(answer) ==
  /\ pc' = "returned"
  /\ matched' = answer
  /\ UNCHANGED <<args, dns_name, validation, iterators>>

\* dns_name_matches_constraint is called.
CompareAsDnsName(n) ==
  /\ pc' = "validate"
  /\ dns_name' = n
  /\ UNCHANGED <<args, validation, iterators, matched>>

-----------------------------------------------------------------------------
(* The three kinds.                                                        *)

MatchDnsName == pc = "called" /\ kind = "dns" /\ CompareAsDnsName(name)

MatchUri ==
  /\ pc = "called" /\ kind = "uri"
  /\ LET host == extract_host(name)
     IN  IF host = <<>> \/ is_ip_address(host) THEN Return(FALSE) ELSE CompareAsDnsName(host)

MatchIpAddress ==
  /\ pc = "called" /\ kind = "ip"
  /\ Return(ip_address_matches_constraint(name, constraint))

-----------------------------------------------------------------------------
(* is_valid_dns_name.                                                      *)

\* A wildcard is the asterisk and the period after it.
BeginValidation ==
  /\ pc = "validate"
  /\ LET n          == IF is_constraint THEN constraint ELSE dns_name
         asterisk   == n # <<>> /\ Head(n) = ASCII_ASTERISK
         full_label == Len(n) > 1 /\ n[2] = ASCII_PERIOD
     IN  IF Len(n) > MAXIMUM_NAME_LENGTH \/ (asterisk /\ ~full_label)
           THEN Return(FALSE)
           ELSE /\ pc' = "labels"
                /\ bytes' = IF asterisk THEN From(n, 3) ELSE n
                /\ label_count' = IF asterisk THEN 1 ELSE 0
                /\ is_wildcard' = asterisk
                /\ UNCHANGED <<args, dns_name, is_constraint, iterators, matched>>

\* Slip: bytes that are no part of a label pass.
IsBadLabelOfAnyBytes(label, count, last) ==
  \/ label = <<>> /\ ~(count = 1 /\ is_constraint)
  \/ label # <<>> /\ (Head(label) = ASCII_HYPHEN \/ Last(label) = ASCII_HYPHEN)
  \/ Len(label) > MAXIMUM_LABEL_LENGTH
  \/ last /\ \A i \in DOMAIN label : label[i] \in Numeric

\* An empty label, except first in a constraint; hyphens at the ends; length;
\* other bytes; and a last label of digits only.
IsBadLabel(label, count, last) ==
  \/ label = <<>> /\ ~(count = 1 /\ is_constraint)
  \/ label # <<>> /\ (Head(label) = ASCII_HYPHEN \/ Last(label) = ASCII_HYPHEN)
  \/ Len(label) > MAXIMUM_LABEL_LENGTH
  \/ \E i \in DOMAIN label : label[i] \notin LabelByte
  \/ last /\ \A i \in DOMAIN label : label[i] \in Numeric

ValidateLabel ==
  /\ pc = "labels" /\ bytes # <<>>
  /\ LET period_index == FirstOf({ASCII_PERIOD}, bytes)
         label        == IF period_index = 0 THEN bytes ELSE UpTo(bytes, period_index - 1)
         rest         == IF period_index = 0 THEN <<>> ELSE From(bytes, period_index + 1)
     IN  IF IsBadLabel(label, label_count + 1, rest = <<>>)
           THEN Return(FALSE)
           ELSE /\ bytes' = rest
                /\ label_count' = label_count + 1
                /\ UNCHANGED <<args, pc, dns_name, is_constraint, is_wildcard, iterators, matched>>

TooFewLabels == is_wildcard /\ label_count < 3

RejectWildcard ==
  /\ pc = "labels" /\ bytes = <<>> /\ TooFewLabels
  /\ Return(FALSE)

\* The name is valid: on to the constraint.
NameIsValid ==
  /\ pc = "labels" /\ bytes = <<>> /\ ~TooFewLabels /\ ~is_constraint
  /\ pc' = "validate"
  /\ is_constraint' = TRUE
  /\ UNCHANGED <<args, dns_name, bytes, label_count, is_wildcard, iterators, matched>>

\* So is the constraint: the empty one matches, others are walked.
ConstraintIsValid ==
  /\ pc = "labels" /\ bytes = <<>> /\ ~TooFewLabels /\ is_constraint
  /\ IF constraint = <<>>
       THEN Return(TRUE)
       ELSE /\ pc' = "walk"
            /\ dns_labels' = <<dns_name>>
            /\ constraint_labels' = <<StripPeriod(constraint)>>
            /\ UNCHANGED <<args, dns_name, validation, matched>>

-----------------------------------------------------------------------------
(* The walk.                                                               *)

\* Slip: the first label is returned over and over.
NextLabelWithoutEnd(remaining) ==
  IF remaining = <<>>
    THEN [item |-> <<>>, remaining |-> <<>>]
    ELSE LET base         == remaining[1]
             period_index == LastOf(ASCII_PERIOD, base)
         IN  [item      |-> <<From(base, period_index + 1)>>,
              remaining |-> IF period_index = 0 THEN remaining
                            ELSE <<UpTo(base, period_index - 1)>>]

\* ReverseDnsLabels::next: the last label, and the iterator without it.
NextLabel(remaining) ==
  IF remaining = <<>>
    THEN [item |-> <<>>, remaining |-> <<>>]
    ELSE LET base         == remaining[1]
             period_index == LastOf(ASCII_PERIOD, base)
         IN  [item      |-> <<From(base, period_index + 1)>>,
              remaining |-> IF period_index = 0 THEN <<>>
                            ELSE <<UpTo(base, period_index - 1)>>]

\* Clears the bit in which the cases of a letter differ, in every byte.
Masked(text) ==
  [i \in DOMAIN text |-> IF (text[i] \div 32) % 2 = 1 THEN text[i] - 32 ELSE text[i]]

case_insensitive_ascii_match(a, b) == Masked(a) = Masked(b)

WalkLabels ==
  /\ pc = "walk"
  /\ LET dns  == NextLabel(dns_labels)
         base == NextLabel(constraint_labels)
     IN  IF base.item = <<>> THEN Return(TRUE)
         ELSE IF dns.item = <<>> \/ dns.item = <<<<>>>> THEN Return(FALSE)
         ELSE IF base.item = <<<<>>>> THEN Return(base.remaining = <<>>)
         ELSE IF ~case_insensitive_ascii_match(dns.item[1], base.item[1]) THEN Return(FALSE)
         ELSE /\ dns_labels' = dns.remaining
              /\ constraint_labels' = base.remaining
              /\ UNCHANGED <<args, pc, dns_name, validation, matched>>

-----------------------------------------------------------------------------
Next ==
  \/ MatchDnsName
  \/ MatchUri
  \/ MatchIpAddress
  \/ BeginValidation
  \/ ValidateLabel
  \/ RejectWildcard
  \/ NameIsValid
  \/ ConstraintIsValid
  \/ WalkLabels

Spec == Init /\ [][Next]_vars

-----------------------------------------------------------------------------
(* Properties.                                                             *)

\* The comparison answers that a name is in a subtree exactly if it is: for DNS
\* names if the constraint is a suffix at a label boundary and both are valid;
\* for URIs the same of the host, wherever user, port and path put it; for
\* addresses if the bits the prefix covers agree.
MatchCorrect == pc = "returned" => matched = InSubtreeOfKind(kind, name, constraint)

\* How far a comparison is, and how much is left of the loop it is in.
Phase ==
  IF pc = "called" THEN 0
  ELSE IF pc = "validate" THEN (IF is_constraint THEN 3 ELSE 1)
  ELSE IF pc = "labels" THEN (IF is_constraint THEN 4 ELSE 2)
  ELSE IF pc = "walk" THEN 5
  ELSE 6

Left ==
  IF pc = "labels" THEN Len(bytes)
  ELSE IF pc = "walk" /\ constraint_labels # <<>> THEN Len(constraint_labels[1]) + 1
  ELSE 0

\* Every comparison ends: each step is one towards a later phase, or takes
\* something from what the loop has left, whatever the name and the constraint.
EveryStepProgresses ==
  [][Phase' > Phase \/ (Phase' = Phase /\ Left' < Left)]_vars

\* The comment on uri_name_matches_constraint: a constraint that does not begin
\* with a period specifies a host, not a domain.
HostConstraintNamesOneHost ==
  (/\ pc = "returned" /\ matched /\ kind = "uri"
   /\ constraint # <<>> /\ Head(constraint) # ASCII_PERIOD)
  => extract_host(name) = Lowered(StripPeriod(constraint))
=============================================================================
