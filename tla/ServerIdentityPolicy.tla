------------------------ MODULE ServerIdentityPolicy ------------------------
(***************************************************************************)
(* ServerIdentityPolicy: is the leaf authoritative for the host name or    *)
(* the IP address a server was reached under?  One action is one iteration *)
(* over the subject alternative names, or the step after them.             *)
(*                                                                         *)
(* A leaf is [san, common_names]: san is Absent, Undecodable (repeated or  *)
(* malformed) or a sequence of [kind, value]; common_names is the sequence *)
(* of common names in the subject, one that is no string being             *)
(* Undecodable.  The value of an "ip" name is [len, octets], the number of *)
(* octets and what they are; the text of an IP address is [form, octets],  *)
(* with a form other than "V4" and "V6" for one that does not parse.       *)
(***************************************************************************)
EXTENDS HostNames

CONSTANTS
  Undecodable,
  Question   \* [hostname, ip, leaf]: what a policy is created with, each Absent
             \* or a text, and the leaf it is asked about

VARIABLES
  hostname, ip,                \* the arguments of new
  server_hostname, server_ip,  \* the policy's fields
  leaf,                        \* the leaf of the chain
  pc,
  index,                       \* the name at hand
  checked_match,               \* some name was looked at
  result

args == <<hostname, ip, leaf>>
fields == <<server_hostname, server_ip>>
vars == <<args, fields, pc, index, checked_match, result>>

-----------------------------------------------------------------------------
(* IP addresses.                                                           *)

IpAddress(family, octets) == [family |-> family, octets |-> octets]

parse(text) ==
  IF text # Absent /\ text.form \in {"V4", "V6"}
    THEN IpAddress(text.form, text.octets)
    ELSE Absent

from_san_bytes(value) ==
  IF value.len = 4 THEN IpAddress("V4", value.octets)
  ELSE IF value.len = 16 THEN IpAddress("V6", value.octets)
  ELSE Absent

match_ip_address(address, certificate_ip) ==
  address # Absent /\ certificate_ip # Absent /\ address = certificate_ip

-----------------------------------------------------------------------------
\* Host names, dNSNames and common names are texts, and there are lists of names.
ASSUME QuestionAssumption ==
  \A q \in Question :
    /\ q.hostname # Absent => q.hostname \in Text
    /\ q.ip # Absent => IpAddress(q.ip.form, q.ip.octets) # Absent
    /\ q.leaf.san \notin {Absent, Undecodable} =>
         /\ q.leaf.san \in Seq(ToSet(q.leaf.san))
         /\ \A name \in ToSet(q.leaf.san) : name.kind = "dns" => name.value \in Text
    /\ q.leaf.common_names \in Seq(ToSet(q.leaf.common_names))
    /\ \A name \in ToSet(q.leaf.common_names) :
         name # Undecodable => name # Absent /\ name \in Text

Init ==
  /\ \E q \in Question : hostname = q.hostname /\ ip = q.ip /\ leaf = q.leaf
  /\ server_hostname = Absent
  /\ server_ip = Absent
  /\ pc = "new"
  /\ index = 1
  /\ checked_match = FALSE
  /\ result = "none"

\* What cannot be used to compare is dropped without notice.
New ==
  /\ pc = "new"
  /\ server_hostname' = IF hostname = Absent THEN Absent ELSE PreparedServerHostname(hostname)
  /\ server_ip' = parse(ip)
  /\ pc' = "names"
  /\ UNCHANGED <<args, index, checked_match, result>>

Return(verdict) ==
  /\ pc' = "done"
  /\ result' = verdict
  /\ UNCHANGED <<args, fields, index>>

\* The subjectAltName extension cannot be parsed.
RejectUndecodable ==
  /\ pc = "names" /\ leaf.san = Undecodable
  /\ Return("undecodable")
  /\ UNCHANGED checked_match

general_names == IF leaf.san = Absent THEN <<>> ELSE leaf.san

MatchesServer(name) ==
  \/ name.kind = "dns" /\ match_hostname(server_hostname, name.value)
  \/ name.kind = "ip" /\ match_ip_address(server_ip, from_san_bytes(name.value))

CheckName ==
  /\ pc = "names" /\ leaf.san # Undecodable /\ index <= Len(general_names)
  /\ checked_match' = TRUE
  /\ IF MatchesServer(general_names[index])
       THEN Return("Ok")
       ELSE index' = index + 1 /\ UNCHANGED <<args, fields, pc, result>>

AllNamesChecked == pc = "names" /\ leaf.san # Undecodable /\ index > Len(general_names)

NoNameMatched ==
  /\ AllNamesChecked /\ checked_match
  /\ Return("noNameMatched")
  /\ UNCHANGED checked_match

\* Slip: the first common name is taken.
common_name_first ==
  IF leaf.common_names = <<>> \/ Head(leaf.common_names) = Undecodable
    THEN Absent
    ELSE Head(leaf.common_names)

\* The last common name, if it is a string.
common_name ==
  IF leaf.common_names = <<>> \/ Last(leaf.common_names) = Undecodable
    THEN Absent
    ELSE Last(leaf.common_names)

\* Without alternative names the common name decides; it is no IP address.
CheckCommonName ==
  /\ AllNamesChecked /\ ~checked_match
  /\ \/ common_name = Absent /\ Return("noCommonName")
     \/ /\ common_name # Absent
        /\ Return(IF match_hostname(server_hostname, common_name)
                    THEN "Ok" ELSE "otherCommonName")
  /\ UNCHANGED checked_match

Next ==
  \/ New
  \/ RejectUndecodable
  \/ CheckName
  \/ NoNameMatched
  \/ CheckCommonName

Spec == Init /\ [][Next]_vars

-----------------------------------------------------------------------------
(* Properties.                                                             *)

\* The names of the leaf that may be compared with the host name.
ComparedNames ==
  IF leaf.san = Undecodable THEN {}
  ELSE {general_names[i].value : i \in {j \in DOMAIN general_names : general_names[j].kind = "dns"}}
         \cup ({common_name} \ {Absent})

\* Each slice of a comparison with a wildcard lies within what it is taken from:
\* first the labels around the two periods; then, if the labels are compared at
\* all, the wildcard's label around its asterisk and, from the host's label, as
\* much as there is before and after the asterisk.
SlicedWithin(name, target) ==
  LET wildcard == split_around_index(name.base_name, name.first_period_index)
      host     == split_around_index(target.bytes, target.first_period_index)
      affixes  == split_around_index(wildcard.before, name.asterisk_index)
  IN  /\ name.first_period_index <= Len(name.base_name)
      /\ target.first_period_index <= Len(target.bytes)
      /\ (/\ case_insensitive_ascii_match(wildcard.after, host.after)
          /\ ~TooShort(host.before, wildcard.before))
         => /\ name.asterisk_index <= Len(wildcard.before)
            /\ Len(affixes.before) <= Len(host.before)
            /\ Len(affixes.after) <= Len(host.before)

\* No slice that valid_match_for_name takes for an alternative or a common name
\* is out of range, or it would panic: the first period of the prepared host name
\* is one of its characters, though a period may have been stripped since it was
\* found; the asterisk is in the first label; and the host's first label is as
\* long as what is cut from its start and from its end.
SlicesInRange ==
  server_hostname # Absent =>
    \A dns_name \in ComparedNames :
      LET name == AnalysedCertificateHostname(dns_name)
      IN  (name # Absent /\ name.asterisk_index # 0) => SlicedWithin(name, server_hostname)

\* The name denotes the host, or is the address, that was asked for.
Serves(name) ==
  \/ name.kind = "dns" /\ Denotes(name.value, hostname)
  \/ /\ name.kind = "ip" /\ ip # Absent
     /\ \/ ip.form = "V4" /\ name.value.len = 4
        \/ ip.form = "V6" /\ name.value.len = 16
     /\ name.value.octets = ip.octets

SomeNameServes == \E i \in DOMAIN general_names : Serves(general_names[i])

\* What the policy is to answer, from its arguments.
Expected ==
  IF leaf.san = Undecodable THEN "undecodable"
  ELSE IF SomeNameServes THEN "Ok"
  ELSE IF Len(general_names) > 0 THEN "noNameMatched"
  ELSE IF leaf.common_names = <<>> \/ Last(leaf.common_names) = Undecodable THEN "noCommonName"
  ELSE IF Denotes(Last(leaf.common_names), hostname) THEN "Ok"
  ELSE "otherCommonName"

\* The policy accepts the leaf exactly if one of its alternative names denotes
\* the host or is the address, or, in the absence of any alternative name of
\* whatever kind, its last common name denotes the host; and it says what is
\* missing.  Case, a trailing period and the place of the asterisk in the first
\* label make no difference, and an asterisk stands for at least one character.
IdentityCorrect == pc = "done" => result = Expected
=============================================================================
