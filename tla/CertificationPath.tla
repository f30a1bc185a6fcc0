-------------------------- MODULE CertificationPath --------------------------
(***************************************************************************)
(* What RFC 5280 asks of a certification path, as far as the validator's   *)
(* policies implement it, said declaratively.  A path is a sequence of     *)
(* certificates, the leaf first.                                           *)
(*                                                                         *)
(* A certificate is a record of what the policies read:                    *)
(*   version            "V1" or another                                    *)
(*   subject, issuer    the two distinguished names                        *)
(*   notBefore, notAfter                                                   *)
(*   bc, nc, san        the basicConstraints, nameConstraints and          *)
(*                      subjectAltName values, each Absent or Undecodable  *)
(*                      or decoded                                         *)
(*   others             it has other extensions                            *)
(* A decoded bc is [ca, pathLen], with pathLen Absent or a number; a       *)
(* decoded nc is [permitted, excluded], two sequences of general names (a  *)
(* missing list of subtrees is an empty one); a decoded san is a sequence  *)
(* of general names.  A general name is [kind, value], with the kind       *)
(* "invalid" for one that the parser could not read.                       *)
(***************************************************************************)
EXTENDS Integers, Sequences, FiniteSets

CONSTANTS
  Absent,              \* "no such extension", and Rust's None
  Undecodable,         \* an extension whose value does not parse
  NameMatches(_, _, _) \* (kind, name, constraint): the name is in the subtree

Elements(list) == {list[i] : i \in DOMAIN list}

IsList(list) == list \in Seq(Elements(list))

HasExtensions(c) == c.others \/ c.bc # Absent \/ c.nc # Absent \/ c.san # Absent

-----------------------------------------------------------------------------
(* The roles in a path.  A root presented as the leaf counts as an issuer  *)
(* of itself.                                                              *)

Issuers(chain) == IF Len(chain) = 1 THEN {1} ELSE 2..Len(chain)

IssuedUnder(chain, i) == IF Len(chain) = 1 THEN {1} ELSE 1..(i - 1)

\* The intermediates below an issuer that count against its path length: the
\* leaf does not, and neither do self-issued certificates.
SubCAs(chain, i) == {j \in 2..(i - 1) : chain[j].issuer # chain[j].subject}

-----------------------------------------------------------------------------
(* The requirements.                                                       *)

\* Certificates of version 1 have no extensions.
VersionFits(c) == c.version = "V1" => ~HasExtensions(c)

MeetsVersion(chain) == \A i \in DOMAIN chain : VersionFits(chain[i])

ValidAt(time, c) == c.notBefore <= time /\ time <= c.notAfter

\* Without a validation time validity is not checked.
MeetsExpiry(time, chain) ==
  time # Absent => \A i \in DOMAIN chain : ValidAt(time, chain[i])

\* An issuer is an authority whose path length allows for the authorities
\* below it.  A certificate of version 1 cannot say, and is let through.
MayIssue(chain, i) ==
  chain[i].version # "V1" =>
    /\ chain[i].bc \notin {Absent, Undecodable}
    /\ chain[i].bc.ca
    /\ chain[i].bc.pathLen # Absent =>
         Cardinality(SubCAs(chain, i)) <= chain[i].bc.pathLen

MeetsBasicConstraints(chain) == \A i \in Issuers(chain) : MayIssue(chain, i)

\* The kinds of constraint that can be evaluated.
Comparable == {"dns", "ip", "uri"}

InSubtree(name, base) ==
  /\ name.kind = base.kind
  /\ name.kind \in Comparable
  /\ NameMatches(name.kind, name.value, base.value)

\* A certificate's names can be read and each is within the permitted subtrees
\* of its kind, if there are any, and in no excluded one.
WithinConstraints(nc, c) ==
  /\ c.san # Undecodable
  /\ c.san # Absent =>
       \A name \in Elements(c.san) :
         /\ name.kind # "invalid"
         /\ (\E base \in Elements(nc.permitted) : base.kind = name.kind)
              => \E base \in Elements(nc.permitted) : InSubtree(name, base)
         /\ \A base \in Elements(nc.excluded) : ~InSubtree(name, base)

AllComparable(nc) ==
  \A base \in Elements(nc.permitted) \cup Elements(nc.excluded) : base.kind \in Comparable

\* An issuer's constraints can be read, are all of a kind that can be evaluated,
\* and hold for every certificate below it.
ConstraintsHold(chain, i) ==
  chain[i].nc # Absent =>
    /\ chain[i].nc # Undecodable
    /\ AllComparable(chain[i].nc)
    /\ \A j \in IssuedUnder(chain, i) : WithinConstraints(chain[i].nc, chain[j])

MeetsNameConstraints(chain) == \A i \in Issuers(chain) : ConstraintsHold(chain, i)

\* The first requirement a path misses, in the order of the sections, or "Ok".
FirstUnmet(time, chain) ==
  IF ~MeetsVersion(chain) THEN "version"
  ELSE IF ~MeetsExpiry(time, chain) THEN "expiry"
  ELSE IF ~MeetsBasicConstraints(chain) THEN "basicConstraints"
  ELSE IF ~MeetsNameConstraints(chain) THEN "nameConstraints"
  ELSE "Ok"
=============================================================================
