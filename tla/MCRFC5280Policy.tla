--------------------------- MODULE MCRFC5280Policy ---------------------------
(***************************************************************************)
(* Instances of the RFC 5280 policy.                                       *)
(***************************************************************************)
EXTENDS RFC5280Policy

\* Names are compared as NameMatching does it.
Subtrees == INSTANCE NameSubtrees WITH MAXIMUM_LABEL_LENGTH <- 63, MAXIMUM_NAME_LENGTH <- 253

MCNameMatches(kind, name, constraint) == Subtrees!InSubtreeOfKind(kind, name, constraint)

Certificate(version, issuer, notAfter, bc, nc, san, others) ==
  [version |-> version, subject |-> "s", issuer |-> issuer, notBefore |-> 1,
   notAfter |-> notAfter, bc |-> bc, nc |-> nc, san |-> san, others |-> others]

CA(pathLen) == [ca |-> TRUE, pathLen |-> pathLen]
NotCA == [ca |-> FALSE, pathLen |-> Absent]

\* Chains whose first certificate is from one set and the others from another.
ChainsOver(leaves, issuers, max) ==
  UNION {{<<l>> \o s : l \in leaves, s \in [1..n -> issuers]} : n \in 0..(max - 1)}

-----------------------------------------------------------------------------
(* Versions, path lengths and self-issued certificates.                    *)

PathIssuers ==
  {Certificate("V1", i, 3, Absent, Absent, Absent, FALSE) : i \in {"s", "i"}}
  \cup {Certificate("V3", i, 3, bc, Absent, Absent, FALSE) :
          i \in {"s", "i"}, bc \in {CA(Absent), CA(0), CA(1)}}
  \cup {Certificate("V3", "i", 3, bc, Absent, Absent, FALSE) : bc \in {NotCA, Undecodable}}

PathLeaves ==
  {Certificate("V1", "i", 3, Absent, Absent, Absent, o) : o \in BOOLEAN}
  \cup {Certificate("V3", "i", 3, bc, Absent, Absent, TRUE) :
          bc \in {Absent, Undecodable, NotCA, CA(0)}}

PathChains == ChainsOver(PathLeaves, PathIssuers, 4)

-----------------------------------------------------------------------------
(* Validity: periods that end early, late, and before they begin.          *)

Aged(bc) == {Certificate("V3", "i", n, bc, Absent, Absent, FALSE) : n \in 0..3}

AgedChains == ChainsOver(Aged(Absent) \cup Aged(CA(Absent)), Aged(CA(Absent)), 3)

-----------------------------------------------------------------------------
(* Name constraints of every shape on two levels of issuers.               *)

GeneralName(kind, value) == [kind |-> kind, value |-> value]

\* ASCII codes: the hosts a.b and c, in capitals and as the host of a URI, an
\* address, and constraints for them.
a == 97
b == 98
c == 99
AB == <<65, 46, 66>>
Octet(bit) == [k \in 1..8 |-> bit]
Address(n) == [k \in 1..n |-> Octet(1)]

Dns(text) == GeneralName("dns", text)
Uri(text) == GeneralName("uri", text)
Mail(text) == GeneralName("email", text)

AnAddress == GeneralName("ip", Address(4))
ItsSubnet == GeneralName("ip", Address(5) \o [k \in 1..3 |-> Octet(0)])

Sans ==
  {Absent, Undecodable, <<>>,
   <<Dns(AB)>>, <<Dns(<<c>>)>>,
   <<Dns(AB), Uri(<<a, 58, 47, 47, c>>)>>,
   <<Uri(<<a, 58, 47, 47>> \o AB)>>, <<Uri(<<a, 58, b>>)>>,
   <<Mail(<<c>>), AnAddress>>,
   <<GeneralName("directory", "s")>>,
   <<Dns(AB), GeneralName("invalid", <<c>>)>>}

Bases ==
  {<<>>, <<Dns(<<b>>)>>,
   <<Dns(<<b>>), Dns(<<c>>)>>,
   <<Dns(<<46, b>>), Mail(<<c>>)>>,
   <<Dns(<<b>>), GeneralName("directory", "s")>>,
   <<Uri(<<b>>), ItsSubnet>>}

Constraints ==
  {Absent, Undecodable}
  \cup {[permitted |-> p, excluded |-> e] : p, e \in Bases}

Authorities ==
  {Certificate("V3", "i", 3, CA(Absent), nc, Absent, FALSE) : nc \in Constraints}

Named(nc) == {Certificate("V3", "i", 3, CA(Absent), nc, san, FALSE) : san \in Sans}

NamedChains ==
  ChainsOver(Named(Absent), Authorities, 2)
  \cup ChainsOver(Named([permitted |-> <<Dns(<<b>>)>>, excluded |-> <<>>]), {}, 1)
  \cup {<<l, i, r>> : l \in Named(Absent),
          i \in Named([permitted |-> <<Dns(<<b>>)>>, excluded |-> <<>>]),
          r \in Authorities}

-----------------------------------------------------------------------------
MCChains == PathChains \cup AgedChains \cup NamedChains

-----------------------------------------------------------------------------
\* The host of a URI, if it is one, is a domain name and no address.
HasDomainName(uri) ==
  \E i, j \in DOMAIN uri :
    i <= j /\ Subtrees!IsHost(uri, i, j) /\ Subtrees!IsAcceptable(SubSeq(uri, i, j), FALSE)

HasUriConstraint(nc) ==
  \E base \in Elements(nc.permitted) \cup Elements(nc.excluded) : base.kind = "uri"

\* The comment on uri_name_matches_constraint: a certificate below a constraint
\* on URIs is rejected if it has a URI without a domain name as its host.
UrisWithoutHostRejected ==
  result = "Ok" =>
    \A i \in Issuers(chain) : \A j \in IssuedUnder(chain, i) :
      chain[i].nc # Absent /\ chain[j].san # Absent =>
        \A name \in Elements(chain[j].san) :
          HasUriConstraint(chain[i].nc) /\ name.kind = "uri" => HasDomainName(name.value)
=============================================================================
