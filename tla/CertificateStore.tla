-------------------------- MODULE CertificateStore --------------------------
(***************************************************************************)
(* Certificates, as chain building reads them, and the store that groups   *)
(* them by subject.                                                        *)
(*                                                                         *)
(* A certificate is a record of the parts of the DER that chain building   *)
(* tells apart:                                                            *)
(*   subject, issuer  the two distinguished names                          *)
(*   key              the public key                                       *)
(*   signer           the key that made the signature                      *)
(*   san              the subjectAltName value: Absent, Undecodable, or    *)
(*                    what the extension lists                             *)
(*   ski, aki         the key identifier extensions, one entry per         *)
(*                    occurrence in the certificate (a well-formed         *)
(*                    certificate has at most one of each)                 *)
(*   critical         the object identifiers of its critical extensions    *)
(* Two certificates are equal exactly when their records are.              *)
(***************************************************************************)
EXTENDS Integers, Sequences, FiniteSets

CONSTANTS
  Name,         \* distinguished names, the keys of a store
  Cert,         \* the certificates there are
  Absent,       \* "no such extension", and Rust's None
  Undecodable   \* an extension whose value does not parse

\* Every certificate names a subject and an issuer.
ASSUME CertAssumption ==
  \A c \in Cert : c.subject \in Name /\ c.issuer \in Name

\* However large, the memory that holds the certificates is finite.
ASSUME FiniteAssumption == IsFiniteSet(Cert)

-----------------------------------------------------------------------------
(* The extensions a certificate is read for.                               *)

\* A repeated or undecodable key identifier extension reads as absent.
UniqueKeyIdentifier(occurrences) ==
  IF Len(occurrences) = 1 /\ occurrences[1] # Undecodable
    THEN occurrences[1]
    ELSE Absent

SubjectKeyIdentifier(c) == UniqueKeyIdentifier(c.ski)

AuthorityKeyIdentifier(c) == UniqueKeyIdentifier(c.aki)

\* An absent or undecodable subjectAltName reads as the empty list of names.
SubjectAlternativeNames(c) ==
  IF c.san \in {Absent, Undecodable} THEN <<>> ELSE c.san

\* The identity of a certificate is its subject, its key and its names.
HasSameIdentityAs(c, d) ==
  /\ c.subject = d.subject
  /\ c.key = d.key
  /\ SubjectAlternativeNames(c) = SubjectAlternativeNames(d)

-----------------------------------------------------------------------------
(* The store: for each subject, its certificates in the order they were    *)
(* appended.  A certificate appended twice is kept twice.                  *)

Store == [Name -> Seq(Cert)]

New == [n \in Name |-> <<>>]

AppendCertificate(store, c) ==
  [store EXCEPT ![c.subject] = Append(@, c)]

FindBySubject(store, name) == store[name]

\* The certificate is in the store: an exact match among those of its subject.
Contains(store, c) ==
  \E i \in DOMAIN FindBySubject(store, c.subject) :
    FindBySubject(store, c.subject)[i] = c
=============================================================================
