----------------------------- MODULE TrustChain -----------------------------
(***************************************************************************)
(* What a chain of trust is, said declaratively: which certificate may     *)
(* follow which, which sequences of certificates are chains from a leaf to *)
(* a root, and which of two such chains a validator is to prefer.  The     *)
(* policy and the signature backend are the two traits the validator is    *)
(* generic over, so they are parameters here.                              *)
(***************************************************************************)
EXTENDS CertificateStore

CONSTANTS
  Policy,                               \* implementations of ValidationPolicy
  VerifyingCriticalExtensions(_),       \* the extensions a policy enforces
  ChainMeetsPolicyRequirements(_, _),   \* (policy, chain): the policy's verdict
  Backend,                              \* implementations of SignatureVerifier
  VerifySignature(_, _, _)              \* (backend, certificate, issuer):
                                        \* "Ok", "Err" or "panic"

-----------------------------------------------------------------------------
HasUnhandledCriticalExtensions(p, c) ==
  \E oid \in c.critical : oid \notin VerifyingCriticalExtensions(p)

\* How well a candidate's key identifier fits what the subject asks for: a
\* match is best, no statement is neutral, a mismatch is worst.
Rank(candidate, subject) ==
  LET aki == AuthorityKeyIdentifier(subject)
      ski == SubjectKeyIdentifier(candidate)
  IN  IF aki = Absent \/ ski = Absent THEN 1
      ELSE IF aki = ski THEN 0 ELSE 2

\* The order in which a stable sort by rank leaves the positions of a list.
SortsNoLater(list, subject, i, j) ==
  \/ Rank(list[i], subject) < Rank(list[j], subject)
  \/ Rank(list[i], subject) = Rank(list[j], subject) /\ i <= j

-----------------------------------------------------------------------------
(* Chains.                                                                 *)

\* c is an issuer of the certificate below it: it bears the issuer's name, its
\* key verifies the signature, and the policy enforces its critical extensions.
Issues(p, b, c, below) ==
  /\ c.subject = below.issuer
  /\ VerifySignature(b, below, c) = "Ok"
  /\ ~HasUnhandledCriticalExtensions(p, c)

NoRepeatedIdentity(chain) ==
  \A i, j \in DOMAIN chain :
    i # j => ~HasSameIdentityAs(chain[i], chain[j])

\* Each certificate is issued by the next, starting at an admissible leaf.
Linked(p, b, leaf, chain) ==
  /\ chain # <<>>
  /\ chain[1] = leaf
  /\ ~HasUnhandledCriticalExtensions(p, leaf)
  /\ \A i \in 2..Len(chain) : Issues(p, b, chain[i], chain[i - 1])
  /\ NoRepeatedIdentity(chain)

\* A chain under construction: every issuer in it is an intermediate.
PartialChain(p, b, leaf, intermediates, chain) ==
  /\ Linked(p, b, leaf, chain)
  /\ \A i \in 2..Len(chain) : Contains(intermediates, chain[i])

\* A chain that reaches a root, the leaf itself being one included.
CandidateChain(p, b, leaf, roots, intermediates, chain) ==
  /\ Linked(p, b, leaf, chain)
  /\ \A i \in 2..(Len(chain) - 1) : Contains(intermediates, chain[i])
  /\ Contains(roots, chain[Len(chain)])

-----------------------------------------------------------------------------
(* Preference among candidate chains of one leaf.                          *)

\* The list offers x before y as issuers of the subject.
OfferedBefore(list, subject, x, y) ==
  \E i \in DOMAIN list :
    /\ list[i] = x
    /\ \A j \in DOMAIN list : list[j] = y => SortsNoLater(list, subject, i, j)

\* The leaf alone comes first.  Otherwise, at the place where the two first
\* differ, the preferred chain ends in a root and the other does not, or the
\* two certificates come from the same store and the preferred one is offered
\* earlier.
Preferred(roots, intermediates, s, t) ==
  \/ Len(s) = 1 /\ Len(t) > 1
  \/ \E k \in 2..Len(s) :
    LET below == s[k - 1]
    IN  /\ k <= Len(t)
        /\ \A i \in 1..(k - 1) : s[i] = t[i]
        /\ \/ k = Len(s) /\ k < Len(t)
           \/ /\ s[k] # t[k] /\ k = Len(s) /\ k = Len(t)
              /\ OfferedBefore(FindBySubject(roots, below.issuer), below, s[k], t[k])
           \/ /\ s[k] # t[k] /\ k < Len(s) /\ k < Len(t)
              /\ OfferedBefore(FindBySubject(intermediates, below.issuer),
                               below, s[k], t[k])
=============================================================================
