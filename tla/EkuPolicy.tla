------------------------------ MODULE EkuPolicy ------------------------------
(***************************************************************************)
(* EkuPolicy: a key purpose is required of the certificates that play a    *)
(* role in the chain.  The caller makes the policy, narrows it, and has a  *)
(* chain evaluated; one action of the evaluation is one certificate.       *)
(*                                                                         *)
(* A certificate is [eku, critical].  Its eku is Absent, Repeated (the     *)
(* extension occurs twice), Undecodable, or the sequence of purposes in    *)
(* the extension, which may be empty.                                      *)
(***************************************************************************)
EXTENDS Integers, SequencesExt

CONSTANTS
  Absent, Repeated, Undecodable,
  KeyPurposes,   \* the sets of purposes a policy is created with
  Chain          \* the chains it is asked about

VARIABLES
  accepted_purposes, role, extension_required,   \* the policy
  chain,
  pc,
  index,    \* the certificate at hand
  result

policy == <<accepted_purposes, role, extension_required>>
vars == <<policy, chain, pc, index, result>>

\* Chains are never empty; the ways an extension may fail are told apart.
ASSUME EkuAssumption ==
  /\ Absent \notin {Repeated, Undecodable, <<>>}
  /\ <<>> \notin {Repeated, Undecodable}
  /\ \A c \in Chain : c \in Seq(ToSet(c)) /\ Len(c) >= 1

\* The purposes that the parser knows by name, and the policy with it.
NamedPurposes ==
  {"serverAuth", "clientAuth", "codeSigning", "emailProtection", "timeStamping",
   "OCSPSigning", "any"}

Roles == {"EndEntity", "Issuers", "IssuersExcludingAnchor", "EntireChain"}

-----------------------------------------------------------------------------
(* Making the policy.                                                      *)

\* new, server_auth and client_auth are key_purposes with one purpose.
key_purposes ==
  /\ accepted_purposes \in KeyPurposes
  /\ role = "EntireChain"
  /\ extension_required = FALSE

Init ==
  /\ key_purposes
  /\ chain \in Chain
  /\ pc = "making"
  /\ index = 1
  /\ result = "none"

applies_to(r) ==
  /\ pc = "making"
  /\ role' = r
  /\ UNCHANGED <<accepted_purposes, extension_required, chain, pc, index, result>>

require_extension ==
  /\ pc = "making"
  /\ extension_required' = TRUE
  /\ UNCHANGED <<accepted_purposes, role, chain, pc, index, result>>

-----------------------------------------------------------------------------
(* Evaluating a chain.                                                     *)

\* Slip: the anchor is looked for one place too early.
covers_off_by_one(i, length) ==
  LET is_end_entity == i = 1
      is_anchor == i + 1 = length
  IN  \/ role = "EndEntity" /\ is_end_entity
      \/ role = "Issuers" /\ ~is_end_entity
      \/ role = "IssuersExcludingAnchor" /\ ~is_end_entity /\ ~is_anchor
      \/ role = "EntireChain"

covers(i, length) ==
  LET is_end_entity == i = 1
      is_anchor == i = length
  IN  \/ role = "EndEntity" /\ is_end_entity
      \/ role = "Issuers" /\ ~is_end_entity
      \/ role = "IssuersExcludingAnchor" /\ ~is_end_entity /\ ~is_anchor
      \/ role = "EntireChain"

\* The parser sorts purposes into named ones and others.
ExtendedKeyUsage(eku) ==
  [named |-> ToSet(eku) \cap NamedPurposes, other |-> ToSet(eku) \ NamedPurposes]

accepts(usage) ==
  \E accepted \in accepted_purposes : accepted \in usage.named \/ accepted \in usage.other

\* "Ok" or why a certificate is rejected.
certificate_meets_requirement(c) ==
  IF c.eku = Repeated THEN "error"
  ELSE IF c.eku = Absent THEN (IF extension_required THEN "missing" ELSE "Ok")
  ELSE IF c.eku = <<>> THEN "empty"
  ELSE IF c.eku = Undecodable THEN "error"
  ELSE IF accepts(ExtendedKeyUsage(c.eku)) THEN "Ok"
  ELSE "otherPurpose"

Evaluate ==
  /\ pc = "making"
  /\ pc' = "evaluating"
  /\ UNCHANGED <<policy, chain, index, result>>

CheckCertificate ==
  LET skipped == ~covers(index, Len(chain))
      verdict == IF skipped THEN "Ok" ELSE certificate_meets_requirement(chain[index])
  IN  /\ pc = "evaluating" /\ index <= Len(chain)
      /\ IF verdict = "Ok"
           THEN index' = index + 1 /\ UNCHANGED <<policy, chain, pc, result>>
           ELSE /\ pc' = "done"
                /\ result' = verdict
                /\ UNCHANGED <<policy, chain, index>>

Accept ==
  /\ pc = "evaluating" /\ index > Len(chain)
  /\ pc' = "done"
  /\ result' = "Ok"
  /\ UNCHANGED <<policy, chain, index>>

Next ==
  \/ \E r \in Roles : applies_to(r)
  \/ require_extension
  \/ Evaluate
  \/ CheckCertificate
  \/ Accept

Spec == Init /\ [][Next]_vars

-----------------------------------------------------------------------------
(* Properties.                                                             *)

\* The positions a role stands for, in a chain of that length.  The lone
\* certificate of a chain is its end entity, not its anchor.
Positions(r, length) ==
  IF r = "EndEntity" THEN {1}
  ELSE IF r = "Issuers" THEN 2..length
  ELSE IF r = "IssuersExcludingAnchor" THEN 2..(length - 1)
  ELSE 1..length

Unreadable == {Repeated, Undecodable, <<>>}

\* The certificate names an accepted purpose, or it makes no statement and need
\* not make one.  An extension that cannot be read is not taken for an absent one.
Suitable(c) ==
  IF c.eku = Absent THEN ~extension_required
  ELSE c.eku \notin Unreadable /\ ToSet(c.eku) \cap accepted_purposes # {}

\* The policy accepts a chain exactly if the certificates in its role are all
\* suitable; a rejection is about the first one that is not, with its reason.
\* Purposes the parser knows and ones it does not are treated alike, and an
\* unreadable extension never passes for an absent one.
PurposesCorrect ==
  pc = "done" =>
    LET unsuitable == {i \in Positions(role, Len(chain)) : ~Suitable(chain[i])}
    IN  IF unsuitable = {} THEN result = "Ok"
        ELSE /\ index \in unsuitable
             /\ \A i \in unsuitable : index <= i
             /\ result = "missing" <=> chain[index].eku = Absent
             /\ result = "empty" <=> chain[index].eku = <<>>
             /\ result = "error" <=> chain[index].eku \in {Repeated, Undecodable}

\* What the trait asks of a policy that claims an extension: it enforces it.
\* EkuPolicy claims extendedKeyUsage for every certificate, so in an accepted
\* chain no critical one is left unread.
ClaimEnforced ==
  pc = "done" /\ result = "Ok" =>
    \A i \in DOMAIN chain : chain[i].critical => Suitable(chain[i])
=============================================================================
