----------------------------- MODULE MCValidator -----------------------------
(***************************************************************************)
(* Instances of the chain builder.                                         *)
(***************************************************************************)
EXTENDS Validator, TLC

CONSTANT Policies   \* names of the policies of a run

Certificate(subject, issuer, key, signer, san, ski, aki, critical) ==
  [subject |-> subject, issuer |-> issuer, key |-> key, signer |-> signer,
   san |-> san, ski |-> ski, aki |-> aki, critical |-> critical]

\* A signature verifies under the key that made it.  The two backends are a
\* working one and the one that stands for "none could be determined".
MCVerifySignature(b, below, c) ==
  IF b = "undetermined" THEN "panic"
  ELSE IF below.signer = c.key THEN "Ok" ELSE "Err"

\* Policies that tell chains apart the ways that matter to the search: all,
\* none, by length, by what the chain passes through.
MCVerifyingCriticalExtensions(p) == {"basicConstraints"}
MCChainMeetsPolicyRequirements(p, chain) ==
  CASE p = "anything" -> TRUE
    [] p = "nothing"  -> FALSE
    [] p = "short"    -> Len(chain) <= 3
    [] p = "long"     -> Len(chain) >= 4
    [] p = "named"    -> \E i \in 2..Len(chain) : chain[i].san # Absent

\* The sequences of certificates that start at a leaf, follow issuer names and
\* repeat no certificate.  Every candidate chain is one of them.
ChainsOfLength[n \in 1..Cardinality(Cert)] ==
  IF n = 1
    THEN {<<c>> : c \in Leaf}
    ELSE UNION {{Append(s, c) : c \in {d \in Cert :
                   /\ d.subject = s[Len(s)].issuer
                   /\ \A i \in DOMAIN s : s[i] # d}} :
                s \in ChainsOfLength[n - 1]}

MCChains == UNION {ChainsOfLength[n] : n \in 1..Cardinality(Cert)}

-----------------------------------------------------------------------------
(* Two authorities T and X that certify each other, under several          *)
(* identities, with one way out to the root: the test suite's              *)
(* "pathological" PKI.                                                     *)

PathLeaf == Certificate("leaf", "T", "kLeaf", "kT3", Absent, <<>>, <<"kT3">>, {})
T1 == Certificate("T", "R", "kT12", "kR", <<"t">>, <<"kT12">>, <<"kR">>, {})
T2 == Certificate("T", "X", "kT12", "kX", Absent, <<"kT12">>, <<"kX">>, {})
T3 == Certificate("T", "X", "kT3", "kX", Absent, <<"kT3">>, <<"kX">>, {})
X1 == Certificate("X", "T", "kX", "kT12", Absent, <<"kX">>, <<"kT12">>, {})
X2 == Certificate("X", "T", "kX", "kT12", <<"x">>, <<"kX">>, <<"kT12">>, {})
R  == Certificate("R", "R", "kR", "kR", Absent, <<"kR">>, <<>>, {"basicConstraints"})

PathName == {"leaf", "T", "X", "R"}
PathCert == {PathLeaf, T1, T2, T3, X1, X2, R}
PathLeaves == {PathLeaf}
PathRoots == {R}
PathIntermediates == {T1, T2, T3, X1, X2}

-----------------------------------------------------------------------------
(* Two roots A and B, A cross-certified by B; an issuing authority with    *)
(* several certificates.  And the odd cases: a leaf that may be a root     *)
(* itself, a variant of it with the same identity, extensions no policy    *)
(* enforces, a wrong key.                                                  *)

Leaf1 == Certificate("leaf", "I", "kLeaf", "kI", <<"l">>, <<>>, <<"kI">>, {"basicConstraints"})
Leaf2 == Certificate("leaf", "I", "kLeaf", "kI", <<"l">>, <<>>, <<"kI", "kI">>, {"odd"})
\* a self-signed variant of the leaf, issuing under its own name
Leaf3 == Certificate("leaf", "leaf", "kLeaf", "kLeaf", <<"l">>, <<"kLeaf">>, <<"kLeaf">>, {})
\* issuing authorities: with a matching key identifier, without any, with a
\* stale one, and with a critical extension nobody enforces
I1 == Certificate("I", "A", "kI", "kA", Absent, <<"kOld">>, <<"kA">>, {"basicConstraints"})
I2 == Certificate("I", "A", "kI", "kA", Undecodable, <<"kI">>, <<"kA">>, {"basicConstraints"})
I3 == Certificate("I", "B", "kI", "kB", <<"i">>, <<>>, <<>>, {})
I4 == Certificate("I", "A", "kI", "kA", <<"j">>, <<"kI">>, <<"kA">>, {"odd"})
\* an impostor with the right name and the wrong key
I5 == Certificate("I", "A", "kEve", "kA", Absent, <<"kI">>, <<"kA">>, {})
A1 == Certificate("A", "A", "kA", "kA", Absent, <<"kA">>, <<>>, {"basicConstraints"})
\* A cross-certified by B: the same subject and key, another identity
A2 == Certificate("A", "B", "kA", "kB", <<"a">>, <<"kA">>, <<"kB">>, {"basicConstraints"})
B1 == Certificate("B", "B", "kB", "kB", Absent, <<Undecodable>>, <<>>, {})

CrossName == {"leaf", "I", "A", "B"}
CrossCert == {Leaf1, I1, I2, I3, A1, A2, B1}
CrossLeaves == {Leaf1, A1}
CrossRoots == {A1, B1, I2}
CrossIntermediates == {I1, I2, I3, A2}

OddName == {"leaf", "I", "A"}
OddCert == {Leaf1, Leaf2, Leaf3, I1, I2, I4, I5, A1}
OddLeaves == {Leaf1, Leaf2, Leaf3}
OddRoots == {Leaf1, Leaf3, I1, I2, A1}
OddIntermediates == {I2, I4, I5}
=============================================================================
