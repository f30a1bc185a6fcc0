--------------------------- MODULE EkuPolicyProofs ---------------------------
(***************************************************************************)
(* The loop of the extended key usage policy computes what it should, for  *)
(* chains of any length and any purposes.                                  *)
(***************************************************************************)
EXTENDS EkuPolicy, TLAPS

\* What the loop has established: every certificate of the role that it has
\* passed is suitable; on a rejection, the one at hand is the first that is not.
LoopInvariant ==
  /\ role \in Roles
  /\ chain \in Chain
  /\ pc \in {"making", "evaluating", "done"}
  /\ index \in 1..(Len(chain) + 1)
  /\ \A i \in Positions(role, Len(chain)) : i < index => Suitable(chain[i])
  /\ pc = "making" => index = 1
  /\ pc = "done" =>
       \/ result = "Ok" /\ index > Len(chain)
       \/ /\ index <= Len(chain)
          /\ index \in Positions(role, Len(chain))
          /\ result = certificate_meets_requirement(chain[index])
          /\ result # "Ok"

\* covers agrees with the set of positions a role stands for.
LEMMA CoversPositions ==
  ASSUME role \in Roles, NEW n \in Nat, NEW i \in 1..n
  PROVE  covers(i, n) <=> i \in Positions(role, n)
  BY DEF covers, Positions, Roles

\* Looking purposes up among the named ones and among the others is looking them
\* up among all; so the verdict on a certificate is whether it is suitable.
LEMMA MeetsIffSuitable ==
  ASSUME NEW c
  PROVE  certificate_meets_requirement(c) = "Ok" <=> Suitable(c)
<1>1. accepts(ExtendedKeyUsage(c.eku)) <=> ToSet(c.eku) \cap accepted_purposes # {}
  BY DEF accepts, ExtendedKeyUsage
<1>2. QED
  BY <1>1, EkuAssumption DEF certificate_meets_requirement, Suitable, Unreadable

\* The reason of a rejection says in which way the extension failed.
LEMMA ReasonOfRejection ==
  ASSUME NEW c, ~Suitable(c)
  PROVE  LET r == certificate_meets_requirement(c)
         IN  /\ r = "missing" <=> c.eku = Absent
             /\ r = "empty" <=> c.eku = <<>>
             /\ r = "error" <=> c.eku \in {Repeated, Undecodable}
<1>1. certificate_meets_requirement(c) # "Ok"
  BY MeetsIffSuitable
<1>2. QED
  BY <1>1, EkuAssumption DEF certificate_meets_requirement

LEMMA InitEstablishes == Init => LoopInvariant
  BY EkuAssumption DEF Init, key_purposes, LoopInvariant, Roles, Positions

LEMMA StepPreserves == LoopInvariant /\ [Next]_vars => LoopInvariant'
<1> SUFFICES ASSUME LoopInvariant, [Next]_vars PROVE LoopInvariant'
  OBVIOUS
<1>n. Len(chain) \in Nat
  BY EkuAssumption DEF LoopInvariant
<1>1. ASSUME NEW r \in Roles, applies_to(r) PROVE LoopInvariant'
  BY <1>1, <1>n DEF applies_to, LoopInvariant, Positions, Roles, certificate_meets_requirement
<1>2. CASE require_extension
  BY <1>2, <1>n DEF require_extension, LoopInvariant, Positions, Roles
<1>3. CASE Evaluate
  BY <1>3 DEF Evaluate, policy, LoopInvariant, Suitable
<1>4. CASE CheckCertificate
  <2>1. index \in 1..Len(chain)
    BY <1>4, <1>n DEF CheckCertificate, LoopInvariant
  <2>2. covers(index, Len(chain)) <=> index \in Positions(role, Len(chain))
    BY <2>1, <1>n, CoversPositions DEF LoopInvariant
  <2>3. certificate_meets_requirement(chain[index]) = "Ok" <=> Suitable(chain[index])
    BY MeetsIffSuitable
  <2>4. UNCHANGED <<policy, chain>>
    BY <1>4 DEF CheckCertificate
  <2>5. \A c : Suitable(c)' <=> Suitable(c)
    BY <2>4 DEF policy, Suitable
  <2>6. \A i \in Positions(role, Len(chain)) : i \in Int
    BY <1>n DEF Positions
  <2>7. \A c : certificate_meets_requirement(c)' = certificate_meets_requirement(c)
    BY <2>4 DEF policy, certificate_meets_requirement, accepts
  <2>8. CASE ~covers(index, Len(chain)) \/ certificate_meets_requirement(chain[index]) = "Ok"
    <3>1. index' = index + 1 /\ UNCHANGED <<pc, result>>
      BY <1>4, <2>8 DEF CheckCertificate
    <3>2. \A i \in Positions(role, Len(chain)) : i < index + 1 => Suitable(chain[i])
      BY <2>1, <2>2, <2>3, <2>6, <2>8, <1>n DEF LoopInvariant
    <3> QED
      BY <1>4, <1>n, <2>1, <2>4, <2>5, <3>1, <3>2 DEF policy, LoopInvariant, CheckCertificate
  <2>9. CASE covers(index, Len(chain)) /\ certificate_meets_requirement(chain[index]) # "Ok"
    <3>1. /\ pc' = "done" /\ UNCHANGED index
          /\ result' = certificate_meets_requirement(chain[index])
      BY <1>4, <2>9 DEF CheckCertificate
    <3>2. result' = certificate_meets_requirement(chain[index])'
      BY <2>4, <2>7, <3>1
    <3> QED
      BY <1>n, <2>1, <2>2, <2>4, <2>5, <2>9, <3>1, <3>2 DEF policy, LoopInvariant
  <2> QED
    BY <2>8, <2>9
<1>5. CASE Accept
  BY <1>5 DEF Accept, policy, LoopInvariant, Suitable
<1>6. CASE UNCHANGED vars
  BY <1>6 DEF vars, policy, LoopInvariant, Suitable, certificate_meets_requirement, accepts
<1> QED
  BY <1>1, <1>2, <1>3, <1>4, <1>5, <1>6 DEF Next

\* From the invariant: what the loop passed is suitable, what it stopped at is not.
LEMMA InvariantImpliesCorrect == LoopInvariant => PurposesCorrect
<1> SUFFICES ASSUME LoopInvariant, pc = "done" PROVE PurposesCorrect
  BY DEF PurposesCorrect
<1> DEFINE unsuitable == {i \in Positions(role, Len(chain)) : ~Suitable(chain[i])}
<1>n. Len(chain) \in Nat
  BY EkuAssumption DEF LoopInvariant
<1>p. \A i \in Positions(role, Len(chain)) : i \in 1..Len(chain)
  BY <1>n, EkuAssumption DEF Positions, LoopInvariant
<1>1. CASE result = "Ok"
  <2>1. index > Len(chain)
    BY <1>1 DEF LoopInvariant
  <2>2. unsuitable = {}
    BY <2>1, <1>p, <1>n DEF LoopInvariant
  <2> QED
    BY <1>1, <2>2 DEF PurposesCorrect
<1>2. CASE result # "Ok"
  <2>1. /\ index \in Positions(role, Len(chain))
        /\ result = certificate_meets_requirement(chain[index])
    BY <1>2 DEF LoopInvariant
  <2>2. ~Suitable(chain[index])
    BY <1>2, <2>1, MeetsIffSuitable
  <2>3. index \in unsuitable
    BY <2>1, <2>2
  <2>4. \A i \in unsuitable : index <= i
    BY <1>p, <1>n DEF LoopInvariant
  <2>5. /\ result = "missing" <=> chain[index].eku = Absent
        /\ result = "empty" <=> chain[index].eku = <<>>
        /\ result = "error" <=> chain[index].eku \in {Repeated, Undecodable}
    BY <2>1, <2>2, ReasonOfRejection
  <2> HIDE DEF unsuitable
  <2>6. unsuitable # {}
    BY <2>3
  <2> QED
    BY <2>3, <2>4, <2>5, <2>6 DEF PurposesCorrect, unsuitable
<1> QED
  BY <1>1, <1>2

\* chain_meets_policy_requirements of EkuPolicy accepts exactly the chains whose
\* certificates in the policy's role are suitable, and reports the first that is
\* not, whatever the order in which the policy was narrowed.
THEOREM EkuCorrect == Spec => []PurposesCorrect
<1>1. Spec => []LoopInvariant
  BY InitEstablishes, StepPreserves, PTL DEF Spec
<1> QED
  BY <1>1, InvariantImpliesCorrect, PTL
=============================================================================
