---------------------------- MODULE RFC5280Policy ----------------------------
(***************************************************************************)
(* RFC5280Policy: the four sub-policies a chain is put through, each a     *)
(* loop over the certificates that returns at the first failure.  One      *)
(* action is one iteration.  Rejections carry the sub-policy that made     *)
(* them instead of a text.                                                 *)
(***************************************************************************)
EXTENDS CertificationPath

CONSTANTS
  Chain,   \* the chains the policy is asked about
  Time     \* validation times, Absent for a policy without the validity check

VARIABLES
  validation_time,   \* what the policy was created with
  chain,             \* the chain being evaluated
  pc,                \* the sub-policy at work, "done" after the last
  index,             \* its loop variable
  subject,           \* the inner loop's: which certificate is constrained
  sub_ca_count,      \* authorities passed that count against path lengths
  result             \* what the evaluation returned

loops == <<index, subject, sub_ca_count>>
vars == <<validation_time, chain, pc, loops, result>>

\* Chains are never empty; the parser's numbers are numbers, its lists lists.
ASSUME PathAssumption ==
  /\ Absent # Undecodable
  /\ \A t \in Time : t = Absent \/ t \in Int
  /\ \A c \in Chain : IsList(c) /\ Len(c) >= 1
  /\ \A c \in Chain : \A i \in DOMAIN c :
       /\ c[i].notBefore \in Int /\ c[i].notAfter \in Int
       /\ c[i].bc \notin {Absent, Undecodable} =>
            /\ c[i].bc.ca \in BOOLEAN
            /\ c[i].bc.pathLen = Absent \/ c[i].bc.pathLen \in Nat
       /\ c[i].nc \notin {Absent, Undecodable} =>
            IsList(c[i].nc.permitted) /\ IsList(c[i].nc.excluded)
       /\ c[i].san \notin {Absent, Undecodable} => IsList(c[i].san)

Verdicts == {"Ok", "version", "expiry", "basicConstraints", "nameConstraints"}

-----------------------------------------------------------------------------
\* Slip: the leaf is counted as an authority.
InitCountingLeaf ==
  /\ validation_time \in Time
  /\ chain \in Chain
  /\ pc = "version"
  /\ index = 1
  /\ subject = 1
  /\ sub_ca_count = 1
  /\ result = "none"

\* chain_meets_policy_requirements is called.
Init ==
  /\ validation_time \in Time
  /\ chain \in Chain
  /\ pc = "version"
  /\ index = 1
  /\ subject = 1
  /\ sub_ca_count = 0
  /\ result = "none"

\* Return a verdict.
Return(verdict) ==
  /\ pc' = "done"
  /\ result' = verdict
  /\ UNCHANGED <<validation_time, chain, loops>>

\* The sub-policy at work is met: start the next one's loop.
Proceed(next, first) ==
  /\ pc' = next
  /\ index' = first
  /\ subject' = 1
  /\ UNCHANGED <<validation_time, chain, sub_ca_count, result>>

Advance ==
  /\ index' = index + 1
  /\ UNCHANGED <<validation_time, chain, pc, subject, sub_ca_count, result>>

-----------------------------------------------------------------------------
(* Version.                                                                *)

VersionPolicy ==
  /\ pc = "version"
  /\ \/ index > Len(chain) /\ Proceed("expiry", 1)
     \/ /\ index <= Len(chain)
        /\ IF chain[index].version = "V1" /\ HasExtensions(chain[index])
             THEN Return("version")
             ELSE Advance

-----------------------------------------------------------------------------
(* Expiry.  The whole policy may be switched off.                          *)

\* Slip: the last second of the validity period counts as expired.
OutsideValidityExclusive(c) ==
  \/ c.notBefore > c.notAfter
  \/ validation_time < c.notBefore
  \/ validation_time >= c.notAfter

OutsideValidity(c) ==
  \/ c.notBefore > c.notAfter
  \/ validation_time < c.notBefore
  \/ validation_time > c.notAfter

ExpiryPolicy ==
  /\ pc = "expiry"
  /\ \/ /\ validation_time = Absent \/ index > Len(chain)
        /\ Proceed("basicConstraints", 2)
     \/ /\ validation_time # Absent /\ index <= Len(chain)
        /\ IF OutsideValidity(chain[index]) THEN Return("expiry") ELSE Advance

-----------------------------------------------------------------------------
(* Basic constraints.                                                      *)

IsMarkedAsCA(c) == c.bc \notin {Absent, Undecodable} /\ c.bc.ca

\* A root presented as the leaf must be marked as an authority.
LoneCertificate ==
  /\ pc = "basicConstraints"
  /\ Len(chain) = 1 /\ chain[1].version # "V1"
  /\ IF IsMarkedAsCA(chain[1])
       THEN Proceed("nameConstraints", Len(chain))
       ELSE Return("basicConstraints")

\* Slip: the limit is reached, not exceeded.
PathTooLongByOne(c) == c.bc.pathLen # Absent /\ c.bc.pathLen <= sub_ca_count

PathTooLong(c) == c.bc.pathLen # Absent /\ c.bc.pathLen < sub_ca_count

\* Certificates of version 1 are not looked into, and count all the same.
Counted(c) == IF c.issuer # c.subject THEN sub_ca_count + 1 ELSE sub_ca_count

BasicConstraintsPolicy ==
  /\ pc = "basicConstraints"
  /\ ~(Len(chain) = 1 /\ chain[1].version # "V1")
  /\ \/ index > Len(chain) /\ Proceed("nameConstraints", Len(chain))
     \/ /\ index <= Len(chain)
        /\ LET c == chain[index]
           IN  IF c.version # "V1" /\ (~IsMarkedAsCA(c) \/ PathTooLong(c))
                 THEN Return("basicConstraints")
                 ELSE /\ index' = index + 1
                      /\ sub_ca_count' = Counted(c)
                      /\ UNCHANGED <<validation_time, chain, pc, subject, result>>

-----------------------------------------------------------------------------
(* Name constraints: issuers from the root down, and for each the          *)
(* certificates below it from the leaf up.                                 *)

\* Slip: only the alternative names are checked.
NamesWithoutSubject(c) == IF c.san = Absent THEN <<>> ELSE c.san

\* The subject itself is the first name.
Names(c) ==
  <<[kind |-> "directory", value |-> c.subject]>>
    \o (IF c.san = Absent THEN <<>> ELSE c.san)

NamesCanBeRead(c) ==
  /\ c.san # Undecodable
  /\ \A i \in DOMAIN Names(c) : Names(c)[i].kind # "invalid"

\* A constraint nobody can compare with the name ends the scan of a list.
RejectsOutright(base, name) ==
  \/ base.kind = "directory" /\ name.kind = "directory"
  \/ base.kind \notin Comparable \cup {"directory"}

\* The first match ends the scan too.  A list without a base of the name's kind
\* does not concern the name.
ValidatePermittedSubtrees(permitted, name) ==
  \/ \E i \in DOMAIN permitted :
       /\ InSubtree(name, permitted[i])
       /\ \A j \in 1..i : ~RejectsOutright(permitted[j], name)
  \/ \A i \in DOMAIN permitted :
       /\ ~RejectsOutright(permitted[i], name)
       /\ permitted[i].kind # name.kind

ValidateExcludedSubtrees(excluded, name) ==
  \A i \in DOMAIN excluded :
    /\ ~RejectsOutright(excluded[i], name)
    /\ ~InSubtree(name, excluded[i])

\* The certificate's names against an issuer's constraints.
Permits(nc, c) ==
  /\ NamesCanBeRead(c)
  /\ \A i \in DOMAIN Names(c) :
       /\ ValidatePermittedSubtrees(nc.permitted, Names(c)[i])
       /\ ValidateExcludedSubtrees(nc.excluded, Names(c)[i])

\* A lone certificate is constrained by itself, an issuer constrains all of
\* the certificates before it.
LastSubject == IF Len(chain) = 1 THEN 1 ELSE index - 1

\* Done with an issuer: the next one is one step closer to the leaf.
NextIssuer ==
  IF Len(chain) = 1 \/ index = 2
    THEN Return("Ok")
    ELSE /\ index' = index - 1
         /\ subject' = 1
         /\ UNCHANGED <<validation_time, chain, pc, sub_ca_count, result>>

NameConstraintsPolicy ==
  LET nc == chain[index].nc
  IN  /\ pc = "nameConstraints"
      /\ \/ nc = Undecodable /\ Return("nameConstraints")
         \/ nc = Absent /\ NextIssuer
         \/ /\ nc \notin {Absent, Undecodable}
            /\ IF ~Permits(nc, chain[subject]) THEN Return("nameConstraints")
               ELSE IF subject < LastSubject
                 THEN /\ subject' = subject + 1
                      /\ UNCHANGED <<validation_time, chain, pc, index, sub_ca_count, result>>
                 ELSE NextIssuer

-----------------------------------------------------------------------------
Next ==
  \/ VersionPolicy
  \/ ExpiryPolicy
  \/ LoneCertificate
  \/ BasicConstraintsPolicy
  \/ NameConstraintsPolicy

Spec == Init /\ [][Next]_vars

-----------------------------------------------------------------------------
(* Properties.                                                             *)

\* Types: the loop variables stay within the chain, the count below its length.
TypeOK ==
  /\ validation_time \in Time
  /\ pc \in {"done", "version", "expiry", "basicConstraints", "nameConstraints"}
  /\ index \in 1..(Len(chain) + 1)
  /\ subject \in 1..Len(chain)
  /\ sub_ca_count \in 0..(Len(chain) - 1)
  /\ result \in Verdicts \cup {"none"}

\* The verdict of the loops is the one the requirements call for: Ok exactly
\* for the paths that meet them all, else the first that is missed.
VerdictCorrect ==
  pc = "done" /\ result # "none" => result = FirstUnmet(validation_time, chain)
=============================================================================
