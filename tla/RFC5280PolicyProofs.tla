------------------------- MODULE RFC5280PolicyProofs -------------------------
(***************************************************************************)
(* The loops of RFC5280Policy compute what CertificationPath asks for, for *)
(* chains of any length, any certificates and any way of matching names.   *)
(*                                                                         *)
(* The invariant says of each loop what it has established so far: the     *)
(* requirements of the loops before it, and its own for the certificates   *)
(* it has passed.  Two places need an argument: the running count of       *)
(* authorities is the number of those below the current issuer, and the    *)
(* early exits in the lists of constraints do not let a constraint that    *)
(* cannot be evaluated slip by.                                            *)
(***************************************************************************)
EXTENDS RFC5280Policy, FiniteSetTheorems, TLAPS

PassedVersion == \A i \in 1..(index - 1) : VersionFits(chain[i])

PassedExpiry ==
  validation_time # Absent => \A i \in 1..(index - 1) : ValidAt(validation_time, chain[i])

PassedBasicConstraints ==
  /\ index >= 2
  /\ sub_ca_count = Cardinality(SubCAs(chain, index))
  /\ \A i \in 2..(index - 1) : MayIssue(chain, i)

PassedNameConstraints ==
  /\ index \in Issuers(chain)
  /\ subject \in IssuedUnder(chain, index)
  /\ \A i \in Issuers(chain) : i > index => ConstraintsHold(chain, i)
  /\ subject > 1 =>
       /\ chain[index].nc \notin {Absent, Undecodable}
       /\ AllComparable(chain[index].nc)
  /\ \A j \in IssuedUnder(chain, index) :
       j < subject => WithinConstraints(chain[index].nc, chain[j])

\* The inductive invariant.
LoopInvariant ==
  /\ TypeOK
  /\ chain \in Chain
  /\ pc # "done" => result = "none"
  /\ pc = "version" => PassedVersion /\ sub_ca_count = 0
  /\ pc = "expiry" => MeetsVersion(chain) /\ PassedExpiry /\ sub_ca_count = 0
  /\ pc = "basicConstraints" =>
       /\ MeetsVersion(chain) /\ MeetsExpiry(validation_time, chain)
       /\ PassedBasicConstraints
  /\ pc = "nameConstraints" =>
       /\ MeetsVersion(chain) /\ MeetsExpiry(validation_time, chain)
       /\ MeetsBasicConstraints(chain)
       /\ PassedNameConstraints
  /\ pc = "done" => result = FirstUnmet(validation_time, chain)

-----------------------------------------------------------------------------
(* Lemmas.                                                                 *)

\* A chain is a non-empty sequence.
LEMMA ChainShape ==
  ASSUME NEW c \in Chain
  PROVE  Len(c) \in Nat \ {0} /\ DOMAIN c = 1..Len(c)
BY PathAssumption DEF IsList

\* Passing an issuer adds it to the authorities below the next, if it is not
\* self-issued.
LEMMA CountSubCAs ==
  ASSUME NEW c, NEW i \in Nat, i >= 2
  PROVE  /\ Cardinality(SubCAs(c, 2)) = 0
         /\ Cardinality(SubCAs(c, i)) \in 0..(i - 2)
         /\ Cardinality(SubCAs(c, i + 1)) =
              Cardinality(SubCAs(c, i)) + (IF c[i].issuer # c[i].subject THEN 1 ELSE 0)
<1>1. SubCAs(c, 2) = {} BY DEF SubCAs
<1>2. IsFiniteSet(2..(i - 1)) /\ Cardinality(2..(i - 1)) = i - 2
  <2>1. IsFiniteSet(2..(i - 1)) /\ Cardinality(2..(i - 1)) = IF 2 > i - 1 THEN 0 ELSE (i - 1) - 2 + 1
    BY FS_Interval
  <2> QED BY <2>1
<1>3. /\ SubCAs(c, i) \subseteq 2..(i - 1)
      /\ IsFiniteSet(SubCAs(c, i))
      /\ Cardinality(SubCAs(c, i)) <= i - 2
  <2>1. SubCAs(c, i) \subseteq 2..(i - 1) BY DEF SubCAs
  <2> DEFINE S == 2..(i - 1)
             T == SubCAs(c, i)
  <2>2. IsFiniteSet(S) /\ T \in SUBSET S BY <1>2, <2>1
  <2> HIDE DEF S, T
  <2>3. IsFiniteSet(T) /\ Cardinality(T) <= Cardinality(S) BY <2>2, FS_Subset
  <2> QED BY <2>1, <2>3, <1>2 DEF S, T
<1>4. Cardinality(SubCAs(c, i)) \in Nat BY <1>3, FS_CardinalityType
<1>5. CASE c[i].issuer # c[i].subject
  <2>1. SubCAs(c, i + 1) = SubCAs(c, i) \cup {i} BY <1>5 DEF SubCAs
  <2>2. i \notin SubCAs(c, i) BY <1>3
  <2>3. Cardinality(SubCAs(c, i) \cup {i}) = Cardinality(SubCAs(c, i)) + 1
    BY <1>3, <2>2, FS_AddElement
  <2>4. Cardinality(SubCAs(c, i + 1)) = Cardinality(SubCAs(c, i)) + 1 BY <2>1, <2>3
  <2>5. Cardinality(SubCAs(c, 2)) = 0 BY <1>1, FS_EmptySet
  <2> QED BY <1>3, <1>4, <1>5, <2>4, <2>5
<1>6. CASE c[i].issuer = c[i].subject
  <2>1. SubCAs(c, i + 1) = SubCAs(c, i) BY <1>6 DEF SubCAs
  <2> QED BY <1>1, <1>3, <1>4, <1>6, <2>1, FS_EmptySet
<1> QED BY <1>5, <1>6

\* The names that are checked are the subject and the alternative names.
LEMMA NamesOf ==
  ASSUME NEW c, c.san # Undecodable, c.san # Absent => IsList(c.san)
  PROVE  Elements(Names(c)) =
           {[kind |-> "directory", value |-> c.subject]}
             \cup (IF c.san = Absent THEN {} ELSE Elements(c.san))
<1> DEFINE d == [kind |-> "directory", value |-> c.subject]
<1>1. CASE c.san = Absent
  <2>1. Names(c) = <<d>> \o << >> BY <1>1 DEF Names
  <2>2. Names(c) = <<d>> BY <2>1
  <2> QED BY <1>1, <2>2 DEF Elements
<1>2. CASE c.san # Absent
  <2> DEFINE s == c.san
  <2>1. s \in Seq(Elements(s)) BY <1>2 DEF IsList
  <2>2. Names(c) = <<d>> \o s BY <1>2 DEF Names
  <2> HIDE DEF s, d
  <2>3. /\ DOMAIN (<<d>> \o s) = 1..(Len(s) + 1)
        /\ (<<d>> \o s)[1] = d
        /\ \A i \in 1..Len(s) : (<<d>> \o s)[i + 1] = s[i]
        /\ \A i \in 2..(Len(s) + 1) : (<<d>> \o s)[i] = s[i - 1]
        /\ DOMAIN s = 1..Len(s) /\ Len(s) \in Nat
    BY <2>1
  <2>4. Elements(<<d>> \o s) \subseteq {d} \cup Elements(s)
    <3> SUFFICES ASSUME NEW i \in 1..(Len(s) + 1) PROVE (<<d>> \o s)[i] \in {d} \cup Elements(s)
      BY <2>3 DEF Elements
    <3>1. CASE i = 1 BY <3>1, <2>3
    <3>2. CASE i \in 2..(Len(s) + 1)
      <4>1. i - 1 \in DOMAIN s BY <3>2, <2>3
      <4> QED BY <3>2, <4>1, <2>3 DEF Elements
    <3> QED BY <3>1, <3>2, <2>3
  <2>5. {d} \cup Elements(s) \subseteq Elements(<<d>> \o s)
    <3>1. d \in Elements(<<d>> \o s)
      <4>1. 1 \in DOMAIN (<<d>> \o s) BY <2>3
      <4> QED BY <4>1, <2>3 DEF Elements
    <3>2. ASSUME NEW i \in DOMAIN s PROVE s[i] \in Elements(<<d>> \o s)
      <4>1. i + 1 \in DOMAIN (<<d>> \o s) /\ (<<d>> \o s)[i + 1] = s[i] BY <2>3
      <4> QED BY <4>1 DEF Elements
    <3> QED BY <3>1, <3>2 DEF Elements
  <2>6. Elements(Names(c)) = {d} \cup Elements(s) BY <2>2, <2>4, <2>5
  <2> QED BY <1>2, <2>6 DEF s, d
<1> QED BY <1>1, <1>2

\* The scan of the permitted subtrees, with its early exits, for a name of a
\* kind that can be constrained: if all bases are of such kinds, it accepts
\* exactly the names that are in a subtree or that no subtree is about.
LEMMA PermittedScan ==
  ASSUME NEW list, IsList(list), NEW name,
         \A base \in Elements(list) : base.kind \in Comparable
  PROVE  ValidatePermittedSubtrees(list, name) <=>
           ((\E base \in Elements(list) : base.kind = name.kind)
              => \E base \in Elements(list) : InSubtree(name, base))
<1>1. DOMAIN list = 1..Len(list) BY DEF IsList
<1>2. \A i \in DOMAIN list : ~RejectsOutright(list[i], name)
  BY DEF Elements, RejectsOutright, Comparable
<1>3. \A i \in DOMAIN list : \A j \in 1..i : j \in DOMAIN list BY <1>1 DEF IsList
<1>4. \A i \in DOMAIN list : \A j \in 1..i : ~RejectsOutright(list[j], name) BY <1>2, <1>3
<1>5. ValidatePermittedSubtrees(list, name) <=>
        \/ \E i \in DOMAIN list : InSubtree(name, list[i])
        \/ \A i \in DOMAIN list : list[i].kind # name.kind
  BY <1>2, <1>4 DEF ValidatePermittedSubtrees
<1> QED BY <1>5 DEF Elements

\* The subject's own name is checked against every base, so a base that cannot
\* be evaluated rejects every certificate.
LEMMA SubjectScan ==
  ASSUME NEW nc, NEW name, name.kind = "directory",
         ValidatePermittedSubtrees(nc.permitted, name),
         ValidateExcludedSubtrees(nc.excluded, name)
  PROVE  AllComparable(nc)
<1>1. \A base : ~InSubtree(name, base) BY DEF InSubtree, Comparable
<1>2. \A i \in DOMAIN nc.permitted : ~RejectsOutright(nc.permitted[i], name)
  BY <1>1 DEF ValidatePermittedSubtrees
<1>3. \A i \in DOMAIN nc.excluded : ~RejectsOutright(nc.excluded[i], name)
  BY DEF ValidateExcludedSubtrees
<1>4. \A base : ~RejectsOutright(base, name) => base.kind \in Comparable
  BY DEF RejectsOutright
<1> QED BY <1>2, <1>3, <1>4 DEF AllComparable, Elements

\* The scans are satisfied with a certificate exactly if the constraints can be
\* evaluated and it is within them.
LEMMA PermitsMeans ==
  ASSUME NEW nc, IsList(nc.permitted), IsList(nc.excluded),
         NEW c, c.san \notin {Absent, Undecodable} => IsList(c.san)
  PROVE  Permits(nc, c) <=> AllComparable(nc) /\ WithinConstraints(nc, c)
<1> DEFINE d == [kind |-> "directory", value |-> c.subject]
           Alt == IF c.san = Absent THEN {} ELSE Elements(c.san)
           Passes(name) == /\ ValidatePermittedSubtrees(nc.permitted, name)
                           /\ ValidateExcludedSubtrees(nc.excluded, name)
           Fits(name) ==
             /\ (\E base \in Elements(nc.permitted) : base.kind = name.kind)
                  => \E base \in Elements(nc.permitted) : InSubtree(name, base)
             /\ \A base \in Elements(nc.excluded) : ~InSubtree(name, base)
<1>1. CASE c.san = Undecodable
  BY <1>1 DEF Permits, NamesCanBeRead, WithinConstraints
<1>2. CASE c.san # Undecodable
  <2>1. Elements(Names(c)) = {d} \cup Alt BY <1>2, NamesOf
  <2>2. d.kind = "directory" OBVIOUS
  <2>3. Permits(nc, c) <=> \A name \in {d} \cup Alt : name.kind # "invalid" /\ Passes(name)
    <3>1. Permits(nc, c) <=>
            \A name \in Elements(Names(c)) : name.kind # "invalid" /\ Passes(name)
      BY <1>2 DEF Permits, NamesCanBeRead, Elements
    <3> QED BY <2>1, <3>1
  <2>4. WithinConstraints(nc, c) <=> \A name \in Alt : name.kind # "invalid" /\ Fits(name)
    BY <1>2 DEF WithinConstraints
  <2>5. Passes(d) => AllComparable(nc) BY <2>2, SubjectScan
  <2>6. ASSUME AllComparable(nc), NEW name PROVE Passes(name) <=> Fits(name)
    <3>1. /\ \A base \in Elements(nc.permitted) : base.kind \in Comparable
          /\ \A base \in Elements(nc.excluded) : base.kind \in Comparable
      BY <2>6 DEF AllComparable
    <3>2. \A i \in DOMAIN nc.excluded : ~RejectsOutright(nc.excluded[i], name)
      BY <3>1 DEF Elements, RejectsOutright, Comparable
    <3>3. ValidateExcludedSubtrees(nc.excluded, name) <=>
            \A base \in Elements(nc.excluded) : ~InSubtree(name, base)
      BY <3>2 DEF ValidateExcludedSubtrees, Elements
    <3>4. ValidatePermittedSubtrees(nc.permitted, name) <=>
            ((\E base \in Elements(nc.permitted) : base.kind = name.kind)
               => \E base \in Elements(nc.permitted) : InSubtree(name, base))
      BY <3>1, PermittedScan
    <3> QED BY <3>3, <3>4
  <2>7. AllComparable(nc) => Fits(d)
    <3>1. AllComparable(nc) => \A base \in Elements(nc.permitted) : base.kind # "directory"
      BY DEF AllComparable, Comparable
    <3>2. \A base : ~InSubtree(d, base) BY DEF InSubtree, Comparable
    <3> QED BY <2>2, <3>1, <3>2
  <2> HIDE DEF d, Alt, Passes, Fits
  <2>8. d.kind # "invalid" BY <2>2
  <2> QED BY <2>3, <2>4, <2>5, <2>6, <2>7, <2>8
<1> QED BY <1>1, <1>2
-----------------------------------------------------------------------------
(* The steps.                                                              *)

\* Each step of a loop, and each return, keeps the invariant.
LEMMA VersionStep ==
  ASSUME LoopInvariant, VersionPolicy
  PROVE  LoopInvariant'
<1>0. Len(chain) \in Nat \ {0} /\ DOMAIN chain = 1..Len(chain)
  BY ChainShape DEF LoopInvariant
<1>1. CASE index > Len(chain) /\ Proceed("expiry", 1)
  <2>1. MeetsVersion(chain)
    BY <1>0, <1>1 DEF LoopInvariant, VersionPolicy, PassedVersion, MeetsVersion, TypeOK
  <2> QED BY <1>0, <1>1, <2>1 DEF LoopInvariant, VersionPolicy, Proceed, TypeOK, PassedExpiry
<1>2. CASE index <= Len(chain) /\ ~VersionFits(chain[index]) /\ Return("version")
  <2>1. ~MeetsVersion(chain)
    BY <1>0, <1>2 DEF LoopInvariant, TypeOK, MeetsVersion
  <2> QED BY <1>2, <2>1 DEF LoopInvariant, Return, TypeOK, FirstUnmet, Verdicts, loops
<1>3. CASE index <= Len(chain) /\ VersionFits(chain[index]) /\ Advance
  <2>1. PassedVersion'
    BY <1>0, <1>3 DEF LoopInvariant, VersionPolicy, Advance, TypeOK, PassedVersion
  <2> QED BY <1>0, <1>3, <2>1 DEF LoopInvariant, VersionPolicy, Advance, TypeOK
<1> QED BY <1>1, <1>2, <1>3 DEF VersionPolicy, VersionFits

LEMMA ExpiryStep ==
  ASSUME LoopInvariant, ExpiryPolicy
  PROVE  LoopInvariant'
<1>0. Len(chain) \in Nat \ {0} /\ DOMAIN chain = 1..Len(chain)
  BY ChainShape DEF LoopInvariant
<1>a. chain \in Chain /\ validation_time \in Time /\ index \in 1..(Len(chain) + 1)
  BY DEF LoopInvariant, TypeOK
<1>b. ASSUME validation_time # Absent, index <= Len(chain)
      PROVE  OutsideValidity(chain[index]) <=> ~ValidAt(validation_time, chain[index])
  <2>1. /\ validation_time \in Int
        /\ chain[index].notBefore \in Int /\ chain[index].notAfter \in Int
    BY <1>0, <1>a, <1>b, PathAssumption
  <2> QED BY <2>1 DEF OutsideValidity, ValidAt
<1>1. CASE (validation_time = Absent \/ index > Len(chain)) /\ Proceed("basicConstraints", 2)
  <2>1. MeetsExpiry(validation_time, chain)
    BY <1>0, <1>1, <1>a DEF LoopInvariant, ExpiryPolicy, PassedExpiry, MeetsExpiry
  <2>2. PassedBasicConstraints'
    <3>1. index' = 2 /\ chain' = chain /\ sub_ca_count' = 0
      BY <1>1 DEF LoopInvariant, ExpiryPolicy, Proceed
    <3>2. Cardinality(SubCAs(chain, 2)) = 0 BY CountSubCAs
    <3> QED BY <3>1, <3>2 DEF PassedBasicConstraints
  <2> QED BY <1>0, <1>1, <2>1, <2>2 DEF LoopInvariant, ExpiryPolicy, Proceed, TypeOK
<1>2. CASE /\ validation_time # Absent /\ index <= Len(chain)
           /\ OutsideValidity(chain[index]) /\ Return("expiry")
  <2>1. ~MeetsExpiry(validation_time, chain)
    BY <1>0, <1>2, <1>a, <1>b DEF MeetsExpiry
  <2> QED BY <1>2, <2>1 DEF LoopInvariant, ExpiryPolicy, Return, TypeOK, FirstUnmet, Verdicts, loops
<1>3. CASE /\ validation_time # Absent /\ index <= Len(chain)
           /\ ~OutsideValidity(chain[index]) /\ Advance
  <2>1. PassedExpiry'
    BY <1>0, <1>3, <1>a, <1>b DEF LoopInvariant, ExpiryPolicy, Advance, PassedExpiry
  <2> QED BY <1>0, <1>3, <2>1 DEF LoopInvariant, ExpiryPolicy, Advance, TypeOK
<1> QED BY <1>1, <1>2, <1>3 DEF ExpiryPolicy

\* With the requirements up to the name constraints met, the scan of the
\* constraints starts at the root with nothing passed.
LEMMA EnterNameConstraints ==
  ASSUME LoopInvariant, pc = "basicConstraints",
         MeetsBasicConstraints(chain), Proceed("nameConstraints", Len(chain))
  PROVE  LoopInvariant'
<1>0. Len(chain) \in Nat \ {0} /\ DOMAIN chain = 1..Len(chain)
  BY ChainShape DEF LoopInvariant
<1>1. PassedNameConstraints'
  <2>1. index' = Len(chain) /\ subject' = 1 /\ chain' = chain BY DEF Proceed
  <2> QED BY <1>0, <2>1 DEF PassedNameConstraints, Issuers, IssuedUnder
<1> QED BY <1>0, <1>1 DEF LoopInvariant, Proceed, TypeOK

LEMMA LoneStep ==
  ASSUME LoopInvariant, LoneCertificate
  PROVE  LoopInvariant'
<1>0. chain \in Chain /\ Len(chain) = 1 /\ DOMAIN chain = 1..1
  BY ChainShape DEF LoopInvariant, LoneCertificate
<1>1. IsMarkedAsCA(chain[1]) <=> MayIssue(chain, 1)
  <2>1. SubCAs(chain, 1) = {} BY DEF SubCAs
  <2>2. Cardinality(SubCAs(chain, 1)) = 0 BY <2>1, FS_EmptySet
  <2>3. chain[1].bc \notin {Absent, Undecodable} =>
          chain[1].bc.pathLen = Absent \/ chain[1].bc.pathLen \in Nat
    BY <1>0, PathAssumption
  <2> QED BY <2>2, <2>3 DEF IsMarkedAsCA, MayIssue, LoneCertificate
<1>2. MeetsBasicConstraints(chain) <=> MayIssue(chain, 1)
  BY <1>0 DEF MeetsBasicConstraints, Issuers
<1>3. CASE IsMarkedAsCA(chain[1]) /\ Proceed("nameConstraints", Len(chain))
  BY <1>1, <1>2, <1>3, EnterNameConstraints DEF LoneCertificate
<1>4. CASE ~IsMarkedAsCA(chain[1]) /\ Return("basicConstraints")
  BY <1>1, <1>2, <1>4
  DEF LoneCertificate, LoopInvariant, Return, TypeOK, FirstUnmet, Verdicts, loops
<1> QED BY <1>3, <1>4 DEF LoneCertificate

LEMMA BasicConstraintsStep ==
  ASSUME LoopInvariant, BasicConstraintsPolicy
  PROVE  LoopInvariant'
<1> DEFINE c == chain[index]
<1>0. Len(chain) \in Nat \ {0} /\ DOMAIN chain = 1..Len(chain)
  BY ChainShape DEF LoopInvariant
<1>a. /\ chain \in Chain /\ index \in 2..(Len(chain) + 1)
      /\ sub_ca_count = Cardinality(SubCAs(chain, index))
      /\ \A i \in 2..(index - 1) : MayIssue(chain, i)
      /\ MeetsVersion(chain) /\ MeetsExpiry(validation_time, chain)
  BY <1>0 DEF LoopInvariant, TypeOK, PassedBasicConstraints, BasicConstraintsPolicy
<1>b. ASSUME index <= Len(chain)
      PROVE  (c.version # "V1" /\ (~IsMarkedAsCA(c) \/ PathTooLong(c))) <=> ~MayIssue(chain, index)
  <2>1. sub_ca_count \in Nat BY <1>a, CountSubCAs
  <2>2. c.bc \notin {Absent, Undecodable} => c.bc.pathLen = Absent \/ c.bc.pathLen \in Nat
    BY <1>0, <1>a, <1>b, PathAssumption
  <2> QED BY <1>a, <2>1, <2>2 DEF MayIssue, IsMarkedAsCA, PathTooLong
<1>1. CASE index > Len(chain) /\ Proceed("nameConstraints", Len(chain))
  <2>1. MeetsBasicConstraints(chain)
    <3>1. CASE Len(chain) = 1
      BY <3>1 DEF BasicConstraintsPolicy, MeetsBasicConstraints, Issuers, MayIssue
    <3>2. CASE Len(chain) # 1
      BY <1>0, <1>1, <1>a, <3>2 DEF MeetsBasicConstraints, Issuers
    <3> QED BY <3>1, <3>2
  <2> QED BY <1>1, <2>1, EnterNameConstraints DEF BasicConstraintsPolicy
<1>2. CASE index <= Len(chain) /\ ~MayIssue(chain, index) /\ Return("basicConstraints")
  <2>1. ~MeetsBasicConstraints(chain)
    BY <1>0, <1>2, <1>a DEF MeetsBasicConstraints, Issuers
  <2> QED BY <1>2, <1>a, <2>1 DEF LoopInvariant, Return, TypeOK, FirstUnmet, Verdicts, loops
<1>3. CASE /\ index <= Len(chain) /\ MayIssue(chain, index)
           /\ index' = index + 1 /\ sub_ca_count' = Counted(c)
           /\ UNCHANGED <<validation_time, chain, pc, subject, result>>
  <2>1. /\ Cardinality(SubCAs(chain, index)) \in 0..(index - 2)
        /\ sub_ca_count' = Cardinality(SubCAs(chain, index + 1))
    BY <1>3, <1>a, CountSubCAs DEF Counted
  <2>2. Cardinality(SubCAs(chain, index + 1)) \in 0..(index - 1)
    BY <1>a, CountSubCAs
  <2>3. PassedBasicConstraints'
    BY <1>3, <1>a, <2>1 DEF PassedBasicConstraints
  <2>4. TypeOK'
    BY <1>0, <1>3, <1>a, <2>1, <2>2 DEF LoopInvariant, TypeOK
  <2> QED BY <1>3, <1>a, <2>3, <2>4 DEF LoopInvariant, BasicConstraintsPolicy
<1> QED BY <1>1, <1>2, <1>3, <1>b DEF BasicConstraintsPolicy

\* An issuer whose constraints hold is passed: the next one, or the end.
LEMMA NextIssuerStep ==
  ASSUME LoopInvariant, pc = "nameConstraints", ConstraintsHold(chain, index), NextIssuer
  PROVE  LoopInvariant'
<1>0. Len(chain) \in Nat \ {0} /\ DOMAIN chain = 1..Len(chain)
  BY ChainShape DEF LoopInvariant
<1>a. /\ MeetsVersion(chain) /\ MeetsExpiry(validation_time, chain)
      /\ MeetsBasicConstraints(chain)
      /\ index \in Issuers(chain)
      /\ \A i \in Issuers(chain) : i >= index => ConstraintsHold(chain, i)
  BY <1>0 DEF LoopInvariant, PassedNameConstraints, Issuers
<1>1. CASE (Len(chain) = 1 \/ index = 2) /\ Return("Ok")
  <2>1. MeetsNameConstraints(chain)
    BY <1>0, <1>1, <1>a DEF MeetsNameConstraints, Issuers
  <2> QED BY <1>1, <1>a, <2>1 DEF LoopInvariant, Return, TypeOK, FirstUnmet, Verdicts, loops
<1>2. CASE /\ ~(Len(chain) = 1 \/ index = 2)
           /\ index' = index - 1 /\ subject' = 1
           /\ UNCHANGED <<validation_time, chain, pc, sub_ca_count, result>>
  <2>1. PassedNameConstraints'
    BY <1>0, <1>2, <1>a DEF PassedNameConstraints, Issuers, IssuedUnder
  <2> QED BY <1>0, <1>2, <1>a, <2>1 DEF LoopInvariant, TypeOK, Issuers
<1> QED BY <1>1, <1>2 DEF NextIssuer

LEMMA NameConstraintsStep ==
  ASSUME LoopInvariant, NameConstraintsPolicy
  PROVE  LoopInvariant'
<1> DEFINE nc == chain[index].nc
<1>0. /\ Len(chain) \in Nat \ {0} /\ DOMAIN chain = 1..Len(chain)
      /\ pc = "nameConstraints" /\ chain \in Chain
  BY ChainShape DEF LoopInvariant, NameConstraintsPolicy
<1>a. /\ MeetsVersion(chain) /\ MeetsExpiry(validation_time, chain)
      /\ MeetsBasicConstraints(chain)
      /\ PassedNameConstraints
  BY <1>0 DEF LoopInvariant
<1>b. index \in DOMAIN chain /\ subject \in DOMAIN chain
  BY <1>0, <1>a DEF PassedNameConstraints, Issuers, IssuedUnder
<1>f. ASSUME ~ConstraintsHold(chain, index), Return("nameConstraints") PROVE LoopInvariant'
  <2>1. ~MeetsNameConstraints(chain)
    BY <1>a, <1>f DEF MeetsNameConstraints, PassedNameConstraints
  <2> QED BY <1>0, <1>a, <1>f, <2>1 DEF LoopInvariant, Return, TypeOK, FirstUnmet, Verdicts, loops
<1>1. CASE nc = Undecodable /\ Return("nameConstraints")
  BY <1>1, <1>f, PathAssumption DEF ConstraintsHold
<1>2. CASE nc = Absent /\ NextIssuer
  BY <1>0, <1>2, NextIssuerStep DEF ConstraintsHold
<1>3. CASE nc \notin {Absent, Undecodable}
  <2>1. Permits(nc, chain[subject]) <=> AllComparable(nc) /\ WithinConstraints(nc, chain[subject])
    <3>1. /\ IsList(nc.permitted) /\ IsList(nc.excluded)
          /\ chain[subject].san \notin {Absent, Undecodable} => IsList(chain[subject].san)
      BY <1>0, <1>3, <1>b, PathAssumption
    <3> QED BY <3>1, PermitsMeans
  <2>2. CASE ~Permits(nc, chain[subject]) /\ Return("nameConstraints")
    <3>1. ~ConstraintsHold(chain, index)
      BY <1>3, <1>a, <2>1, <2>2 DEF ConstraintsHold, PassedNameConstraints
    <3> QED BY <2>2, <3>1, <1>f
  <2>3. CASE /\ Permits(nc, chain[subject]) /\ subject < LastSubject
             /\ subject' = subject + 1
             /\ UNCHANGED <<validation_time, chain, pc, index, sub_ca_count, result>>
    <3>1. PassedNameConstraints'
      <4>1. chain' = chain /\ index' = index /\ subject' = subject + 1 BY <2>3
      <4>2. /\ index \in Issuers(chain) /\ subject \in Nat
            /\ \A i \in Issuers(chain) : i > index => ConstraintsHold(chain, i)
            /\ \A j \in IssuedUnder(chain, index) :
                 j < subject => WithinConstraints(nc, chain[j])
        BY <1>0, <1>a, <1>b DEF PassedNameConstraints
      <4>3. subject + 1 \in IssuedUnder(chain, index)
        BY <1>0, <1>b, <2>3, <4>2 DEF IssuedUnder, Issuers, LastSubject
      <4>4. AllComparable(nc) /\ WithinConstraints(nc, chain[subject]) BY <2>1, <2>3
      <4>5. IssuedUnder(chain, index) \subseteq Int
        BY <1>0, <4>2 DEF IssuedUnder, Issuers
      <4>6. \A j \in IssuedUnder(chain, index) :
              j < subject + 1 => WithinConstraints(nc, chain[j])
        <5> SUFFICES ASSUME NEW j \in IssuedUnder(chain, index), j < subject + 1
                     PROVE  WithinConstraints(nc, chain[j])
          OBVIOUS
        <5>1. j < subject \/ j = subject BY <4>2, <4>5
        <5> QED BY <5>1, <4>2, <4>4
      <4> QED BY <1>3, <4>1, <4>2, <4>3, <4>4, <4>6 DEF PassedNameConstraints
    <3>2. TypeOK'
      BY <1>0, <1>a, <1>b, <2>3 DEF LoopInvariant, TypeOK, PassedNameConstraints, LastSubject, Issuers
    <3> QED BY <1>0, <1>a, <2>3, <3>1, <3>2 DEF LoopInvariant
  <2>4. CASE /\ Permits(nc, chain[subject]) /\ ~(subject < LastSubject)
             /\ NextIssuer
    <3>1. \A j \in IssuedUnder(chain, index) : j < subject \/ j = subject
      BY <1>0, <1>a, <1>b, <2>4 DEF PassedNameConstraints, IssuedUnder, Issuers, LastSubject
    <3>2. ConstraintsHold(chain, index)
      BY <1>3, <1>a, <2>1, <2>4, <3>1 DEF ConstraintsHold, PassedNameConstraints
    <3> QED BY <1>0, <2>4, <3>2, NextIssuerStep
  <2> QED BY <1>3, <2>2, <2>3, <2>4 DEF NameConstraintsPolicy
<1> QED BY <1>1, <1>2, <1>3 DEF NameConstraintsPolicy

-----------------------------------------------------------------------------
\* The loops' invariant holds throughout an evaluation.
THEOREM LoopInvariantHolds == Spec => []LoopInvariant
<1>1. Init => LoopInvariant
  <2> SUFFICES ASSUME Init PROVE LoopInvariant
    OBVIOUS
  <2>1. Len(chain) \in Nat \ {0} BY ChainShape DEF Init
  <2> QED BY <2>1 DEF Init, LoopInvariant, TypeOK, PassedVersion
<1>2. LoopInvariant /\ [Next]_vars => LoopInvariant'
  <2> SUFFICES ASSUME LoopInvariant, [Next]_vars PROVE LoopInvariant'
    OBVIOUS
  <2>1. CASE UNCHANGED vars
    BY <2>1 DEF vars, loops, LoopInvariant, TypeOK, PassedVersion, PassedExpiry,
                PassedBasicConstraints, PassedNameConstraints
  <2> QED BY <2>1, VersionStep, ExpiryStep, LoneStep, BasicConstraintsStep,
             NameConstraintsStep DEF Next
<1> QED BY <1>1, <1>2, PTL DEF Spec

\* Loop variables and the count of authorities stay within the chain.
THEOREM PolicyTypeCorrect == Spec => []TypeOK
<1>1. LoopInvariant => TypeOK BY DEF LoopInvariant
<1> QED BY <1>1, LoopInvariantHolds, PTL

\* RFC5280Policy accepts exactly the chains that meet its requirements, and
\* otherwise names the first that is missed: for chains of any length.
THEOREM PolicyCorrect == Spec => []VerdictCorrect
<1>1. LoopInvariant => VerdictCorrect BY DEF LoopInvariant, VerdictCorrect
<1> QED BY <1>1, LoopInvariantHolds, PTL
=============================================================================
