------------------------- MODULE PolicyBuilderProofs -------------------------
(***************************************************************************)
(* Every policy that the macros and the wrapper types can build enforces   *)
(* what it claims, accepts what was written and explains its rejections,   *)
(* for any base policies and chains and for expressions of any size.       *)
(*                                                                         *)
(* A policy with the three properties is well behaved.  One lemma for each *)
(* combinator says that it makes well-behaved policies of such; the rest   *)
(* is bookkeeping about the stack.                                         *)
(***************************************************************************)
EXTENDS PolicyBuilder, TLAPS

WellBehaved(p) ==
  /\ p \in PolicyValue
  /\ AcceptsAsWritten(p)
  /\ EnforcesItsClaims(p)
  /\ ExplainsItsRejections(p)

\* The inductive invariant: every policy built is well behaved.
AllWellBehaved ==
  /\ stack \in Seq(PolicyValue)
  /\ calls \in Nat
  /\ \A i \in DOMAIN stack : WellBehaved(stack[i])

-----------------------------------------------------------------------------
(* The combinators.                                                        *)

\* A base policy enforces what it claims and answers for itself.
LEMMA BaseWellBehaved ==
  ASSUME NEW b \in Base
  PROVE  WellBehaved(BasePolicy(b))
<1>1. BasePolicy(b) \in PolicyValue
  BY BuilderAssumption DEF BasePolicy, PolicyValue, Verdict, Reason
<1>2. AcceptsAsWritten(BasePolicy(b))
  BY BuilderAssumption DEF BasePolicy, AcceptsAsWritten
<1>3. EnforcesItsClaims(BasePolicy(b))
  BY BuilderAssumption DEF BasePolicy, EnforcesItsClaims
<1>4. ExplainsItsRejections(BasePolicy(b))
  BY BuilderAssumption DEF BasePolicy, ExplainsItsRejections
<1> QED BY <1>1, <1>2, <1>3, <1>4 DEF WellBehaved

\* A requirement left out claims nothing and accepts everything.
LEMMA NoneWellBehaved == WellBehaved(WrappedNone)
<1>1. WrappedNone \in PolicyValue
  BY DEF WrappedNone, PolicyValue, Verdict, Reason
<1>2. AcceptsAsWritten(WrappedNone)
  BY DEF WrappedNone, AcceptsAsWritten
<1>3. EnforcesItsClaims(WrappedNone)
  BY DEF WrappedNone, EnforcesItsClaims
<1>4. ExplainsItsRejections(WrappedNone)
  BY DEF WrappedNone, ExplainsItsRejections
<1> QED BY <1>1, <1>2, <1>3, <1>4 DEF WellBehaved

\* An alternative left out claims nothing and rejects everything.
LEMMA OneOfNoneWellBehaved == WellBehaved(OneOfWrappedNone)
<1>1. OneOfWrappedNone \in PolicyValue
  BY DEF OneOfWrappedNone, PolicyValue, Verdict, Reason
<1>2. AcceptsAsWritten(OneOfWrappedNone)
  BY DEF OneOfWrappedNone, AcceptsAsWritten
<1>3. EnforcesItsClaims(OneOfWrappedNone)
  BY DEF OneOfWrappedNone, EnforcesItsClaims
<1>4. ExplainsItsRejections(OneOfWrappedNone)
  BY BuilderAssumption DEF OneOfWrappedNone, ExplainsItsRejections
<1> QED BY <1>1, <1>2, <1>3, <1>4 DEF WellBehaved

\* The reasons of a joined rejection are those of both parts.
LEMMA JoinedReasons ==
  ASSUME NEW s \in Seq(Reason), NEW t \in Seq(Reason)
  PROVE  {(s \o t)[i] : i \in DOMAIN (s \o t)}
           = {s[i] : i \in DOMAIN s} \cup {t[i] : i \in DOMAIN t}
<1> DEFINE all == {(s \o t)[i] : i \in DOMAIN (s \o t)}
<1>1. ASSUME NEW x \in all PROVE x \in {s[i] : i \in DOMAIN s} \cup {t[i] : i \in DOMAIN t}
  <2>1. PICK i \in DOMAIN (s \o t) : x = (s \o t)[i] BY <1>1
  <2>2. i \in 1..(Len(s) + Len(t)) BY <2>1
  <2>3. CASE i <= Len(s) BY <2>1, <2>2, <2>3
  <2>4. CASE i > Len(s)
    <3>1. i - Len(s) \in DOMAIN t /\ x = t[i - Len(s)] BY <2>1, <2>2, <2>4
    <3> QED BY <3>1
  <2> QED BY <2>2, <2>3, <2>4
<1>2. ASSUME NEW i \in DOMAIN s PROVE s[i] \in all
  <2>1. i \in DOMAIN (s \o t) /\ (s \o t)[i] = s[i] OBVIOUS
  <2> QED BY <2>1
<1>3. ASSUME NEW i \in DOMAIN t PROVE t[i] \in all
  <2>1. i + Len(s) \in DOMAIN (s \o t) /\ (s \o t)[i + Len(s)] = t[i] OBVIOUS
  <2> QED BY <2>1
<1> QED BY <1>1, <1>2, <1>3

\* What the two ways of combining verdicts come to.
LEMMA BothVerdicts ==
  ASSUME NEW v \in Verdict, NEW w \in Verdict
  PROVE  /\ MeetsBoth(v, w) \in Verdict
         /\ MeetsBoth(v, w).ok <=> v.ok /\ w.ok
         /\ v.ok /\ w.ok => MeetsBoth(v, w).by = v.by \cup w.by
         /\ ~v.ok => MeetsBoth(v, w) = v
         /\ v.ok /\ ~w.ok => MeetsBoth(v, w) = w
<1>1. CASE ~v.ok BY <1>1 DEF MeetsBoth
<1>2. CASE v.ok /\ ~w.ok BY <1>2 DEF MeetsBoth
<1>3. CASE v.ok /\ w.ok
  <2>1. MeetsBoth(v, w) = [ok |-> TRUE, reasons |-> <<>>, by |-> v.by \cup w.by]
    BY <1>3 DEF MeetsBoth
  <2> QED BY <1>3, <2>1 DEF Verdict
<1> QED BY <1>1, <1>2, <1>3

LEMMA OneVerdict ==
  ASSUME NEW v \in Verdict, NEW w \in Verdict
  PROVE  /\ MeetsOne(v, w) \in Verdict
         /\ MeetsOne(v, w).ok <=> v.ok \/ w.ok
         /\ v.ok => MeetsOne(v, w) = v
         /\ ~v.ok /\ w.ok => MeetsOne(v, w) = w
         /\ ~v.ok /\ ~w.ok => MeetsOne(v, w).reasons = v.reasons \o w.reasons
<1>1. CASE v.ok BY <1>1 DEF MeetsOne
<1>2. CASE ~v.ok /\ w.ok BY <1>2 DEF MeetsOne
<1>3. CASE ~v.ok /\ ~w.ok
  <2>1. MeetsOne(v, w) = [ok |-> FALSE, reasons |-> v.reasons \o w.reasons, by |-> {}]
    BY <1>3 DEF MeetsOne
  <2> QED BY <1>3, <2>1 DEF Verdict
<1> QED BY <1>1, <1>2, <1>3

\* Requiring both of two well-behaved policies is well behaved.
LEMMA Tuple2WellBehaved ==
  ASSUME NEW p, NEW q, WellBehaved(p), WellBehaved(q)
  PROVE  WellBehaved(Tuple2(p, q))
<1> DEFINE t == Tuple2(p, q)
<1>0. p \in PolicyValue /\ q \in PolicyValue BY DEF WellBehaved
<1>a. ASSUME NEW c \in Chain
      PROVE  /\ p.verdict[c] \in Verdict /\ q.verdict[c] \in Verdict
             /\ t.verdict[c] = MeetsBoth(p.verdict[c], q.verdict[c])
  BY <1>0 DEF PolicyValue, Tuple2
<1>b. t.claims = p.claims \cup q.claims BY DEF Tuple2
<1>c. t.ways = {v \cup w : v \in p.ways, w \in q.ways} BY DEF Tuple2
<1>1. t \in PolicyValue
  <2>1. ASSUME NEW c \in Chain PROVE MeetsBoth(p.verdict[c], q.verdict[c]) \in Verdict
    BY <1>a, BothVerdicts
  <2> QED BY <1>0, <2>1 DEF PolicyValue, Tuple2
<1>2. AcceptsAsWritten(t)
  <2> SUFFICES ASSUME NEW c \in Chain
               PROVE  t.verdict[c].ok <=>
                        \E way \in t.ways : \A b \in way : BaseAccepts(b, c)
    BY DEF AcceptsAsWritten
  <2>1. t.verdict[c].ok <=> p.verdict[c].ok /\ q.verdict[c].ok
    BY <1>a, BothVerdicts
  <2>2. /\ p.verdict[c].ok <=> \E v \in p.ways : \A b \in v : BaseAccepts(b, c)
        /\ q.verdict[c].ok <=> \E w \in q.ways : \A b \in w : BaseAccepts(b, c)
    BY DEF WellBehaved, AcceptsAsWritten
  <2>3. (\E v \in p.ways : \A b \in v : BaseAccepts(b, c))
          /\ (\E w \in q.ways : \A b \in w : BaseAccepts(b, c))
        => \E way \in t.ways : \A b \in way : BaseAccepts(b, c)
    <3> SUFFICES ASSUME NEW v \in p.ways, \A b \in v : BaseAccepts(b, c),
                        NEW w \in q.ways, \A b \in w : BaseAccepts(b, c)
                 PROVE  \E way \in t.ways : \A b \in way : BaseAccepts(b, c)
      OBVIOUS
    <3>1. v \cup w \in t.ways BY <1>c
    <3> QED BY <3>1
  <2>4. (\E way \in t.ways : \A b \in way : BaseAccepts(b, c))
        => /\ \E v \in p.ways : \A b \in v : BaseAccepts(b, c)
           /\ \E w \in q.ways : \A b \in w : BaseAccepts(b, c)
    <3> SUFFICES ASSUME NEW way \in t.ways, \A b \in way : BaseAccepts(b, c)
                 PROVE  /\ \E v \in p.ways : \A b \in v : BaseAccepts(b, c)
                        /\ \E w \in q.ways : \A b \in w : BaseAccepts(b, c)
      OBVIOUS
    <3>1. PICK v \in p.ways, w \in q.ways : way = v \cup w BY <1>c
    <3> QED BY <3>1
  <2> QED BY <2>1, <2>2, <2>3, <2>4, Zenon
<1>3. EnforcesItsClaims(t)
  <2> SUFFICES ASSUME NEW c \in Chain, NEW oid \in t.claims, t.verdict[c].ok
               PROVE  \E b \in t.verdict[c].by : oid \in BaseClaims(b) /\ BaseAccepts(b, c)
    BY DEF EnforcesItsClaims
  <2>1. /\ p.verdict[c].ok /\ q.verdict[c].ok
        /\ t.verdict[c].by = p.verdict[c].by \cup q.verdict[c].by
    BY <1>a, BothVerdicts
  <2> QED BY <2>1, <1>b DEF WellBehaved, EnforcesItsClaims
<1>4. ExplainsItsRejections(t)
  <2> DEFINE Reasons(v) == {v.reasons[i] : i \in DOMAIN v.reasons}
  <2> SUFFICES ASSUME NEW c \in Chain, ~t.verdict[c].ok
               PROVE  /\ Reasons(t.verdict[c]) # {}
                      /\ \A b \in Reasons(t.verdict[c]) : b \in Base => ~BaseAccepts(b, c)
                      /\ \A way \in t.ways : way \cap Reasons(t.verdict[c]) # {}
    BY DEF ExplainsItsRejections
  <2>1. CASE ~p.verdict[c].ok
    <3>1. t.verdict[c] = p.verdict[c] BY <1>a, <2>1, BothVerdicts
    <3>2. /\ Reasons(p.verdict[c]) # {}
          /\ \A b \in Reasons(p.verdict[c]) : b \in Base => ~BaseAccepts(b, c)
          /\ \A way \in p.ways : way \cap Reasons(p.verdict[c]) # {}
      BY <2>1 DEF WellBehaved, ExplainsItsRejections
    <3> HIDE DEF Reasons
    <3> QED BY <3>1, <3>2, <1>c
  <2>2. CASE p.verdict[c].ok
    <3>1. ~q.verdict[c].ok /\ t.verdict[c] = q.verdict[c] BY <1>a, <2>2, BothVerdicts
    <3>2. /\ Reasons(q.verdict[c]) # {}
          /\ \A b \in Reasons(q.verdict[c]) : b \in Base => ~BaseAccepts(b, c)
          /\ \A way \in q.ways : way \cap Reasons(q.verdict[c]) # {}
      BY <3>1 DEF WellBehaved, ExplainsItsRejections
    <3> HIDE DEF Reasons
    <3> QED BY <3>1, <3>2, <1>c
  <2> QED BY <2>1, <2>2
<1> QED BY <1>1, <1>2, <1>3, <1>4 DEF WellBehaved

\* Allowing either of two well-behaved policies is well behaved: this is where
\* the claims have to be intersected.
LEMMA OneOfTuple2WellBehaved ==
  ASSUME NEW p, NEW q, WellBehaved(p), WellBehaved(q)
  PROVE  WellBehaved(OneOfTuple2(p, q))
<1> DEFINE t == OneOfTuple2(p, q)
<1>0. p \in PolicyValue /\ q \in PolicyValue BY DEF WellBehaved
<1>a. ASSUME NEW c \in Chain
      PROVE  /\ p.verdict[c] \in Verdict /\ q.verdict[c] \in Verdict
             /\ t.verdict[c] = MeetsOne(p.verdict[c], q.verdict[c])
  BY <1>0 DEF PolicyValue, OneOfTuple2
<1>d. ASSUME NEW c \in Chain
      PROVE  LET v == p.verdict[c] w == q.verdict[c] u == t.verdict[c]
             IN  /\ u \in Verdict
                 /\ u.ok <=> (v.ok \/ w.ok)
                 /\ v.ok => u = v
                 /\ (~v.ok /\ w.ok) => u = w
                 /\ (~v.ok /\ ~w.ok) => u.reasons = v.reasons \o w.reasons
  <2> DEFINE v == p.verdict[c]
             w == q.verdict[c]
             u == t.verdict[c]
  <2>1. v \in Verdict /\ w \in Verdict /\ u = MeetsOne(v, w) BY <1>a
  <2> HIDE DEF v, w, u
  <2>2. /\ u \in Verdict
        /\ u.ok <=> (v.ok \/ w.ok)
        /\ v.ok => u = v
        /\ (~v.ok /\ w.ok) => u = w
        /\ (~v.ok /\ ~w.ok) => u.reasons = v.reasons \o w.reasons
    BY <2>1, OneVerdict
  <2> QED BY <2>2 DEF v, w, u
<1>b. t.claims = p.claims \cap q.claims BY DEF OneOfTuple2
<1>c. t.ways = p.ways \cup q.ways BY DEF OneOfTuple2
<1>1. t \in PolicyValue
  <2>1. ASSUME NEW c \in Chain PROVE MeetsOne(p.verdict[c], q.verdict[c]) \in Verdict
    BY <1>a, <1>d
  <2> QED BY <1>0, <2>1 DEF PolicyValue, OneOfTuple2
<1>2. AcceptsAsWritten(t)
  <2> SUFFICES ASSUME NEW c \in Chain
               PROVE  t.verdict[c].ok <=>
                        \E way \in t.ways : \A b \in way : BaseAccepts(b, c)
    BY DEF AcceptsAsWritten
  <2>1. t.verdict[c].ok <=> p.verdict[c].ok \/ q.verdict[c].ok
    BY <1>d
  <2>2. /\ p.verdict[c].ok <=> \E v \in p.ways : \A b \in v : BaseAccepts(b, c)
        /\ q.verdict[c].ok <=> \E w \in q.ways : \A b \in w : BaseAccepts(b, c)
    BY DEF WellBehaved, AcceptsAsWritten
  <2> QED BY <2>1, <2>2, <1>c
<1>3. EnforcesItsClaims(t)
  <2> SUFFICES ASSUME NEW c \in Chain, NEW oid \in t.claims, t.verdict[c].ok
               PROVE  \E b \in t.verdict[c].by : oid \in BaseClaims(b) /\ BaseAccepts(b, c)
    BY DEF EnforcesItsClaims
  <2>1. \/ p.verdict[c].ok /\ t.verdict[c].by = p.verdict[c].by
        \/ q.verdict[c].ok /\ t.verdict[c].by = q.verdict[c].by
    BY <1>d
  <2> QED BY <2>1, <1>b DEF WellBehaved, EnforcesItsClaims
<1>4. ExplainsItsRejections(t)
  <2> DEFINE Reasons(v) == {v.reasons[i] : i \in DOMAIN v.reasons}
  <2> SUFFICES ASSUME NEW c \in Chain, ~t.verdict[c].ok
               PROVE  /\ Reasons(t.verdict[c]) # {}
                      /\ \A b \in Reasons(t.verdict[c]) : b \in Base => ~BaseAccepts(b, c)
                      /\ \A way \in t.ways : way \cap Reasons(t.verdict[c]) # {}
    BY DEF ExplainsItsRejections
  <2>1. /\ ~p.verdict[c].ok /\ ~q.verdict[c].ok
        /\ t.verdict[c].reasons = p.verdict[c].reasons \o q.verdict[c].reasons
    BY <1>d
  <2>2. Reasons(t.verdict[c]) = Reasons(p.verdict[c]) \cup Reasons(q.verdict[c])
    <3>1. p.verdict[c].reasons \in Seq(Reason) /\ q.verdict[c].reasons \in Seq(Reason)
      BY <1>a DEF Verdict
    <3> DEFINE s == p.verdict[c].reasons
               r == q.verdict[c].reasons
    <3>2. {(s \o r)[i] : i \in DOMAIN (s \o r)}
            = {s[i] : i \in DOMAIN s} \cup {r[i] : i \in DOMAIN r}
      <4> HIDE DEF s, r
      <4>1. s \in Seq(Reason) /\ r \in Seq(Reason) BY <3>1 DEF s, r
      <4> QED BY <4>1, JoinedReasons, Zenon
    <3> QED BY <2>1, <3>2, Zenon
  <2>3. /\ Reasons(p.verdict[c]) # {}
        /\ \A b \in Reasons(p.verdict[c]) : b \in Base => ~BaseAccepts(b, c)
        /\ \A way \in p.ways : way \cap Reasons(p.verdict[c]) # {}
    BY <2>1 DEF WellBehaved, ExplainsItsRejections
  <2>4. /\ \A b \in Reasons(q.verdict[c]) : b \in Base => ~BaseAccepts(b, c)
        /\ \A way \in q.ways : way \cap Reasons(q.verdict[c]) # {}
    BY <2>1 DEF WellBehaved, ExplainsItsRejections
  <2> HIDE DEF Reasons
  <2> QED BY <2>2, <2>3, <2>4, <1>c
<1> QED BY <1>1, <1>2, <1>3, <1>4 DEF WellBehaved

-----------------------------------------------------------------------------
(* The stack.                                                              *)

\* Pushing, replacing the top and combining the top two keep the stack well
\* behaved if the new policy is.
LEMMA StackStep ==
  ASSUME AllWellBehaved, NEW p, WellBehaved(p), Push(p) \/ (Len(stack) >= 1 /\ Wrap(p))
                                               \/ (Len(stack) >= 2 /\ Combine(p))
  PROVE  AllWellBehaved'
<1>0. p \in PolicyValue /\ stack \in Seq(PolicyValue) /\ calls' \in Nat
  BY DEF AllWellBehaved, WellBehaved, Push, Wrap, Combine, Call
<1>1. CASE Push(p)
  <2>1. stack' = Append(stack, p) BY <1>1 DEF Push
  <2> QED BY <1>0, <2>1 DEF AllWellBehaved, WellBehaved
<1>2. CASE Len(stack) >= 1 /\ Wrap(p)
  <2>1. stack' = [stack EXCEPT ![Len(stack)] = p] BY <1>2 DEF Wrap
  <2>2. stack' \in Seq(PolicyValue) /\ DOMAIN stack' = DOMAIN stack BY <1>0, <1>2, <2>1
  <2>3. ASSUME NEW i \in DOMAIN stack' PROVE stack'[i] = p \/ stack'[i] = stack[i]
    BY <1>0, <2>1, <2>2
  <2> QED BY <1>0, <2>2, <2>3 DEF AllWellBehaved
<1>3. CASE Len(stack) >= 2 /\ Combine(p)
  <2> DEFINE rest == SubSeq(stack, 1, Len(stack) - 2)
  <2>1. stack' = Append(rest, p) BY <1>3 DEF Combine
  <2>2. /\ rest \in Seq(PolicyValue)
        /\ \A i \in DOMAIN rest : i \in DOMAIN stack /\ rest[i] = stack[i]
    BY <1>0, <1>3
  <2> HIDE DEF rest
  <2>3. stack' \in Seq(PolicyValue) BY <1>0, <2>1, <2>2
  <2>4. ASSUME NEW i \in DOMAIN stack' PROVE stack'[i] = p \/ (i \in DOMAIN rest /\ stack'[i] = rest[i])
    <3>1. i \in 1..(Len(rest) + 1) BY <2>1, <2>2, <1>0
    <3>2. CASE i = Len(rest) + 1 BY <3>2, <2>1, <2>2, <1>0
    <3>3. CASE i \in 1..Len(rest) BY <3>3, <2>1, <2>2, <1>0
    <3> QED BY <3>1, <3>2, <3>3, <2>2
  <2> QED BY <1>0, <2>2, <2>3, <2>4 DEF AllWellBehaved
<1> QED BY <1>1, <1>2, <1>3

\* Whatever the caller composes, every policy built stays well behaved.
THEOREM Composition == Spec => []AllWellBehaved
<1>1. Init => AllWellBehaved
  BY DEF Init, AllWellBehaved
<1>2. AllWellBehaved /\ [Next]_vars => AllWellBehaved'
  <2> SUFFICES ASSUME AllWellBehaved, [Next]_vars PROVE AllWellBehaved'
    OBVIOUS
  <2>0. Len(stack) >= 1 => WellBehaved(Top)
    BY DEF AllWellBehaved, Top
  <2>1. Len(stack) >= 2 => WellBehaved(BelowTop) /\ WellBehaved(Top)
    BY DEF AllWellBehaved, Top, BelowTop
  <2>2. CASE UNCHANGED vars
    BY <2>2 DEF AllWellBehaved, WellBehaved, vars
  <2>3. CASE PolicyMacro
    <3>1. CASE \E b \in Base : Push(BasePolicy(b))
      BY <3>1, BaseWellBehaved, StackStep
    <3>2. CASE Push(WrappedNone)
      BY <3>2, NoneWellBehaved, StackStep
    <3>3. CASE Len(stack) >= 1 /\ (Wrap(Either(Top)) \/ Wrap(WrappedSome(Top)))
      BY <3>3, <2>0, StackStep DEF Either, WrappedSome
    <3>4. CASE Len(stack) >= 2 /\ Combine(Tuple2(BelowTop, Top))
      BY <3>4, <2>1, Tuple2WellBehaved, StackStep
    <3> QED BY <2>3, <3>1, <3>2, <3>3, <3>4 DEF PolicyMacro
  <2>4. CASE OneOfMacro
    <3>1. CASE Push(OneOfWrappedNone)
      BY <3>1, OneOfNoneWellBehaved, StackStep
    <3>2. CASE Len(stack) >= 1 /\ Wrap(OneOfWrappedSome(Top))
      BY <3>2, <2>0, StackStep DEF OneOfWrappedSome
    <3>3. CASE Len(stack) >= 2 /\ Combine(OneOfTuple2(BelowTop, Top))
      BY <3>3, <2>1, OneOfTuple2WellBehaved, StackStep
    <3> QED BY <2>4, <3>1, <3>2, <3>3 DEF OneOfMacro
  <2>5. CASE Wrappers
    BY <2>5, <2>0, StackStep DEF Wrappers, AllOfPolicies, OneOfPolicies, AnyPolicy
  <2> QED BY <2>2, <2>3, <2>4, <2>5 DEF Next
<1> QED BY <1>1, <1>2, PTL DEF Spec

\* No composition accepts a chain whose critical extension it claims and no
\* policy that accepted the chain enforces.
THEOREM ClaimsAlwaysEnforced == Spec => []ClaimsEnforced
<1>1. AllWellBehaved => ClaimsEnforced
  BY DEF AllWellBehaved, ClaimsEnforced, Built, WellBehaved
<1> QED BY <1>1, Composition, PTL

\* Every composition accepts exactly the chains its expression describes.
THEOREM VerdictsAlwaysAsWritten == Spec => []VerdictsAsWritten
<1>1. AllWellBehaved => VerdictsAsWritten
  BY DEF AllWellBehaved, VerdictsAsWritten, Built, WellBehaved
<1> QED BY <1>1, Composition, PTL

\* Every rejection names, for each way to be met, a policy that rejected.
THEOREM RejectionsAlwaysExplained == Spec => []RejectionsExplained
<1>1. AllWellBehaved => RejectionsExplained
  BY DEF AllWellBehaved, RejectionsExplained, Built, WellBehaved
<1> QED BY <1>1, Composition, PTL
=============================================================================
