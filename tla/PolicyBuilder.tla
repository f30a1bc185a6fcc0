---------------------------- MODULE PolicyBuilder ----------------------------
(***************************************************************************)
(* Composed policies: what the policy! and one_of! macros and the wrapper  *)
(* types make of the policies a caller gives them.                         *)
(*                                                                         *)
(* A policy is two things to a validator: the critical extensions it       *)
(* claims to enforce, and a verdict on every chain.  They are computed by  *)
(* two separate methods, and nothing but the care taken in each combinator *)
(* keeps the two in step: a claim is only good if every way for a chain to *)
(* be accepted runs a policy that enforces the extension.                  *)
(*                                                                         *)
(* A composed policy is the value of a nested Rust expression, built from  *)
(* the inside out; the operands built and not yet used are a stack.        *)
(***************************************************************************)
EXTENDS Integers, Sequences, FiniteSets

CONSTANTS
  Base,                       \* the policies that are not combinations
  Chain,                      \* candidate chains
  Oid,                        \* extension types
  BaseClaims(_),              \* the extensions a base policy enforces
  BaseAccepts(_, _),          \* (base policy, chain): its verdict
  Disabled,                   \* the reason given for a disabled alternative
  MaxOperands,                \* bound: operands on the stack
  MaxCalls                    \* bound: constructor calls in the expression

ASSUME BuilderAssumption ==
  /\ \A b \in Base : BaseClaims(b) \subseteq Oid
  /\ \A b \in Base, c \in Chain : BaseAccepts(b, c) \in BOOLEAN
  /\ Disabled \notin Base

VARIABLES
  stack,   \* the policies built so far, innermost first
  calls    \* how many constructors have been called

vars == <<stack, calls>>

-----------------------------------------------------------------------------
(* Verdicts.  A rejection carries the reasons that its text joins: the     *)
(* base policies that rejected the chain and the disabled alternatives.    *)
(* An acceptance carries the base policies that it rests on: those of the  *)
(* successful alternatives that ran and accepted.                          *)

Reason == Base \cup {Disabled}

Verdict == [ok : BOOLEAN, reasons : Seq(Reason), by : SUBSET Base]

(* A policy.  Besides its claims and its verdicts it has "ways", which the *)
(* code does not keep: the sets of base policies that the expression says  *)
(* must all accept, any one set being enough.  It is what the caller       *)
(* wrote, and the verdicts are compared with it.                           *)

PolicyValue ==
  [claims : SUBSET Oid, verdict : [Chain -> Verdict],
   ways : SUBSET SUBSET Base]

-----------------------------------------------------------------------------
(* The policies and their combinators.                                     *)

BasePolicy(b) ==
  [claims  |-> BaseClaims(b),
   verdict |-> [c \in Chain |->
     IF BaseAccepts(b, c)
       THEN [ok |-> TRUE, reasons |-> <<>>, by |-> {b}]
       ELSE [ok |-> FALSE, reasons |-> <<b>>, by |-> {}]],
   ways    |-> {{b}}]

\* Slip: the second policy's rejection is passed on with the first one's reasons.
MeetsBothUnexplained(v, w) ==
  IF ~v.ok THEN v
  ELSE IF ~w.ok THEN [ok |-> FALSE, reasons |-> v.reasons, by |-> {}]
  ELSE [ok |-> TRUE, reasons |-> <<>>, by |-> v.by \cup w.by]

\* first? ; second: the second policy runs only if the first accepts.
MeetsBoth(v, w) ==
  IF ~v.ok THEN v
  ELSE IF ~w.ok THEN w
  ELSE [ok |-> TRUE, reasons |-> <<>>, by |-> v.by \cup w.by]

\* Both must accept, and the claims are those of both.
Tuple2(p, q) ==
  [claims  |-> p.claims \cup q.claims,
   verdict |-> [c \in Chain |-> MeetsBoth(p.verdict[c], q.verdict[c])],
   ways    |-> {v \cup w : v \in p.ways, w \in q.ways}]

\* The branch that was taken answers for both questions.
Either(p) == p

\* An if without else: with the condition false, it claims nothing and accepts.
WrappedSome(p) == p
WrappedNone ==
  [claims  |-> {},
   verdict |-> [c \in Chain |-> [ok |-> TRUE, reasons |-> <<>>, by |-> {}]],
   ways    |-> {{}}]

\* The second policy runs only if the first rejects; if both do, the reasons
\* are joined.
MeetsOne(v, w) ==
  IF v.ok THEN v
  ELSE IF w.ok THEN w
  ELSE [ok |-> FALSE, reasons |-> v.reasons \o w.reasons, by |-> {}]

\* Slip: the claims of alternatives are united, as those of Tuple2 are.
OneOfTuple2Union(p, q) ==
  [claims  |-> p.claims \cup q.claims,
   verdict |-> [c \in Chain |-> MeetsOne(p.verdict[c], q.verdict[c])],
   ways    |-> p.ways \cup q.ways]

\* One must accept.  An extension is claimed only if both claim it.
OneOfTuple2(p, q) ==
  [claims  |-> {oid \in p.claims : oid \in q.claims},
   verdict |-> [c \in Chain |-> MeetsOne(p.verdict[c], q.verdict[c])],
   ways    |-> p.ways \cup q.ways]

OneOfWrappedSome(p) == p

\* Slip: a disabled alternative accepts, as a disabled requirement does.
OneOfWrappedNoneAccepts ==
  [claims  |-> {},
   verdict |-> [c \in Chain |-> [ok |-> TRUE, reasons |-> <<>>, by |-> {}]],
   ways    |-> {}]

\* A disabled alternative claims nothing and rejects: it is no way to be met.
OneOfWrappedNone ==
  [claims  |-> {},
   verdict |-> [c \in Chain |->
                 [ok |-> FALSE, reasons |-> <<Disabled>>, by |-> {}]],
   ways    |-> {}]

\* The wrapper types hand both questions on.
AllOfPolicies(p) == p
OneOfPolicies(p) == p
AnyPolicy(p) == p

-----------------------------------------------------------------------------
(* Evaluating the expression.                                              *)

Init == stack = <<>> /\ calls = 0

Top == stack[Len(stack)]
BelowTop == stack[Len(stack) - 1]

Call == calls < MaxCalls /\ calls' = calls + 1

\* An operand is complete.
Push(p) ==
  /\ Call
  /\ Len(stack) < MaxOperands
  /\ stack' = Append(stack, p)

\* A constructor of one operand is called.
Wrap(p) ==
  /\ Call
  /\ stack' = [stack EXCEPT ![Len(stack)] = p]

\* A constructor of two operands is called, the second operand on top.
Combine(p) ==
  /\ Call
  /\ stack' = Append(SubSeq(stack, 1, Len(stack) - 2), p)

\* A flat sequence nests to the right; a false condition leaves out its branch.
PolicyMacro ==
  \/ \E b \in Base : Push(BasePolicy(b))
  \/ Push(WrappedNone)
  \/ Len(stack) >= 1 /\ Wrap(Either(Top))
  \/ Len(stack) >= 1 /\ Wrap(WrappedSome(Top))
  \/ Len(stack) >= 2 /\ Combine(Tuple2(BelowTop, Top))

OneOfMacro ==
  \/ Push(OneOfWrappedNone)
  \/ Len(stack) >= 1 /\ Wrap(OneOfWrappedSome(Top))
  \/ Len(stack) >= 2 /\ Combine(OneOfTuple2(BelowTop, Top))

Wrappers ==
  /\ Len(stack) >= 1
  /\ \/ Wrap(AllOfPolicies(Top))
     \/ Wrap(OneOfPolicies(Top))
     \/ Wrap(AnyPolicy(Top))

Next == PolicyMacro \/ OneOfMacro \/ Wrappers

Spec == Init /\ [][Next]_vars

-----------------------------------------------------------------------------
(* Properties.                                                             *)

Built == {stack[i] : i \in DOMAIN stack}

\* A policy accepts exactly the chains that the expression says it accepts:
\* those that all policies of some way accept.
AcceptsAsWritten(p) ==
  \A c \in Chain :
    p.verdict[c].ok <=> \E way \in p.ways : \A b \in way : BaseAccepts(b, c)

\* A policy that claims an extension and accepts a chain has run a base policy
\* that enforces the extension and accepts the chain.
EnforcesItsClaims(p) ==
  \A c \in Chain, oid \in p.claims :
    p.verdict[c].ok =>
      \E b \in p.verdict[c].by : oid \in BaseClaims(b) /\ BaseAccepts(b, c)

\* A rejection's reasons are true, and together they explain why no way to be
\* met was open: each way has a policy that is named and rejects the chain.
ExplainsItsRejections(p) ==
  \A c \in Chain :
    LET reasons == {p.verdict[c].reasons[i] : i \in DOMAIN p.verdict[c].reasons}
    IN  ~p.verdict[c].ok =>
          /\ reasons # {}
          /\ \A b \in reasons : b \in Base => ~BaseAccepts(b, c)
          /\ \A way \in p.ways : way \cap reasons # {}

\* Every policy the macros and wrappers can build (policy_builder.rs) accepts
\* the chains its expression describes, through disabled branches, nested
\* alternatives and short-circuits alike.
VerdictsAsWritten == \A p \in Built : AcceptsAsWritten(p)

\* Whatever is composed how, a validator that trusts the claims of the policy
\* (validator.rs, has_unhandled_critical_extensions) accepts no chain whose
\* critical extension no policy looked at.
ClaimsEnforced == \A p \in Built : EnforcesItsClaims(p)

\* A composed policy's reason for rejecting a chain, which joins the reasons of
\* its alternatives, leaves none of them out.
RejectionsExplained == \A p \in Built : ExplainsItsRejections(p)
=============================================================================
