---------------------------- MODULE SearchProofs ----------------------------
(***************************************************************************)
(* Proofs about the order in which the search considers chains, what it    *)
(* reports, and how long a chain can get, for every PKI, policy and        *)
(* backend.                                                                *)
(***************************************************************************)
EXTENDS ValidatorProofs, FiniteSetTheorems

Searching == pc \in {"search", "roots", "intermediates"}
Extending == pc \in {"roots", "intermediates"}

-----------------------------------------------------------------------------
(* The invariants.                                                         *)

\* The positions a loop has dealt with.
Done == DOMAIN candidates \ todo

\* A loop deals with its candidates in the order the sort leaves them in, or in
\* the opposite one.
SweepInvariant ==
  \A a \in Done, b \in todo :
    /\ pc = "roots" => SortsNoLater(candidates, Tip, a, b)
    /\ pc = "intermediates" => SortsNoLater(candidates, Tip, b, a)

Agree(k, s, t) == \A i \in 1..k : s[i] = t[i]

\* At place k the two chains part, and the store offers the issuer in the first
\* before the one in the second.
PartsAt(store, k, s, t) ==
  /\ s[k] # t[k]
  /\ OfferedBefore(FindBySubject(store, t[k - 1].issuer), t[k - 1], s[k], t[k])

\* The chain is preferred to all that extend the partial one.
Before(store, chain, partial) ==
  \/ Len(chain) = 1
  \/ \E k \in 2..Len(partial) :
       /\ k <= Len(chain)
       /\ Agree(k - 1, chain, partial)
       /\ k = Len(chain) \/ PartsAt(store, k, chain, partial)

\* All that extends s is preferred to all that extends t.
Branches(store, s, t) ==
  \E k \in 2..Len(t) :
    /\ k <= Len(s)
    /\ Agree(k - 1, s, t)
    /\ PartsAt(store, k, s, t)

\* The loops over the candidates at hand lead to the chain.
InHand(chain) ==
  /\ Extending
  /\ Extends(chain, partial_chain)
  /\ IF pc = "roots"
       THEN Len(chain) = Len(partial_chain) + 1 =>
              \E i \in todo : candidates[i] = chain[Len(chain)]
       ELSE /\ Len(chain) > Len(partial_chain) + 1
            /\ \E i \in todo : candidates[i] = chain[Len(partial_chain) + 1]

\* The chain will be come across before the i-th one on the stack is taken.
PendingAbove(chain, i) ==
  \/ \E j \in DOMAIN stack : i < j /\ Extends(chain, stack[j])
  \/ InHand(chain)

\* The chain is the partial one and a root that was dealt with.
Tried(chain) ==
  /\ Extends(chain, partial_chain)
  /\ Len(chain) = Len(partial_chain) + 1
  /\ pc = "roots" => \E a \in Done : candidates[a] = chain[Len(chain)]

\* Preferred chains come first: whatever is preferred to the chains in hand is
\* on record, and whatever is preferred to those of a stack entry is on record
\* or turns up before the entry does.
PreferenceInvariant ==
  \A chain \in Chains : Candidate(chain) =>
    /\ Searching => \A i \in DOMAIN stack :
         Before(intermediates, chain, stack[i]) => Recorded(chain) \/ PendingAbove(chain, i)
    /\ Extending /\ (Before(intermediates, chain, partial_chain) \/ Tried(chain)) => Recorded(chain)

\* Chains are put on record in the order of preference,
RecordInOrder ==
  \A i, j \in DOMAIN policy_failures :
    i < j => Preferred(roots, intermediates,
                       policy_failures[i].chain, policy_failures[j].chain)

\* before all that the stack leads to,
RecordBeforeStack ==
  \A i \in DOMAIN policy_failures, j \in DOMAIN stack :
    Before(intermediates, policy_failures[i].chain, stack[j])

\* and before all that is in hand.
RecordBeforeHand ==
  Extending => \A i \in DOMAIN policy_failures :
    LET chain == policy_failures[i].chain
    IN  Before(intermediates, chain, partial_chain) \/ Tried(chain)

\* What leads to preferred chains is higher on the stack,
StackInOrder ==
  \A i, j \in DOMAIN stack : i < j => Branches(intermediates, stack[j], stack[i])

\* and the chain in hand is preferred to all of it, but for the chains it was
\* itself extended to.
HandBeforeStack ==
  Extending => \A i \in DOMAIN stack :
    \/ Branches(intermediates, partial_chain, stack[i])
    \/ /\ pc = "intermediates"
       /\ \E a \in Done : stack[i] = Append(partial_chain, candidates[a])

\* What is on record comes before what is to come, and in order.
RecordInvariant ==
  NoDuplicates(roots) /\ NoDuplicates(intermediates) =>
    /\ RecordInOrder
    /\ RecordBeforeStack
    /\ RecordBeforeHand
    /\ StackInOrder
    /\ HandBeforeStack

-----------------------------------------------------------------------------
(* The order of candidates and of chains.                                  *)

LEMMA RankType ==
  ASSUME NEW c, NEW d
  PROVE  Rank(c, d) \in {0, 1, 2}
BY DEF Rank

\* No two positions sort alike.
LEMMA SortsAntisymmetric ==
  ASSUME NEW list, NEW subject, NEW i \in Nat, NEW j \in Nat,
         SortsNoLater(list, subject, i, j), SortsNoLater(list, subject, j, i)
  PROVE  i = j
BY RankType DEF SortsNoLater

\* A chain that is preferred to what extends a partial chain is preferred to
\* what extends it with another certificate in between.
LEMMA BeforeExtended ==
  ASSUME NEW store, NEW chain \in Seq(Cert), NEW t \in Seq(Cert), NEW c \in Cert,
         Before(store, chain, t)
  PROVE  Before(store, chain, Append(t, c))
<1>1. CASE Len(chain) = 1
  BY <1>1 DEF Before
<1>2. ASSUME NEW k \in 2..Len(t), k <= Len(chain), Agree(k - 1, chain, t),
             k = Len(chain) \/ PartsAt(store, k, chain, t)
      PROVE  Before(store, chain, Append(t, c))
  <2> DEFINE u == Append(t, c)
  <2>1. /\ k \in 2..Len(u) /\ u[k] = t[k] /\ u[k - 1] = t[k - 1]
        /\ \A i \in 1..(k - 1) : u[i] = t[i]
    OBVIOUS
  <2> HIDE DEF u
  <2>2. Agree(k - 1, chain, u)
    BY <1>2, <2>1 DEF Agree
  <2>3. PartsAt(store, k, chain, t) => PartsAt(store, k, chain, u)
    BY <2>1 DEF PartsAt
  <2>4. Before(store, chain, u)
    BY <1>2, <2>1, <2>2, <2>3 DEF Before
  <2> QED BY <2>4 DEF u
<1> QED BY <1>1, <1>2 DEF Before

LEMMA BranchesExtended ==
  ASSUME NEW store, NEW s \in Seq(Cert), NEW t \in Seq(Cert), NEW u \in Seq(Cert),
         Branches(store, s, t), Extends(u, s)
  PROVE  Branches(store, u, t)
<1>1. PICK k \in 2..Len(t) : k <= Len(s) /\ Agree(k - 1, s, t) /\ PartsAt(store, k, s, t)
  BY DEF Branches
<1>2. k <= Len(u) /\ u[k] = s[k] /\ \A i \in 1..(k - 1) : u[i] = s[i]
  BY <1>1 DEF Extends
<1>3. Agree(k - 1, u, t) /\ PartsAt(store, k, u, t)
  BY <1>1, <1>2 DEF Agree, PartsAt
<1> QED BY <1>2, <1>3 DEF Branches

LEMMA BranchesBefore ==
  ASSUME NEW store, NEW s \in Seq(Cert), NEW t \in Seq(Cert), NEW chain \in Seq(Cert),
         Branches(store, s, t), Extends(chain, s)
  PROVE  Before(store, chain, t)
<1>1. Branches(store, chain, t)
  BY BranchesExtended
<1> QED BY <1>1 DEF Branches, Before

\* What is preferred to the extensions of a partial chain by one certificate: the
\* same as for the chain itself, its completions, and what parts from it there.
LEMMA BeforeChild ==
  ASSUME NEW store, NEW chain \in Seq(Cert), NEW t \in Seq(Cert) \ {<<>>},
         NEW c \in Cert, Before(store, chain, Append(t, c))
  PROVE  \/ Before(store, chain, t)
         \/ Extends(chain, t) /\ Len(chain) = Len(t) + 1
         \/ /\ Extends(chain, t) /\ Len(chain) > Len(t) + 1
            /\ PartsAt(store, Len(t) + 1, chain, Append(t, c))
<1> DEFINE u == Append(t, c)
           n == Len(t)
<1>1. /\ n \in Nat \ {0} /\ Len(u) = n + 1
      /\ \A i \in 1..n : u[i] = t[i]
  OBVIOUS
<1>2. CASE Len(chain) = 1
  BY <1>2 DEF Before
<1>3. ASSUME NEW k \in 2..Len(u), k <= Len(chain), Agree(k - 1, chain, u),
             k = Len(chain) \/ PartsAt(store, k, chain, u)
      PROVE  \/ Before(store, chain, t)
             \/ Extends(chain, t) /\ Len(chain) = n + 1
             \/ /\ Extends(chain, t) /\ Len(chain) > n + 1
                /\ PartsAt(store, n + 1, chain, u)
  <2> HIDE DEF u, n
  <2>1. CASE k <= n
    <3>1. /\ k \in 2..n /\ u[k] = t[k] /\ u[k - 1] = t[k - 1]
          /\ \A i \in 1..(k - 1) : u[i] = t[i]
      BY <1>1, <2>1
    <3>2. Agree(k - 1, chain, t)
      BY <1>3, <3>1 DEF Agree
    <3>3. PartsAt(store, k, chain, u) => PartsAt(store, k, chain, t)
      BY <3>1 DEF PartsAt
    <3> QED BY <1>3, <3>1, <3>2, <3>3 DEF Before, n
  <2>2. CASE k > n
    <3>1. k = n + 1 /\ k - 1 = n /\ n < Len(chain)
      BY <1>1, <1>3, <2>2
    <3>2. \A i \in 1..n : chain[i] = t[i]
      BY <1>1, <1>3, <3>1 DEF Agree
    <3>3. Extends(chain, t)
      BY <3>1, <3>2 DEF Extends, n
    <3>4. Len(chain) = n + 1 \/ Len(chain) > n + 1
      BY <1>1, <3>1
    <3> QED BY <1>3, <3>1, <3>3, <3>4
  <2> QED BY <1>1, <2>1, <2>2
<1> HIDE DEF u, n
<1> QED BY <1>2, <1>3 DEF Before, u, n

\* A chain that ends where a partial chain goes on is preferred to what extends
\* the partial chain.
LEMMA CompletionBeforeChild ==
  ASSUME NEW store, NEW chain \in Seq(Cert), NEW t \in Seq(Cert) \ {<<>>},
         NEW c \in Cert, Extends(chain, t), Len(chain) = Len(t) + 1
  PROVE  Before(store, chain, Append(t, c))
<1> DEFINE k == Len(chain)
<1>1. k \in 2..Len(Append(t, c)) /\ Agree(k - 1, chain, Append(t, c))
  BY DEF Extends, Agree
<1> QED BY <1>1 DEF Before

LEMMA BeforePreferred ==
  ASSUME NEW rs, NEW store, NEW chain \in Seq(Cert), NEW t \in Seq(Cert) \ {<<>>},
         NEW c \in Cert, Before(store, chain, t)
  PROVE  Preferred(rs, store, chain, Append(t, c))
<1> DEFINE u == Append(t, c)
<1>1. /\ u \in Seq(Cert) /\ Len(u) = Len(t) + 1 /\ Len(u) > 1
      /\ \A i \in 1..Len(t) : u[i] = t[i]
  OBVIOUS
<1> HIDE DEF u
<1>2. CASE Len(chain) = 1
  BY <1>1, <1>2 DEF Preferred, u
<1>3. ASSUME NEW k \in 2..Len(t), k <= Len(chain), Agree(k - 1, chain, t),
             k = Len(chain) \/ PartsAt(store, k, chain, t)
      PROVE  Preferred(rs, store, chain, u)
  <2>1. /\ k \in 2..Len(chain) /\ k < Len(u)
        /\ \A i \in 1..(k - 1) : chain[i] = u[i]
        /\ u[k] = t[k] /\ t[k - 1] = chain[k - 1]
    BY <1>1, <1>3 DEF Agree
  <2>2. k = Len(chain)
        \/ (/\ k < Len(chain) /\ chain[k] # u[k]
            /\ OfferedBefore(FindBySubject(store, chain[k - 1].issuer),
                             chain[k - 1], chain[k], u[k]))
    BY <1>3, <2>1 DEF PartsAt
  <2>3. k <= Len(u)
    BY <1>1, <2>1
  <2> QED BY <2>1, <2>2, <2>3 DEF Preferred
<1> QED BY <1>2, <1>3 DEF Before, u

\* What is preferred to a partial chain and a root: what is preferred to all
\* extensions of the partial chain, and the same chain with an earlier root.
LEMMA PreferredToCompletion ==
  ASSUME NEW rs, NEW store, NEW chain \in Seq(Cert), NEW t \in Seq(Cert) \ {<<>>},
         NEW c \in Cert, Preferred(rs, store, chain, Append(t, c))
  PROVE  \/ Before(store, chain, t)
         \/ /\ Extends(chain, t) /\ Len(chain) = Len(t) + 1
            /\ chain[Len(t) + 1] # c
            /\ OfferedBefore(FindBySubject(rs, t[Len(t)].issuer), t[Len(t)],
                             chain[Len(t) + 1], c)
<1> DEFINE u == Append(t, c)
           n == Len(t)
<1>1. /\ n \in Nat \ {0} /\ Len(u) = n + 1 /\ u[n + 1] = c
      /\ \A i \in 1..n : u[i] = t[i]
  OBVIOUS
<1>2. CASE Len(chain) = 1
  BY <1>2 DEF Before
<1>3. CASE Len(chain) # 1
  <2>1. PICK k \in 2..Len(chain) :
          /\ k <= Len(u)
          /\ \A i \in 1..(k - 1) : chain[i] = u[i]
          /\ \/ k = Len(chain) /\ k < Len(u)
             \/ /\ chain[k] # u[k] /\ k = Len(chain) /\ k = Len(u)
                /\ OfferedBefore(FindBySubject(rs, chain[k - 1].issuer),
                                 chain[k - 1], chain[k], u[k])
             \/ /\ chain[k] # u[k] /\ k < Len(chain) /\ k < Len(u)
                /\ OfferedBefore(FindBySubject(store, chain[k - 1].issuer),
                                 chain[k - 1], chain[k], u[k])
    BY <1>3 DEF Preferred
  <2> HIDE DEF u, n
  <2>2. CASE k < Len(u)
    <3>1. /\ k \in 2..n /\ k <= Len(chain) /\ u[k] = t[k] /\ chain[k - 1] = t[k - 1]
          /\ \A i \in 1..(k - 1) : chain[i] = t[i]
      BY <1>1, <2>1, <2>2
    <3>2. k = Len(chain) \/ PartsAt(store, k, chain, t)
      BY <2>1, <2>2, <3>1 DEF PartsAt
    <3>3. Agree(k - 1, chain, t)
      BY <3>1 DEF Agree
    <3> QED BY <3>1, <3>2, <3>3 DEF Before, n
  <2>3. CASE k = Len(u)
    <3>1. /\ k = n + 1 /\ Len(chain) = n + 1
          /\ chain[n + 1] # c /\ chain[k - 1] = t[n]
          /\ \A i \in 1..n : chain[i] = t[i]
          /\ OfferedBefore(FindBySubject(rs, chain[k - 1].issuer),
                           chain[k - 1], chain[k], u[k])
      BY <1>1, <2>1, <2>3
    <3>2. Extends(chain, t)
      BY <1>1, <3>1 DEF Extends, n
    <3> QED BY <1>1, <3>1, <3>2 DEF n
  <2> QED BY <1>1, <2>1, <2>2, <2>3
<1> QED BY <1>2, <1>3

-----------------------------------------------------------------------------
(* What each step of the search does to its locals.                        *)

\* The candidate at position i is dealt with.
Takes(i) ==
  /\ Extending
  /\ UNCHANGED <<config, request, pc, partial_chain, candidates>>
  /\ i \in todo /\ todo' = todo \ {i}
  /\ candidates[i] \in Cert
  /\ \A j \in todo :
       /\ pc = "roots" => SortsNoLater(candidates, Tip, i, j)
       /\ pc = "intermediates" => SortsNoLater(candidates, Tip, j, i)

LEMMA BeginStep ==
  ASSUME BeginSearch
  PROVE  /\ UNCHANGED <<config, request>> /\ pc' = "search" /\ stack' = <<<<leaf>>>>
         /\ policy_failures' =
              IF LeafIsTrusted THEN <<PolicyFailure(<<leaf>>, "policy")>> ELSE <<>>
BY DEF BeginSearch

LEMMA PopStep ==
  ASSUME TypeOK, PopPartialChain
  PROVE  LET n   == Len(stack)
             top == stack[n]
         IN  /\ UNCHANGED <<config, request, policy_failures>>
             /\ pc = "search" /\ pc' = "roots"
             /\ n \in DOMAIN stack /\ n \in Nat /\ DOMAIN stack = 1..n
             /\ top \in Seq(Cert) \ {<<>>}
             /\ DOMAIN stack' = 1..(n - 1)
             /\ \A i \in DOMAIN stack' : stack'[i] = stack[i]
             /\ partial_chain' = top
             /\ candidates' = FindBySubject(roots, top[Len(top)].issuer)
             /\ todo' = DOMAIN candidates'
<1>1. stack \in Seq(Seq(Cert) \ {<<>>}) /\ stack # <<>>
  BY DEF TypeOK, PopPartialChain
<1>2. stack' = SubSeq(stack, 1, Len(stack) - 1)
  BY DEF PopPartialChain
<1>3. /\ Len(stack) \in DOMAIN stack /\ Len(stack) \in Nat /\ DOMAIN stack = 1..Len(stack)
      /\ stack[Len(stack)] \in Seq(Cert) \ {<<>>}
  BY <1>1
<1>4. /\ DOMAIN stack' = 1..(Len(stack) - 1)
      /\ \A i \in DOMAIN stack' : stack'[i] = stack[i]
  BY <1>1, <1>2
<1> QED BY <1>3, <1>4 DEF PopPartialChain

LEMMA NextTaken ==
  ASSUME TypeOK, NEW i \in NextCandidates
  PROVE  /\ i \in todo /\ i \in DOMAIN candidates /\ candidates[i] \in Cert
         /\ \A j \in todo :
              /\ pc = "roots" => SortsNoLater(candidates, Tip, i, j)
              /\ pc = "intermediates" => SortsNoLater(candidates, Tip, j, i)
BY DEF NextCandidates, TypeOK

LEMMA SkipStep ==
  ASSUME TypeOK, SkipCandidate
  PROVE  /\ UNCHANGED <<stack, policy_failures>>
         /\ \E i \in DOMAIN candidates :
              Takes(i) /\ ShouldSkipAddingCertificate(candidates[i]) # "Add"
<1>1. /\ UNCHANGED <<config, request, pc, stack, policy_failures, partial_chain, candidates>>
      /\ Extending
  BY DEF SkipCandidate, Extending
<1>2. PICK i \in NextCandidates :
        todo' = todo \ {i} /\ ShouldSkipAddingCertificate(candidates[i]) # "Add"
  BY DEF SkipCandidate
<1> QED BY <1>1, <1>2, NextTaken DEF Takes

LEMMA RejectStep ==
  ASSUME TypeOK, RejectChain
  PROVE  /\ pc = "roots" /\ stack' = stack
         /\ \E i \in DOMAIN candidates :
              /\ Takes(i)
              /\ ShouldSkipAddingCertificate(candidates[i]) = "Add"
              /\ policy_failures' =
                   Append(policy_failures,
                          PolicyFailure(Append(partial_chain, candidates[i]), "policy"))
<1>1. /\ UNCHANGED <<config, request, pc, stack, partial_chain, candidates>>
      /\ pc = "roots" /\ Extending
  BY DEF RejectChain, Extending
<1>2. PICK i \in NextCandidates :
        /\ todo' = todo \ {i}
        /\ ShouldSkipAddingCertificate(candidates[i]) = "Add"
        /\ policy_failures' =
             Append(policy_failures,
                    PolicyFailure(Append(partial_chain, candidates[i]), "policy"))
  BY DEF RejectChain
<1> QED BY <1>1, <1>2, NextTaken DEF Takes

LEMMA FindStep ==
  ASSUME FindIntermediates
  PROVE  /\ UNCHANGED <<config, request, policy_failures, stack, partial_chain>>
         /\ pc = "roots" /\ todo = {} /\ pc' = "intermediates"
         /\ candidates' = FindBySubject(intermediates, Tip.issuer)
         /\ todo' = DOMAIN candidates'
BY DEF FindIntermediates

LEMMA PushStep ==
  ASSUME TypeOK, PushIntermediate
  PROVE  /\ pc = "intermediates" /\ policy_failures' = policy_failures
         /\ \E i \in DOMAIN candidates :
              /\ Takes(i)
              /\ ShouldSkipAddingCertificate(candidates[i]) = "Add"
              /\ stack' = Append(stack, Append(partial_chain, candidates[i]))
BY DEF PushIntermediate, NextCandidates, Takes, TypeOK, Extending

LEMMA FinishStep ==
  ASSUME FinishPartialChain
  PROVE  /\ UNCHANGED <<config, request, policy_failures, stack, todo>>
         /\ pc = "intermediates" /\ todo = {} /\ pc' = "search"
         /\ partial_chain' = <<>> /\ candidates' = <<>>
BY DEF FinishPartialChain

\* Every step is one of these, or leaves no search behind.
LEMMA SearchSteps ==
  ASSUME TypeOK, SearchInvariant, [Next]_vars
  PROVE  \/ BeginSearch \/ PopPartialChain \/ SkipCandidate \/ RejectChain
         \/ FindIntermediates \/ PushIntermediate \/ FinishPartialChain
         \/ UNCHANGED vars
         \/ ~Searching' /\ stack' = <<>> /\ policy_failures' = <<>>
<1>1. CASE Caller
  <2>1. ~Searching'
    BY <1>1 DEF Caller, AppendRoot, AppendIntermediate, WithPolicyAndBackend, Validate,
                Searching
  <2>2. pc \in {"configuring", "idle"} /\ UNCHANGED <<stack, policy_failures>>
    BY <1>1 DEF Caller, AppendRoot, AppendIntermediate, WithPolicyAndBackend, Validate, locals
  <2> QED BY <2>1, <2>2 DEF SearchInvariant
<1>2. CASE RejectLeaf \/ AcceptTrustedLeaf \/ BackendPanics \/ AcceptChain \/ GiveUp
  BY <1>2 DEF RejectLeaf, AcceptTrustedLeaf, BackendPanics, AcceptChain, GiveUp, Return,
              Searching
<1> QED BY <1>1, <1>2 DEF Next, Call

\* The state of the loops over candidates.
LEMMA AtHand ==
  ASSUME TypeOK, SearchInvariant, Extending
  PROVE  /\ partial_chain \in Seq(Cert) \ {<<>>}
         /\ Tip \in Cert /\ Tip.issuer \in Name
         /\ Tip = partial_chain[Len(partial_chain)]
         /\ candidates \in Seq(Cert)
         /\ pc = "roots" => candidates = FindBySubject(roots, Tip.issuer)
         /\ pc = "intermediates" => candidates = FindBySubject(intermediates, Tip.issuer)
         /\ pc = "roots" \/ pc = "intermediates"
<1>1. partial_chain \in Seq(Cert) \ {<<>>} /\ candidates \in Seq(Cert)
  BY DEF TypeOK, Extending
<1>2. Tip \in Cert
  BY <1>1 DEF Tip
<1> QED BY <1>1, <1>2, CertAssumption DEF SearchInvariant, Tip, Extending

-----------------------------------------------------------------------------
(* The loops go through the candidates in order.                           *)

LEMMA NextSweep ==
  ASSUME TypeOK, SearchInvariant, SweepInvariant, [Next]_vars
  PROVE  SweepInvariant'
<1>1. ASSUME NEW i \in DOMAIN candidates, Takes(i)
      PROVE  SweepInvariant'
  <2> SUFFICES ASSUME NEW a \in Done', NEW b \in todo'
               PROVE  /\ pc' = "roots" => SortsNoLater(candidates', Tip', a, b)
                      /\ pc' = "intermediates" => SortsNoLater(candidates', Tip', b, a)
    BY DEF SweepInvariant
  <2>1. Tip' = Tip /\ UNCHANGED <<pc, candidates>> /\ b \in todo
    BY <1>1 DEF Takes, Tip
  <2>2. a = i \/ a \in Done
    BY <1>1 DEF Takes, Done
  <2> QED BY <1>1, <2>1, <2>2 DEF Takes, SweepInvariant
<1>2. CASE pc' \notin {"roots", "intermediates"}
  BY <1>2 DEF SweepInvariant
<1>3. CASE todo' = DOMAIN candidates'
  BY <1>3 DEF SweepInvariant, Done
<1>4. CASE UNCHANGED vars
  <2>1. UNCHANGED <<pc, partial_chain, candidates, todo>>
    BY <1>4 DEF vars, locals
  <2> QED BY <2>1 DEF SweepInvariant, Done, Tip
<1> QED BY <1>1, <1>2, <1>3, <1>4, SearchSteps, BeginStep, PopStep, SkipStep, RejectStep,
           FindStep, PushStep, FinishStep DEF Searching

-----------------------------------------------------------------------------
(* Preferred chains come first.                                            *)

\* A candidate chain goes on with something the stores offer.
LEMMA RootOffered ==
  ASSUME NEW chain \in Seq(Cert), Candidate(chain), NEW t \in Seq(Cert) \ {<<>>},
         Extends(chain, t), Len(chain) = Len(t) + 1
  PROVE  LET list == FindBySubject(roots, t[Len(t)].issuer)
         IN  \E j \in DOMAIN list : list[j] = chain[Len(chain)]
BY NextLink DEF Contains

LEMMA IntermediateOffered ==
  ASSUME NEW chain \in Seq(Cert), Candidate(chain), NEW t \in Seq(Cert) \ {<<>>},
         Extends(chain, t), Len(chain) > Len(t) + 1
  PROVE  LET list == FindBySubject(intermediates, t[Len(t)].issuer)
         IN  \E j \in DOMAIN list : list[j] = chain[Len(t) + 1]
<1>1. /\ chain[Len(t) + 1].subject = t[Len(t)].issuer
      /\ Contains(intermediates, chain[Len(t) + 1])
  BY NextLink
<1> QED BY <1>1 DEF Contains

\* What is on record stays there.
LEMMA StaysRecorded ==
  ASSUME TypeOK, NEW e, policy_failures' = Append(policy_failures, e)
  PROVE  \A chain : Recorded(chain) \/ chain = e.chain => Recorded(chain)'
<1>1. policy_failures \in Failures
  BY DEF TypeOK
<1>2. /\ \A k \in DOMAIN policy_failures :
           k \in DOMAIN policy_failures' /\ policy_failures'[k] = policy_failures[k]
      /\ Len(policy_failures) + 1 \in DOMAIN policy_failures'
      /\ policy_failures'[Len(policy_failures) + 1] = e
  BY <1>1 DEF Failures, TypeOK
<1> QED BY <1>2 DEF Recorded

LEMMA NextPreference ==
  ASSUME TypeOK, SearchInvariant, SweepInvariant, PreferenceInvariant, [Next]_vars
  PROVE  PreferenceInvariant'
<1> DEFINE Ahead(chain) ==
      \A i \in DOMAIN stack :
        Before(intermediates, chain, stack[i]) => Recorded(chain) \/ PendingAbove(chain, i)
    Behind(chain) ==
      Extending /\ (Before(intermediates, chain, partial_chain) \/ Tried(chain))
        => Recorded(chain)
<1> SUFFICES ASSUME NEW chain \in Chains, Candidate(chain)'
             PROVE  (Searching' => Ahead(chain)') /\ Behind(chain)'
  BY DEF PreferenceInvariant
<1>0. chain \in Seq(Cert)
  BY InputAssumption
<1>a. ASSUME UNCHANGED <<config, request>>
      PROVE  Candidate(chain) /\ intermediates' = intermediates
  BY <1>a, ChainsKept DEF config
<1>b. Candidate(chain) => (Searching => Ahead(chain)) /\ Behind(chain)
  BY DEF PreferenceInvariant
<1>1. CASE BeginSearch
  <2>1. /\ UNCHANGED <<config, request>> /\ pc' = "search" /\ stack' = <<<<leaf>>>>
        /\ policy_failures' =
             IF LeafIsTrusted THEN <<PolicyFailure(<<leaf>>, "policy")>> ELSE <<>>
    BY <1>1, BeginStep
  <2>2. Candidate(chain)
    BY <1>a, <2>1
  <2>3. ASSUME NEW i \in DOMAIN stack', Before(intermediates', chain, stack'[i])
        PROVE  Recorded(chain)'
    <3>0. i = 1 /\ stack'[i] = <<leaf>> /\ Len(<<leaf>>) = 1
      BY <2>1, <2>3
    <3>1. Len(chain) = 1
      BY <2>3, <3>0 DEF Before
    <3>2. chain[1] = leaf /\ Contains(roots, chain[1])
      BY <2>2, <3>1 DEF Candidate, CandidateChain, Linked
    <3>3. chain = <<leaf>>
      BY <1>0, <3>1, <3>2
    <3>4. policy_failures' = <<PolicyFailure(<<leaf>>, "policy")>>
      BY <2>1, <3>2 DEF LeafIsTrusted
    <3> QED BY <3>3, <3>4 DEF Recorded, PolicyFailure
  <2> QED BY <2>1, <2>3 DEF Extending
<1>2. CASE PopPartialChain
  <2> DEFINE n == Len(stack)
             top == stack[n]
  <2>1. /\ UNCHANGED <<config, request, policy_failures>>
        /\ pc = "search" /\ pc' = "roots"
        /\ n \in DOMAIN stack /\ n \in Nat /\ DOMAIN stack = 1..n
        /\ top \in Seq(Cert) \ {<<>>}
        /\ DOMAIN stack' = 1..(n - 1)
        /\ \A i \in DOMAIN stack' : stack'[i] = stack[i]
        /\ partial_chain' = top
        /\ candidates' = FindBySubject(roots, top[Len(top)].issuer)
        /\ todo' = DOMAIN candidates'
    BY <1>2, PopStep
  <2> HIDE DEF n, top
  <2>2. Candidate(chain) /\ intermediates' = intermediates
    BY <1>a, <2>1
  <2>3. Recorded(chain)' <=> Recorded(chain)
    BY <2>1 DEF Recorded
  <2>4. ~InHand(chain)
    BY <2>1 DEF InHand, Extending
  <2>5. Extends(chain, top) => InHand(chain)'
    <3>1. ASSUME Extends(chain, top), Len(chain) = Len(top) + 1
          PROVE  \E j \in todo' : candidates'[j] = chain[Len(chain)]
      BY <1>0, <2>1, <2>2, <3>1, RootOffered
    <3> QED BY <2>1, <3>1 DEF InHand, Extending
  <2>6. ASSUME NEW i \in DOMAIN stack', Before(intermediates', chain, stack'[i])
        PROVE  Recorded(chain)' \/ PendingAbove(chain, i)'
    <3>1. i \in DOMAIN stack /\ Before(intermediates, chain, stack[i])
      BY <2>1, <2>2, <2>6
    <3>2. Recorded(chain) \/ \E j \in DOMAIN stack : i < j /\ Extends(chain, stack[j])
      BY <1>b, <2>1, <2>2, <2>4, <3>1 DEF Searching, PendingAbove
    <3>3. ASSUME NEW j \in DOMAIN stack, i < j, Extends(chain, stack[j])
          PROVE  PendingAbove(chain, i)'
      <4>1. CASE j = n
        BY <2>5, <3>3, <4>1 DEF PendingAbove, top
      <4>2. CASE j # n
        <5>1. j \in DOMAIN stack' /\ stack'[j] = stack[j]
          BY <2>1, <4>2
        <5> QED BY <3>3, <5>1 DEF PendingAbove
      <4> QED BY <4>1, <4>2
    <3> QED BY <2>3, <3>2, <3>3
  <2>7. Before(intermediates, chain, top) => Recorded(chain)
    <3>1. ~PendingAbove(chain, n)
      BY <2>1, <2>4 DEF PendingAbove
    <3> QED BY <1>b, <2>1, <2>2, <3>1 DEF Searching, top
  <2>8. ~Tried(chain)'
    BY <2>1 DEF Tried, Done
  <2> QED BY <2>1, <2>2, <2>3, <2>6, <2>7, <2>8
<1>3. CASE SkipCandidate
  <2>1. PICK i \in DOMAIN candidates :
          Takes(i) /\ ShouldSkipAddingCertificate(candidates[i]) # "Add"
    BY <1>3, SkipStep
  <2>2. /\ UNCHANGED <<stack, policy_failures>>
        /\ UNCHANGED <<config, request, pc, partial_chain, candidates>>
        /\ Extending /\ todo' = todo \ {i}
    BY <1>3, <2>1, SkipStep DEF Takes
  <2>3. Candidate(chain) /\ intermediates' = intermediates
    BY <1>a, <2>2
  <2>4. Extends(chain, partial_chain) => candidates[i] # chain[Len(partial_chain) + 1]
    BY <1>0, <2>1, <2>2, <2>3, NextLinkIsAdded DEF Extending
  <2>5. Recorded(chain)' <=> Recorded(chain)
    BY <2>2 DEF Recorded
  <2>6. InHand(chain) => InHand(chain)'
    BY <2>2, <2>4 DEF InHand, Extending
  <2>7. \A k : PendingAbove(chain, k) => PendingAbove(chain, k)'
    BY <2>2, <2>6 DEF PendingAbove
  <2>8. Tried(chain)' => Tried(chain)
    BY <2>2, <2>4 DEF Tried, Done
  <2> QED BY <1>b, <2>2, <2>3, <2>5, <2>7, <2>8 DEF Searching, Extending
<1>4. CASE RejectChain
  <2>1. PICK i \in DOMAIN candidates :
          /\ Takes(i)
          /\ policy_failures' =
               Append(policy_failures,
                      PolicyFailure(Append(partial_chain, candidates[i]), "policy"))
    BY <1>4, RejectStep
  <2> DEFINE new == Append(partial_chain, candidates[i])
  <2>2. /\ pc = "roots" /\ stack' = stack
        /\ UNCHANGED <<config, request, pc, partial_chain, candidates>>
        /\ Extending /\ todo' = todo \ {i}
    BY <1>4, <2>1, RejectStep DEF Takes
  <2>3. Candidate(chain) /\ intermediates' = intermediates
    BY <1>a, <2>2
  <2>4. Recorded(chain) \/ chain = new => Recorded(chain)'
    <3>1. PolicyFailure(new, "policy").chain = new
      BY DEF PolicyFailure
    <3> HIDE DEF new
    <3> QED BY <2>1, <3>1, StaysRecorded DEF new
  <2>5. Extends(chain, partial_chain) /\ Len(chain) = Len(partial_chain) + 1
          /\ candidates[i] = chain[Len(chain)] => chain = new
    BY <1>0, <2>2, AtHand, ExtendsByOne
  <2> HIDE DEF new
  <2>6. InHand(chain) => Recorded(chain)' \/ InHand(chain)'
    <3>1. SUFFICES ASSUME InHand(chain), ~Recorded(chain)'
                   PROVE  InHand(chain)'
      OBVIOUS
    <3>2. Extends(chain, partial_chain)
      BY <3>1 DEF InHand
    <3>3. ASSUME Len(chain) = Len(partial_chain) + 1
          PROVE  \E j \in todo' : candidates[j] = chain[Len(chain)]
      <4>1. candidates[i] # chain[Len(chain)]
        BY <2>4, <2>5, <3>1, <3>2, <3>3
      <4>2. PICK j \in todo : candidates[j] = chain[Len(chain)]
        BY <2>2, <3>1, <3>3 DEF InHand
      <4> QED BY <2>2, <4>1, <4>2
    <3> QED BY <2>2, <3>2, <3>3 DEF InHand, Extending
  <2>7. \A k : PendingAbove(chain, k) => Recorded(chain)' \/ PendingAbove(chain, k)'
    BY <2>2, <2>6 DEF PendingAbove
  <2>8. Tried(chain)' => Tried(chain) \/ Recorded(chain)'
    <3>1. SUFFICES ASSUME Tried(chain)', ~Recorded(chain)'
                   PROVE  Tried(chain)
      OBVIOUS
    <3>2. Extends(chain, partial_chain) /\ Len(chain) = Len(partial_chain) + 1
      BY <2>2, <3>1 DEF Tried
    <3>3. PICK a \in Done' : candidates[a] = chain[Len(chain)]
      BY <2>2, <3>1 DEF Tried
    <3>4. a # i
      BY <2>4, <2>5, <3>1, <3>2, <3>3
    <3>5. a \in Done
      BY <2>2, <3>4 DEF Done
    <3> QED BY <3>2, <3>3, <3>5 DEF Tried
  <2> QED BY <1>b, <2>2, <2>3, <2>4, <2>7, <2>8 DEF Searching, Extending
<1>5. CASE FindIntermediates
  <2>1. /\ UNCHANGED <<config, request, policy_failures, stack, partial_chain>>
        /\ pc = "roots" /\ todo = {} /\ pc' = "intermediates"
        /\ candidates' = FindBySubject(intermediates, Tip.issuer)
        /\ todo' = DOMAIN candidates'
    BY <1>5, FindStep
  <2>2. Candidate(chain) /\ intermediates' = intermediates
    BY <1>a, <2>1
  <2>3. /\ partial_chain \in Seq(Cert) \ {<<>>} /\ Tip = partial_chain[Len(partial_chain)]
        /\ candidates = FindBySubject(roots, Tip.issuer)
    BY <2>1, AtHand DEF Extending
  <2>4. Recorded(chain)' <=> Recorded(chain)
    BY <2>1 DEF Recorded
  <2>5. InHand(chain) => InHand(chain)'
    <3>1. SUFFICES ASSUME InHand(chain) PROVE InHand(chain)'
      OBVIOUS
    <3>2. Extends(chain, partial_chain) /\ Len(chain) # Len(partial_chain) + 1
      BY <2>1, <3>1 DEF InHand
    <3>3. Len(chain) > Len(partial_chain) + 1
      BY <1>0, <2>3, <3>2 DEF Extends
    <3>4. \E j \in todo' : candidates'[j] = chain[Len(partial_chain) + 1]
      BY <1>0, <2>1, <2>2, <2>3, <3>2, <3>3, IntermediateOffered
    <3> QED BY <2>1, <3>2, <3>3, <3>4 DEF InHand, Extending
  <2>6. \A k : PendingAbove(chain, k) => PendingAbove(chain, k)'
    BY <2>1, <2>5 DEF PendingAbove
  <2>7. Tried(chain)' => Tried(chain)
    <3>1. SUFFICES ASSUME Tried(chain)' PROVE Tried(chain)
      OBVIOUS
    <3>2. Extends(chain, partial_chain) /\ Len(chain) = Len(partial_chain) + 1
      BY <2>1, <3>1 DEF Tried
    <3>3. \E j \in DOMAIN candidates : candidates[j] = chain[Len(chain)]
      BY <1>0, <2>2, <2>3, <3>2, RootOffered
    <3> QED BY <2>1, <3>2, <3>3 DEF Tried, Done
  <2> QED BY <1>b, <2>1, <2>2, <2>4, <2>6, <2>7 DEF Searching, Extending
<1>6. CASE PushIntermediate
  <2>1. PICK i \in DOMAIN candidates :
          /\ Takes(i)
          /\ stack' = Append(stack, Append(partial_chain, candidates[i]))
    BY <1>6, PushStep
  <2> DEFINE child == Append(partial_chain, candidates[i])
             n == Len(stack)
  <2>2. /\ pc = "intermediates" /\ policy_failures' = policy_failures
        /\ UNCHANGED <<config, request, pc, partial_chain, candidates>>
        /\ Extending /\ todo' = todo \ {i} /\ i \in todo /\ candidates[i] \in Cert
    BY <1>6, <2>1, PushStep DEF Takes
  <2>3. Candidate(chain) /\ intermediates' = intermediates
    BY <1>a, <2>2
  <2>4. /\ partial_chain \in Seq(Cert) \ {<<>>} /\ Tip = partial_chain[Len(partial_chain)]
        /\ candidates = FindBySubject(intermediates, Tip.issuer)
        /\ candidates \in Seq(Cert)
    BY <2>2, AtHand
  <2>5. child \in Seq(Cert) \ {<<>>} /\ n \in Nat
    BY <2>2, <2>4 DEF TypeOK
  <2>6. /\ DOMAIN stack = 1..n /\ DOMAIN stack' = 1..(n + 1)
        /\ stack'[n + 1] = child
        /\ \A k \in 1..n : stack'[k] = stack[k]
    BY <2>1, <2>5 DEF TypeOK
  <2>7. Recorded(chain)' <=> Recorded(chain)
    BY <2>2 DEF Recorded
  <2> HIDE DEF n
  <2>8. InHand(chain) => Extends(chain, child) \/ InHand(chain)'
    <3>1. ASSUME Extends(chain, partial_chain), Len(chain) > Len(partial_chain) + 1,
                 candidates[i] = chain[Len(partial_chain) + 1]
          PROVE  Extends(chain, child)
      <4>1. Extends(chain, Append(partial_chain, chain[Len(partial_chain) + 1]))
        BY <1>0, <2>4, <3>1, ExtendsOneMore
      <4> QED BY <3>1, <4>1
    <3> HIDE DEF child
    <3> QED BY <2>2, <3>1 DEF InHand, Extending
  <2> HIDE DEF child
  <2>9. \A k \in 1..n : PendingAbove(chain, k) => PendingAbove(chain, k)'
    <3>1. SUFFICES ASSUME NEW k \in 1..n, PendingAbove(chain, k)
                   PROVE  PendingAbove(chain, k)'
      OBVIOUS
    <3>2. Extends(chain, child) => PendingAbove(chain, k)'
      BY <2>5, <2>6 DEF PendingAbove
    <3>3. (\E j \in DOMAIN stack : k < j /\ Extends(chain, stack[j])) => PendingAbove(chain, k)'
      BY <2>5, <2>6 DEF PendingAbove
    <3> QED BY <2>8, <3>1, <3>2, <3>3 DEF PendingAbove
  <2>10. Before(intermediates, chain, child) => Recorded(chain) \/ InHand(chain)'
    <3>1. SUFFICES ASSUME Before(intermediates, chain, child)
                   PROVE  Recorded(chain) \/ InHand(chain)'
      OBVIOUS
    <3>2. CASE Before(intermediates, chain, partial_chain)
      BY <1>b, <2>2, <2>3, <3>2
    <3>3. CASE Extends(chain, partial_chain) /\ Len(chain) = Len(partial_chain) + 1
      BY <1>b, <2>2, <2>3, <3>3 DEF Tried
    <3>4. CASE /\ Extends(chain, partial_chain) /\ Len(chain) > Len(partial_chain) + 1
               /\ PartsAt(intermediates, Len(partial_chain) + 1, chain, child)
      <4> DEFINE k == Len(partial_chain) + 1
      <4>1. child[k] = candidates[i] /\ child[k - 1] = Tip
        BY <2>2, <2>4 DEF child
      <4>2. chain[k] # candidates[i] /\ OfferedBefore(candidates, Tip, chain[k], candidates[i])
        BY <2>4, <3>4, <4>1 DEF PartsAt
      <4>3. PICK a \in DOMAIN candidates :
              candidates[a] = chain[k] /\ SortsNoLater(candidates, Tip, a, i)
        BY <4>2 DEF OfferedBefore
      <4>4. a # i
        BY <4>2, <4>3
      <4>5. a \in todo
        <5>1. ASSUME a \notin todo PROVE FALSE
          <6>1. SortsNoLater(candidates, Tip, i, a)
            BY <2>2, <5>1 DEF SweepInvariant, Done
          <6>2. a \in Nat /\ i \in Nat
            BY <2>4
          <6> QED BY <4>3, <4>4, <6>1, <6>2, SortsAntisymmetric
        <5> QED BY <5>1
      <4> QED BY <2>2, <3>4, <4>3, <4>4, <4>5 DEF InHand, Extending
    <3> QED BY <1>0, <2>2, <2>4, <3>1, <3>2, <3>3, <3>4, BeforeChild DEF child
  <2>11. Tried(chain)' => Tried(chain)
    BY <2>2 DEF Tried
  <2>12. ASSUME NEW k \in DOMAIN stack', Before(intermediates', chain, stack'[k])
         PROVE  Recorded(chain)' \/ PendingAbove(chain, k)'
    <3>1. CASE k = n + 1
      BY <2>3, <2>6, <2>7, <2>10, <2>12, <3>1 DEF PendingAbove
    <3>2. CASE k # n + 1
      <4>1. k \in 1..n /\ k \in DOMAIN stack /\ stack'[k] = stack[k]
        BY <2>5, <2>6, <3>2
      <4>2. Recorded(chain) \/ PendingAbove(chain, k)
        BY <1>b, <2>2, <2>3, <2>12, <4>1 DEF Searching, Extending
      <4> QED BY <2>7, <2>9, <4>1, <4>2
    <3> QED BY <3>1, <3>2
  <2> QED BY <1>b, <2>2, <2>3, <2>7, <2>11, <2>12 DEF Extending
<1>7. CASE FinishPartialChain
  <2>1. /\ UNCHANGED <<config, request, policy_failures, stack, todo>>
        /\ pc = "intermediates" /\ todo = {} /\ pc' = "search"
    BY <1>7, FinishStep
  <2>2. Candidate(chain) /\ intermediates' = intermediates
    BY <1>a, <2>1
  <2>3. ~InHand(chain) /\ (Recorded(chain)' <=> Recorded(chain))
    BY <2>1 DEF InHand, Recorded
  <2>4. \A k : PendingAbove(chain, k) => PendingAbove(chain, k)'
    BY <2>1, <2>3 DEF PendingAbove
  <2> QED BY <1>b, <2>1, <2>2, <2>3, <2>4 DEF Searching, Extending
<1>8. CASE UNCHANGED vars
  <2>1. /\ UNCHANGED <<config, request>>
        /\ UNCHANGED <<pc, policy_failures, stack, partial_chain, candidates, todo>>
    BY <1>8 DEF vars, locals
  <2>2. Candidate(chain) /\ intermediates' = intermediates
    BY <1>a, <2>1
  <2>3. (Recorded(chain)' <=> Recorded(chain)) /\ (Tried(chain)' => Tried(chain))
    BY <2>1 DEF Tried, Done, Recorded
  <2>4. \A k : PendingAbove(chain, k) => PendingAbove(chain, k)'
    BY <2>1 DEF PendingAbove, InHand, Extending
  <2> QED BY <1>b, <2>1, <2>2, <2>3, <2>4 DEF Searching, Extending
<1>9. CASE ~Searching'
  BY <1>9 DEF Searching, Extending
<1> QED BY <1>1, <1>2, <1>3, <1>4, <1>5, <1>6, <1>7, <1>8, <1>9, SearchSteps
\* The two ways a call succeeds.
LEMMA AcceptStep ==
  ASSUME TypeOK, AcceptChain
  PROVE  /\ UNCHANGED <<config, request>> /\ pc = "roots"
         /\ \E i \in NextCandidates :
              /\ result' = Ok(Append(partial_chain, candidates[i]))
              /\ i \in todo /\ i \in DOMAIN candidates /\ candidates[i] \in Cert
              /\ \A j \in todo : SortsNoLater(candidates, Tip, i, j)
<1>1. PICK i \in NextCandidates : Return(Ok(Append(partial_chain, candidates[i])))
  BY DEF AcceptChain
<1>2. pc = "roots"
  BY DEF AcceptChain
<1> QED BY <1>1, <1>2, NextTaken DEF Return

LEMMA NextMostPreferred ==
  ASSUME TypeOK, SearchInvariant, SweepInvariant, PreferenceInvariant, [Next]_vars,
         MostPreferred
  PROVE  MostPreferred'
<1>1. CASE result'.tag = "None"
  BY <1>1 DEF MostPreferred
<1>2. CASE RejectLeaf
  BY <1>2 DEF RejectLeaf, Return, Err, MostPreferred
<1>3. CASE AcceptTrustedLeaf
  <2>1. result'.chain = <<leaf>>
    BY <1>3 DEF AcceptTrustedLeaf, Return, Ok
  <2>2. ASSUME NEW rs, NEW store, NEW chain \in Chains
        PROVE  ~Preferred(rs, store, chain, <<leaf>>)
    <3>1. Len(<<leaf>>) = 1
      OBVIOUS
    <3> QED BY <3>1 DEF Preferred
  <2> QED BY <2>1, <2>2 DEF MostPreferred
<1>4. CASE BackendPanics
  BY <1>4 DEF BackendPanics, Return, Panic, MostPreferred
<1>5. CASE AcceptChain
  <2>1. UNCHANGED <<config, request>> /\ pc = "roots" /\ Extending
    BY <1>5, AcceptStep DEF Extending
  <2>2. PICK i \in NextCandidates :
          /\ result' = Ok(Append(partial_chain, candidates[i]))
          /\ i \in todo /\ i \in DOMAIN candidates /\ candidates[i] \in Cert
          /\ \A j \in todo : SortsNoLater(candidates, Tip, i, j)
    BY <1>5, AcceptStep
  <2> DEFINE answer == Append(partial_chain, candidates[i])
  <2>3. result'.chain = answer
    BY <2>2 DEF Ok
  <2>4. /\ partial_chain \in Seq(Cert) \ {<<>>}
        /\ Tip = partial_chain[Len(partial_chain)] /\ candidates \in Seq(Cert)
        /\ candidates = FindBySubject(roots, Tip.issuer)
    BY <2>1, AtHand
  <2> HIDE DEF answer
  <2>5. ASSUME NEW chain \in Chains, Candidate(chain), MeetsPolicy(chain),
               Preferred(roots, intermediates, chain, answer)
        PROVE  FALSE
    <3>0. chain \in Seq(Cert)
      BY InputAssumption
    <3>1. ~Recorded(chain)
      BY <2>5 DEF SearchInvariant, Recorded
    <3>2. ~Before(intermediates, chain, partial_chain) /\ ~Tried(chain)
      BY <2>1, <2>5, <3>1 DEF PreferenceInvariant
    <3>3. /\ Extends(chain, partial_chain) /\ Len(chain) = Len(partial_chain) + 1
          /\ chain[Len(chain)] # candidates[i]
          /\ OfferedBefore(candidates, Tip, chain[Len(chain)], candidates[i])
      BY <2>2, <2>4, <2>5, <3>0, <3>2, PreferredToCompletion DEF answer
    <3>4. PICK a \in DOMAIN candidates :
            candidates[a] = chain[Len(chain)] /\ SortsNoLater(candidates, Tip, a, i)
      BY <2>2, <3>3 DEF OfferedBefore
    <3>5. a \in todo
      BY <3>2, <3>3, <3>4 DEF Tried, Done
    <3>6. a \in Nat /\ i \in Nat
      BY <2>2, <2>4
    <3>7. a = i
      BY <2>2, <3>4, <3>5, <3>6, SortsAntisymmetric
    <3> QED BY <3>3, <3>4, <3>7
  <2>6. roots' = roots /\ intermediates' = intermediates
    BY <2>1 DEF config
  <2> QED BY <2>1, <2>3, <2>5, <2>6, ChainsKept DEF MostPreferred
<1>6. CASE GiveUp
  BY <1>6 DEF GiveUp, Return, Err, MostPreferred
<1>7. CASE UNCHANGED vars
  <2>1. /\ UNCHANGED <<config, request>> /\ result' = result
        /\ roots' = roots /\ intermediates' = intermediates
    BY <1>7 DEF vars, config
  <2> QED BY <2>1, ChainsKept DEF MostPreferred
<1> QED
  BY <1>1, <1>2, <1>3, <1>4, <1>5, <1>6, <1>7, ResultSteps

\* The search meets chains in the order of preference: whatever is preferred to
\* the chains it has in hand has been put to the policy.
THEOREM PreferenceHolds == Spec => [](SweepInvariant /\ PreferenceInvariant)
<1>1. Init => SweepInvariant /\ PreferenceInvariant
  BY DEF Init, SweepInvariant, PreferenceInvariant, Searching, Extending
<1>2. /\ TypeOK /\ SearchInvariant /\ SweepInvariant /\ PreferenceInvariant /\ [Next]_vars
      => SweepInvariant' /\ PreferenceInvariant'
  BY NextSweep, NextPreference
<1> QED
  BY <1>1, <1>2, SearchInvariantHolds, PTL DEF Spec

\* validate returns the most preferred of the chains the policy accepts: no
\* acceptable chain ends in a root where the two part, or goes on there with an
\* issuer that the key identifiers or the store put first.
THEOREM Preference == Spec => []MostPreferred
<1>1. Init => MostPreferred
  BY DEF Init, MostPreferred, NoResult
<1>2. /\ TypeOK /\ SearchInvariant /\ SweepInvariant /\ PreferenceInvariant
      /\ MostPreferred /\ [Next]_vars
      => MostPreferred'
  BY NextMostPreferred
<1> QED
  BY <1>1, <1>2, SearchInvariantHolds, PreferenceHolds, PTL DEF Spec
-----------------------------------------------------------------------------
(* Rejected chains are recorded in the order of preference.                *)

\* In a list without duplicates, what sorts first is offered first.
LEMMA OfferedInTurn ==
  ASSUME NEW list, NEW subject, NEW a \in DOMAIN list, NEW b \in DOMAIN list, a # b,
         \A i, j \in DOMAIN list : list[i] = list[j] => i = j,
         SortsNoLater(list, subject, a, b)
  PROVE  list[a] # list[b] /\ OfferedBefore(list, subject, list[a], list[b])
<1>1. \A j \in DOMAIN list : list[j] = list[b] => SortsNoLater(list, subject, a, j)
  OBVIOUS
<1> QED BY <1>1 DEF OfferedBefore

LEMMA CompletionPreferred ==
  ASSUME NEW rs, NEW store, NEW chain \in Seq(Cert), NEW t \in Seq(Cert) \ {<<>>},
         NEW c \in Cert, Extends(chain, t), Len(chain) = Len(t) + 1,
         chain[Len(chain)] # c,
         OfferedBefore(FindBySubject(rs, t[Len(t)].issuer), t[Len(t)],
                       chain[Len(chain)], c)
  PROVE  Preferred(rs, store, chain, Append(t, c))
<1> DEFINE u == Append(t, c)
           k == Len(chain)
<1>1. /\ k \in 2..Len(chain) /\ k = Len(u) /\ k <= Len(u) /\ u[k] = c
      /\ \A i \in 1..(k - 1) : chain[i] = u[i]
  BY DEF Extends
<1>2. chain[k - 1] = t[Len(t)]
  BY DEF Extends
<1> HIDE DEF u
<1>3. Preferred(rs, store, chain, u)
  BY <1>1, <1>2 DEF Preferred
<1> QED BY <1>3 DEF u

LEMMA SiblingBranches ==
  ASSUME NEW store, NEW t \in Seq(Cert) \ {<<>>}, NEW c \in Cert, NEW d \in Cert, c # d,
         OfferedBefore(FindBySubject(store, t[Len(t)].issuer), t[Len(t)], c, d)
  PROVE  Branches(store, Append(t, c), Append(t, d))
<1> DEFINE u == Append(t, c)
           v == Append(t, d)
           k == Len(t) + 1
<1>1. /\ k \in 2..Len(v) /\ k <= Len(u) /\ u[k] = c /\ v[k] = d
      /\ v[k - 1] = t[Len(t)]
      /\ \A i \in 1..(k - 1) : u[i] = v[i]
  OBVIOUS
<1> HIDE DEF u, v, k
<1>2. Agree(k - 1, u, v) /\ PartsAt(store, k, u, v)
  BY <1>1 DEF Agree, PartsAt
<1>3. Branches(store, u, v)
  BY <1>1, <1>2 DEF Branches
<1> QED BY <1>3 DEF u, v

\* A candidate that is dealt with stays dealt with.
LEMMA TakenIsDone ==
  ASSUME NEW i \in DOMAIN candidates, Takes(i)
  PROVE  /\ Done \subseteq Done' /\ i \in Done'
         /\ \A chain : Tried(chain) => Tried(chain)'
<1>1. Done \subseteq Done' /\ i \in Done'
  BY DEF Takes, Done
<1>2. UNCHANGED <<pc, partial_chain, candidates>>
  BY DEF Takes
<1> QED BY <1>1, <1>2 DEF Tried

\* The candidates dealt with are offered before the next one, in the case of
\* roots, and after it in the case of intermediates.
LEMMA DealtWith ==
  ASSUME TypeOK, SearchInvariant, SweepInvariant, Extending,
         NoDuplicates(roots), NoDuplicates(intermediates),
         NEW a \in Done, NEW i \in todo
  PROVE  /\ a \in DOMAIN candidates /\ i \in DOMAIN candidates
         /\ candidates[a] # candidates[i]
         /\ pc = "roots" => OfferedBefore(candidates, Tip, candidates[a], candidates[i])
         /\ pc = "intermediates" =>
              OfferedBefore(candidates, Tip, candidates[i], candidates[a])
<1>1. a \in DOMAIN candidates /\ i \in DOMAIN candidates /\ a # i
  BY DEF Done, TypeOK
<1>2. \A j, k \in DOMAIN candidates : candidates[j] = candidates[k] => j = k
  <2>1. Tip.issuer \in Name
    BY AtHand
  <2>2. candidates = FindBySubject(roots, Tip.issuer)
          \/ candidates = FindBySubject(intermediates, Tip.issuer)
    BY AtHand
  <2> QED BY <2>1, <2>2 DEF NoDuplicates, FindBySubject
<1>3. CASE pc = "roots"
  <2>1. SortsNoLater(candidates, Tip, a, i)
    BY <1>3 DEF SweepInvariant
  <2> QED BY <1>1, <1>2, <1>3, <2>1, OfferedInTurn
<1>4. CASE pc = "intermediates"
  <2>1. SortsNoLater(candidates, Tip, i, a)
    BY <1>4 DEF SweepInvariant
  <2> QED BY <1>1, <1>2, <1>4, <2>1, OfferedInTurn
<1> QED BY <1>3, <1>4 DEF Extending

\* The chains on record and on the stack are sequences of certificates.
LEMMA ChainTypes ==
  ASSUME TypeOK
  PROVE  /\ \A i \in DOMAIN policy_failures : policy_failures[i].chain \in Seq(Cert)
         /\ \A i \in DOMAIN stack : stack[i] \in Seq(Cert) \ {<<>>}
         /\ Len(stack) \in Nat /\ DOMAIN stack = 1..Len(stack)
         /\ Len(policy_failures) \in Nat /\ DOMAIN policy_failures = 1..Len(policy_failures)
<1> DEFINE Failure == [chain : Seq(Cert), reason : {"critical", "policy"}]
           Nonempty == Seq(Cert) \ {<<>>}
<1>1. policy_failures \in Seq(Failure) /\ stack \in Seq(Nonempty)
  BY DEF TypeOK, Failures
<1>2. \A f \in Failure : f.chain \in Seq(Cert)
  OBVIOUS
<1> HIDE DEF Failure, Nonempty
<1>3. /\ \A i \in DOMAIN policy_failures : policy_failures[i] \in Failure
      /\ \A i \in DOMAIN stack : stack[i] \in Nonempty
  BY <1>1
<1>4. /\ Len(stack) \in Nat /\ DOMAIN stack = 1..Len(stack)
      /\ Len(policy_failures) \in Nat /\ DOMAIN policy_failures = 1..Len(policy_failures)
  BY <1>1
<1> QED BY <1>2, <1>3, <1>4 DEF Nonempty

LEMMA NextRecord ==
  ASSUME TypeOK, SearchInvariant, SweepInvariant, RecordInvariant, [Next]_vars
  PROVE  RecordInvariant'
<1> DEFINE Orderly == /\ RecordInOrder /\ RecordBeforeStack /\ RecordBeforeHand
                      /\ StackInOrder /\ HandBeforeStack
<1>a. ASSUME UNCHANGED config, NoDuplicates(roots)', NoDuplicates(intermediates)'
      PROVE  /\ roots' = roots /\ intermediates' = intermediates
             /\ NoDuplicates(roots) /\ NoDuplicates(intermediates) /\ Orderly
  <2>1. roots' = roots /\ intermediates' = intermediates
    BY <1>a DEF config
  <2>2. NoDuplicates(roots) /\ NoDuplicates(intermediates)
    BY <1>a, <2>1 DEF NoDuplicates
  <2> QED BY <2>1, <2>2 DEF RecordInvariant
<1> SUFFICES ASSUME NoDuplicates(roots)', NoDuplicates(intermediates)'
             PROVE  Orderly'
  BY DEF RecordInvariant
<1>1. CASE BeginSearch
  <2>1. /\ UNCHANGED <<config, request>> /\ pc' = "search" /\ stack' = <<<<leaf>>>>
        /\ policy_failures' =
             IF LeafIsTrusted THEN <<PolicyFailure(<<leaf>>, "policy")>> ELSE <<>>
    BY <1>1, BeginStep
  <2>2. \A i \in DOMAIN policy_failures' : i = 1 /\ policy_failures'[i].chain = <<leaf>>
    BY <2>1 DEF PolicyFailure
  <2>3. \A i \in DOMAIN stack' : i = 1
    BY <2>1
  <2>4. Len(<<leaf>>) = 1
    OBVIOUS
  <2>5. RecordBeforeStack'
    BY <2>2, <2>4 DEF RecordBeforeStack, Before
  <2> QED BY <2>1, <2>2, <2>3, <2>5
          DEF RecordInOrder, RecordBeforeHand, StackInOrder, HandBeforeStack, Extending
<1>2. CASE PopPartialChain
  <2> DEFINE n == Len(stack)
             top == stack[n]
  <2>1. /\ UNCHANGED <<config, request, policy_failures>>
        /\ n \in DOMAIN stack /\ n \in Nat /\ DOMAIN stack = 1..n
        /\ DOMAIN stack' = 1..(n - 1)
        /\ \A i \in DOMAIN stack' : stack'[i] = stack[i]
        /\ partial_chain' = top
    BY <1>2, PopStep
  <2> HIDE DEF n, top
  <2>2. roots' = roots /\ intermediates' = intermediates /\ Orderly
    BY <1>a, <2>1
  <2>3. \A i \in DOMAIN stack' : i \in DOMAIN stack /\ i < n /\ stack'[i] = stack[i]
    BY <2>1
  <2>4. RecordInOrder'
    BY <2>1, <2>2 DEF RecordInOrder
  <2>5. RecordBeforeStack'
    BY <2>1, <2>2, <2>3 DEF RecordBeforeStack
  <2>6. RecordBeforeHand'
    BY <2>1, <2>2 DEF RecordBeforeHand, RecordBeforeStack, top
  <2>7. StackInOrder'
    BY <2>2, <2>3 DEF StackInOrder
  <2>8. HandBeforeStack'
    BY <2>1, <2>2, <2>3 DEF HandBeforeStack, StackInOrder, top
  <2> QED BY <2>4, <2>5, <2>6, <2>7, <2>8
<1>3. CASE SkipCandidate
  <2>1. PICK i \in DOMAIN candidates : Takes(i)
    BY <1>3, SkipStep
  <2>2. /\ UNCHANGED <<stack, policy_failures>>
        /\ UNCHANGED <<config, request, pc, partial_chain, candidates>>
    BY <1>3, <2>1, SkipStep DEF Takes
  <2>3. Done \subseteq Done' /\ \A chain : Tried(chain) => Tried(chain)'
    BY <2>1, TakenIsDone
  <2>4. roots' = roots /\ intermediates' = intermediates /\ Orderly
    BY <1>a, <2>2
  <2>5. RecordInOrder' /\ RecordBeforeStack' /\ StackInOrder'
    BY <2>2, <2>4 DEF RecordInOrder, RecordBeforeStack, StackInOrder
  <2>6. RecordBeforeHand'
    BY <2>2, <2>3, <2>4 DEF RecordBeforeHand, Extending
  <2>7. HandBeforeStack'
    BY <2>2, <2>3, <2>4 DEF HandBeforeStack, Extending
  <2> QED BY <2>5, <2>6, <2>7
<1>4. CASE RejectChain
  <2>1. PICK i \in DOMAIN candidates :
          /\ Takes(i)
          /\ policy_failures' =
               Append(policy_failures,
                      PolicyFailure(Append(partial_chain, candidates[i]), "policy"))
    BY <1>4, RejectStep
  <2> DEFINE new == Append(partial_chain, candidates[i])
             m == Len(policy_failures)
  <2>2. /\ pc = "roots" /\ stack' = stack
        /\ UNCHANGED <<config, request, pc, partial_chain, candidates>>
        /\ Extending /\ i \in todo /\ candidates[i] \in Cert
    BY <1>4, <2>1, RejectStep DEF Takes
  <2>3. /\ Done \subseteq Done' /\ i \in Done'
        /\ \A chain : Tried(chain) => Tried(chain)'
    BY <2>1, TakenIsDone
  <2>4. /\ roots' = roots /\ intermediates' = intermediates /\ Orderly
        /\ NoDuplicates(roots) /\ NoDuplicates(intermediates)
    BY <1>a, <2>2
  <2>5. /\ partial_chain \in Seq(Cert) \ {<<>>}
        /\ Tip = partial_chain[Len(partial_chain)]
        /\ candidates = FindBySubject(roots, Tip.issuer)
    BY <2>2, AtHand
  <2>6. /\ new \in Seq(Cert) /\ Len(new) = Len(partial_chain) + 1
        /\ new[Len(new)] = candidates[i] /\ Extends(new, partial_chain)
    BY <2>2, <2>5 DEF Extends
  <2>7. /\ m \in Nat /\ DOMAIN policy_failures = 1..m /\ DOMAIN policy_failures' = 1..(m + 1)
        /\ \A k \in 1..m : policy_failures'[k] = policy_failures[k]
        /\ policy_failures'[m + 1].chain = new
    <3>1. policy_failures \in Failures
      BY DEF TypeOK
    <3>2. PolicyFailure(new, "policy").chain = new
      BY DEF PolicyFailure
    <3> HIDE DEF new
    <3> QED BY <2>1, <3>1, <3>2 DEF Failures, new
  <2> HIDE DEF new, m
  <2>8. ASSUME NEW a \in DOMAIN policy_failures
        PROVE  Preferred(roots, intermediates, policy_failures[a].chain, new)
    <3> DEFINE chain == policy_failures[a].chain
    <3>1. chain \in Seq(Cert)
      BY ChainTypes
    <3>2. Before(intermediates, chain, partial_chain) \/ Tried(chain)
      BY <2>2, <2>4 DEF RecordBeforeHand
    <3> HIDE DEF chain
    <3>3. Before(intermediates, chain, partial_chain)
            => Preferred(roots, intermediates, chain, new)
      BY <2>2, <2>5, <3>1, BeforePreferred DEF new
    <3>4. ASSUME Tried(chain) PROVE Preferred(roots, intermediates, chain, new)
      <4>1. PICK d \in Done : candidates[d] = chain[Len(chain)]
        BY <2>2, <3>4 DEF Tried
      <4>2. /\ candidates[d] # candidates[i]
            /\ OfferedBefore(candidates, Tip, candidates[d], candidates[i])
        BY <2>2, <2>4, DealtWith
      <4>3. Extends(chain, partial_chain) /\ Len(chain) = Len(partial_chain) + 1
        BY <3>4 DEF Tried
      <4> QED BY <2>2, <2>5, <3>1, <4>1, <4>2, <4>3, CompletionPreferred DEF new
    <3> QED BY <3>2, <3>3, <3>4 DEF chain
  <2>9. RecordInOrder'
    <3> SUFFICES ASSUME NEW a \in DOMAIN policy_failures', NEW b \in DOMAIN policy_failures',
                        a < b
                 PROVE  Preferred(roots, intermediates,
                                  policy_failures'[a].chain, policy_failures'[b].chain)
      BY <2>4 DEF RecordInOrder
    <3>1. a \in 1..m /\ a \in DOMAIN policy_failures /\ policy_failures'[a] = policy_failures[a]
      BY <2>7
    <3>2. CASE b = m + 1
      BY <2>7, <2>8, <3>1, <3>2
    <3>3. CASE b # m + 1
      <4>1. b \in DOMAIN policy_failures /\ policy_failures'[b] = policy_failures[b]
        BY <2>7, <3>3
      <4> QED BY <2>4, <3>1, <4>1 DEF RecordInOrder
    <3> QED BY <3>2, <3>3
  <2>10. RecordBeforeStack'
    <3> SUFFICES ASSUME NEW a \in DOMAIN policy_failures', NEW j \in DOMAIN stack
                 PROVE  Before(intermediates, policy_failures'[a].chain, stack[j])
      BY <2>2, <2>4 DEF RecordBeforeStack
    <3>1. CASE a = m + 1
      <4>1. Branches(intermediates, partial_chain, stack[j])
        BY <2>2, <2>4 DEF HandBeforeStack
      <4>2. Before(intermediates, new, stack[j])
        BY <2>5, <2>6, <4>1, ChainTypes, BranchesBefore
      <4> QED BY <2>7, <3>1, <4>2
    <3>2. CASE a # m + 1
      <4>1. a \in DOMAIN policy_failures /\ policy_failures'[a] = policy_failures[a]
        BY <2>7, <3>2
      <4> QED BY <2>4, <4>1 DEF RecordBeforeStack
    <3> QED BY <3>1, <3>2
  <2>11. RecordBeforeHand'
    <3>1. \A chain : chain = new => Tried(chain)'
      BY <2>2, <2>3, <2>6 DEF Tried
    <3> SUFFICES ASSUME NEW a \in DOMAIN policy_failures'
                 PROVE  \/ Before(intermediates, policy_failures'[a].chain, partial_chain)
                        \/ (\A chain : chain = policy_failures'[a].chain => Tried(chain)')
      BY <2>2, <2>4 DEF RecordBeforeHand
    <3>2. CASE a = m + 1
      BY <2>7, <3>1, <3>2
    <3>3. CASE a # m + 1
      <4>1. a \in DOMAIN policy_failures /\ policy_failures'[a] = policy_failures[a]
        BY <2>7, <3>3
      <4> QED BY <2>2, <2>3, <2>4, <4>1 DEF RecordBeforeHand
    <3> QED BY <3>2, <3>3
  <2>12. StackInOrder'
    BY <2>2, <2>4 DEF StackInOrder
  <2>13. HandBeforeStack'
    BY <2>2, <2>4 DEF HandBeforeStack, Extending
  <2> QED BY <2>9, <2>10, <2>11, <2>12, <2>13
<1>5. CASE FindIntermediates
  <2>1. /\ UNCHANGED <<config, request, policy_failures, stack, partial_chain>>
        /\ pc = "roots" /\ pc' = "intermediates"
    BY <1>5, FindStep
  <2>2. roots' = roots /\ intermediates' = intermediates /\ Orderly
    BY <1>a, <2>1
  <2>3. \A chain : Tried(chain) => Tried(chain)'
    BY <2>1 DEF Tried
  <2>4. RecordInOrder' /\ RecordBeforeStack' /\ StackInOrder'
    BY <2>1, <2>2 DEF RecordInOrder, RecordBeforeStack, StackInOrder
  <2>5. RecordBeforeHand'
    BY <2>1, <2>2, <2>3 DEF RecordBeforeHand, Extending
  <2>6. HandBeforeStack'
    BY <2>1, <2>2 DEF HandBeforeStack, Extending
  <2> QED BY <2>4, <2>5, <2>6
<1>6. CASE PushIntermediate
  <2>1. PICK i \in DOMAIN candidates :
          /\ Takes(i)
          /\ stack' = Append(stack, Append(partial_chain, candidates[i]))
    BY <1>6, PushStep
  <2> DEFINE child == Append(partial_chain, candidates[i])
             n == Len(stack)
  <2>2. /\ pc = "intermediates" /\ policy_failures' = policy_failures
        /\ UNCHANGED <<config, request, pc, partial_chain, candidates>>
        /\ Extending /\ i \in todo /\ candidates[i] \in Cert
    BY <1>6, <2>1, PushStep DEF Takes
  <2>3. /\ Done \subseteq Done' /\ i \in Done'
        /\ \A chain : Tried(chain) => Tried(chain)'
    BY <2>1, TakenIsDone
  <2>4. /\ roots' = roots /\ intermediates' = intermediates /\ Orderly
        /\ NoDuplicates(roots) /\ NoDuplicates(intermediates)
    BY <1>a, <2>2
  <2>5. /\ partial_chain \in Seq(Cert) \ {<<>>}
        /\ Tip = partial_chain[Len(partial_chain)]
        /\ candidates = FindBySubject(intermediates, Tip.issuer)
        /\ candidates \in Seq(Cert)
    BY <2>2, AtHand
  <2>6. child \in Seq(Cert) /\ Extends(child, partial_chain)
    BY <2>2, <2>5 DEF Extends
  <2>7. /\ n \in Nat /\ DOMAIN stack = 1..n /\ DOMAIN stack' = 1..(n + 1)
        /\ stack'[n + 1] = child
        /\ \A k \in 1..n : stack'[k] = stack[k]
    <3>1. stack \in Seq(Seq(Cert) \ {<<>>})
      BY DEF TypeOK
    <3> QED BY <2>1, <3>1
  <2> HIDE DEF child, n
  <2>8. ASSUME NEW a \in DOMAIN policy_failures
        PROVE  Before(intermediates, policy_failures[a].chain, child)
    <3> DEFINE chain == policy_failures[a].chain
    <3>1. chain \in Seq(Cert)
      BY ChainTypes
    <3>2. Before(intermediates, chain, partial_chain) \/ Tried(chain)
      BY <2>2, <2>4 DEF RecordBeforeHand
    <3> HIDE DEF chain
    <3>3. Before(intermediates, chain, partial_chain) => Before(intermediates, chain, child)
      BY <2>2, <2>5, <3>1, BeforeExtended DEF child
    <3>4. Tried(chain) => Before(intermediates, chain, child)
      BY <2>2, <2>5, <3>1, CompletionBeforeChild DEF child, Tried
    <3> QED BY <3>2, <3>3, <3>4 DEF chain
  <2>9. ASSUME NEW a \in DOMAIN stack
        PROVE  Branches(intermediates, child, stack[a])
    <3>1. stack[a] \in Seq(Cert)
      BY ChainTypes
    <3>2. CASE Branches(intermediates, partial_chain, stack[a])
      BY <2>5, <2>6, <3>1, <3>2, BranchesExtended
    <3>3. ASSUME NEW d \in Done, stack[a] = Append(partial_chain, candidates[d])
          PROVE  Branches(intermediates, child, stack[a])
      <4>1. /\ d \in DOMAIN candidates /\ candidates[i] # candidates[d]
            /\ OfferedBefore(candidates, Tip, candidates[i], candidates[d])
        BY <2>2, <2>4, DealtWith
      <4>2. candidates[d] \in Cert
        BY <2>5, <4>1
      <4> QED BY <2>2, <2>5, <3>3, <4>1, <4>2, SiblingBranches DEF child
    <3> QED BY <2>2, <2>4, <3>2, <3>3 DEF HandBeforeStack
  <2>10. RecordInOrder'
    BY <2>2, <2>4 DEF RecordInOrder
  <2>11. RecordBeforeStack'
    <3> SUFFICES ASSUME NEW a \in DOMAIN policy_failures, NEW j \in DOMAIN stack'
                 PROVE  Before(intermediates, policy_failures[a].chain, stack'[j])
      BY <2>2, <2>4 DEF RecordBeforeStack
    <3>1. CASE j = n + 1
      BY <2>7, <2>8, <3>1
    <3>2. CASE j # n + 1
      <4>1. j \in DOMAIN stack /\ stack'[j] = stack[j]
        BY <2>7, <3>2
      <4> QED BY <2>4, <4>1 DEF RecordBeforeStack
    <3> QED BY <3>1, <3>2
  <2>12. RecordBeforeHand'
    BY <2>2, <2>3, <2>4 DEF RecordBeforeHand, Extending
  <2>13. StackInOrder'
    <3> SUFFICES ASSUME NEW a \in DOMAIN stack', NEW b \in DOMAIN stack', a < b
                 PROVE  Branches(intermediates, stack'[b], stack'[a])
      BY <2>4 DEF StackInOrder
    <3>1. a \in DOMAIN stack /\ stack'[a] = stack[a]
      BY <2>7
    <3>2. CASE b = n + 1
      BY <2>7, <2>9, <3>1, <3>2
    <3>3. CASE b # n + 1
      <4>1. b \in DOMAIN stack /\ stack'[b] = stack[b]
        BY <2>7, <3>3
      <4> QED BY <2>4, <3>1, <4>1 DEF StackInOrder
    <3> QED BY <3>2, <3>3
  <2>14. HandBeforeStack'
    <3> SUFFICES ASSUME NEW j \in DOMAIN stack'
                 PROVE  \/ Branches(intermediates, partial_chain, stack'[j])
                        \/ \E a \in Done' : stack'[j] = Append(partial_chain, candidates[a])
      BY <2>2, <2>4 DEF HandBeforeStack
    <3>1. CASE j = n + 1
      BY <2>3, <2>7, <3>1 DEF child
    <3>2. CASE j # n + 1
      <4>1. j \in DOMAIN stack /\ stack'[j] = stack[j]
        BY <2>7, <3>2
      <4> QED BY <2>2, <2>3, <2>4, <4>1 DEF HandBeforeStack
    <3> QED BY <3>1, <3>2
  <2> QED BY <2>10, <2>11, <2>12, <2>13, <2>14
<1>7. CASE FinishPartialChain
  <2>1. /\ UNCHANGED <<config, request, policy_failures, stack>>
        /\ pc' = "search"
    BY <1>7, FinishStep
  <2>2. roots' = roots /\ intermediates' = intermediates /\ Orderly
    BY <1>a, <2>1
  <2> QED BY <2>1, <2>2 DEF RecordInOrder, RecordBeforeStack, RecordBeforeHand,
                            StackInOrder, HandBeforeStack, Extending
<1>8. CASE UNCHANGED vars
  <2>1. /\ UNCHANGED config
        /\ UNCHANGED <<pc, policy_failures, stack, partial_chain, candidates, todo>>
    BY <1>8 DEF vars, locals
  <2>2. roots' = roots /\ intermediates' = intermediates /\ Orderly
    BY <1>a, <2>1
  <2>3. Done' = Done /\ \A chain : Tried(chain) => Tried(chain)'
    BY <2>1 DEF Done, Tried
  <2>4. RecordInOrder' /\ RecordBeforeStack' /\ StackInOrder'
    BY <2>1, <2>2 DEF RecordInOrder, RecordBeforeStack, StackInOrder
  <2>5. RecordBeforeHand'
    BY <2>1, <2>2, <2>3 DEF RecordBeforeHand, Extending
  <2>6. HandBeforeStack'
    BY <2>1, <2>2, <2>3 DEF HandBeforeStack, Extending
  <2> QED BY <2>4, <2>5, <2>6
<1>9. CASE ~Searching' /\ stack' = <<>> /\ policy_failures' = <<>>
  BY <1>9 DEF Searching, Extending, RecordInOrder, RecordBeforeStack, RecordBeforeHand,
              StackInOrder, HandBeforeStack
<1> QED BY <1>1, <1>2, <1>3, <1>4, <1>5, <1>6, <1>7, <1>8, <1>9, SearchSteps

LEMMA NextFailuresInOrder ==
  ASSUME TypeOK, SearchInvariant, RecordInvariant, [Next]_vars, FailuresInOrder
  PROVE  FailuresInOrder'
<1>1. CASE result'.tag = "None"
  BY <1>1 DEF FailuresInOrder
<1>2. CASE RejectLeaf
  <2>1. result'.failures = <<PolicyFailure(<<leaf>>, "critical")>>
    BY <1>2 DEF RejectLeaf, Return, Err
  <2>2. \A i \in DOMAIN result'.failures : i = 1
    BY <2>1
  <2> QED BY <2>2 DEF FailuresInOrder
<1>3. CASE AcceptTrustedLeaf
  BY <1>3 DEF AcceptTrustedLeaf, Return, Ok, FailuresInOrder
<1>4. CASE BackendPanics
  BY <1>4 DEF BackendPanics, Return, Panic, FailuresInOrder
<1>5. CASE AcceptChain
  BY <1>5 DEF AcceptChain, Return, Ok, FailuresInOrder
<1>6. CASE GiveUp
  <2>1. /\ result'.failures = policy_failures
        /\ roots' = roots /\ intermediates' = intermediates
    BY <1>6 DEF GiveUp, Return, Err, config
  <2> QED BY <2>1 DEF RecordInvariant, RecordInOrder, FailuresInOrder, NoDuplicates
<1>7. CASE UNCHANGED vars
  BY <1>7 DEF vars, config, FailuresInOrder, NoDuplicates
<1> QED
  BY <1>1, <1>2, <1>3, <1>4, <1>5, <1>6, <1>7, ResultSteps

\* What has been rejected comes before what is still to be looked at.
THEOREM RecordHolds == Spec => []RecordInvariant
<1>1. Init => RecordInvariant
  BY DEF Init, RecordInvariant, RecordInOrder, RecordBeforeStack, RecordBeforeHand,
         StackInOrder, HandBeforeStack, Extending
<1>2. TypeOK /\ SearchInvariant /\ SweepInvariant /\ RecordInvariant /\ [Next]_vars
        => RecordInvariant'
  BY NextRecord
<1> QED
  BY <1>1, <1>2, SearchInvariantHolds, PreferenceHolds, PTL DEF Spec

\* The error lists the rejected chains in the order of preference, and none of
\* them twice, if neither store holds a certificate twice.
THEOREM FailureOrder == Spec => []FailuresInOrder
<1>1. Init => FailuresInOrder
  BY DEF Init, FailuresInOrder, NoResult
<1>2. TypeOK /\ SearchInvariant /\ RecordInvariant /\ FailuresInOrder /\ [Next]_vars
        => FailuresInOrder'
  BY NextFailuresInOrder
<1> QED
  BY <1>1, <1>2, SearchInvariantHolds, RecordHolds, PTL DEF Spec
-----------------------------------------------------------------------------
(* Chains are bounded by the number of identities.                         *)

Identities == {Identity(c) : c \in Cert}

LEMMA IdentitiesFinite == IsFiniteSet(Identities) /\ Cardinality(Identities) \in Nat
<1> DEFINE identify == [c \in Cert |-> Identity(c)]
<1>1. identify \in Surjection(Cert, Identities)
  BY DEF Surjection, Identities
<1>2. IsFiniteSet(Identities)
  BY <1>1, FiniteAssumption, FS_Surjection
<1> QED BY <1>2, FS_CardinalityType

\* A chain that repeats no identity has no more certificates than there are
\* identities.
LEMMA NoRepetitionBounds ==
  ASSUME NEW chain \in Seq(Cert), NoRepeatedIdentity(chain)
  PROVE  Len(chain) <= Cardinality(Identities)
<1> DEFINE S == 1..Len(chain)
           identities == [i \in S |-> Identity(chain[i])]
<1>0. Len(chain) \in Nat /\ S = DOMAIN chain
  OBVIOUS
<1>1. IsFiniteSet(S) /\ Cardinality(S) = Len(chain)
  <2> DEFINE n == Len(chain)
  <2>1. n \in Nat /\ 1 \in Int /\ n \in Int
    BY <1>0
  <2> HIDE DEF n
  <2>2. IsFiniteSet(1..n) /\ Cardinality(1..n) = IF 1 > n THEN 0 ELSE n - 1 + 1
    BY <2>1, FS_Interval
  <2>3. Cardinality(1..n) = n
    BY <2>1, <2>2
  <2> QED BY <2>2, <2>3 DEF n
<1>2. identities \in [S -> Identities]
  BY DEF Identities
<1>3. ASSUME Cardinality(Identities) < Cardinality(S) PROVE FALSE
  <2>1. PICK x, y \in S : x # y /\ identities[x] = identities[y]
    <3> HIDE DEF S, identities
    <3> QED BY <1>1, <1>2, <1>3, IdentitiesFinite, FS_PigeonHole
  <2>2. HasSameIdentityAs(chain[x], chain[y])
    BY <2>1 DEF Identity, HasSameIdentityAs
  <2> QED BY <1>0, <2>1, <2>2 DEF NoRepeatedIdentity
<1> QED BY <1>0, <1>1, <1>3, IdentitiesFinite

\* Outside the two loops there is no chain in hand.
HandEmptied == ~Extending => partial_chain = <<>>

LEMMA NextHandEmptied ==
  ASSUME HandEmptied, [Next]_vars
  PROVE  HandEmptied'
<1>1. CASE Caller
  BY <1>1 DEF Caller, AppendRoot, AppendIntermediate, WithPolicyAndBackend, Validate,
              HandEmptied, Extending, locals
<1>2. CASE RejectLeaf \/ AcceptTrustedLeaf \/ BackendPanics \/ AcceptChain \/ GiveUp
  BY <1>2 DEF RejectLeaf, AcceptTrustedLeaf, BackendPanics, AcceptChain, GiveUp, Return,
              HandEmptied
<1>3. CASE BeginSearch \/ PopPartialChain \/ FindIntermediates \/ FinishPartialChain
  BY <1>3 DEF BeginSearch, PopPartialChain, FindIntermediates, FinishPartialChain,
              HandEmptied, Extending
<1>4. CASE SkipCandidate \/ RejectChain \/ PushIntermediate
  BY <1>4 DEF SkipCandidate, RejectChain, PushIntermediate, HandEmptied, Extending
<1>5. CASE UNCHANGED vars
  BY <1>5 DEF vars, locals, HandEmptied, Extending
<1> QED BY <1>1, <1>2, <1>3, <1>4, <1>5 DEF Next, Call

\* No chain under construction is longer than the number of identities there
\* are, however the issuers refer to each other: the check for an issuer that is
\* already in the chain bounds the search.
THEOREM LengthBound == Spec => []ChainLengthBounded
<1>1. Init => HandEmptied
  BY DEF Init, HandEmptied
<1>2. HandEmptied /\ [Next]_vars => HandEmptied'
  BY NextHandEmptied
<1>3. TypeOK /\ SearchInvariant /\ HandEmptied => ChainLengthBounded
  <2> SUFFICES ASSUME TypeOK, SearchInvariant, HandEmptied
               PROVE  /\ Len(partial_chain) <= Cardinality(Identities)
                      /\ \A i \in DOMAIN stack : Len(stack[i]) <= Cardinality(Identities)
    BY DEF ChainLengthBounded, Identities
  <2>1. ASSUME Extending PROVE Len(partial_chain) <= Cardinality(Identities)
    <3>1. partial_chain \in Seq(Cert) /\ NoRepeatedIdentity(partial_chain)
      BY <2>1 DEF TypeOK, SearchInvariant, Extending, Partial, PartialChain, Linked
    <3> QED BY <3>1, NoRepetitionBounds
  <2>2. ASSUME ~Extending PROVE Len(partial_chain) <= Cardinality(Identities)
    BY <2>2, IdentitiesFinite DEF HandEmptied
  <2>3. ASSUME NEW i \in DOMAIN stack PROVE Len(stack[i]) <= Cardinality(Identities)
    <3>1. stack[i] \in Seq(Cert)
      BY ChainTypes
    <3>2. NoRepeatedIdentity(stack[i])
      BY DEF SearchInvariant, Partial, PartialChain, Linked
    <3> QED BY <3>1, <3>2, NoRepetitionBounds
  <2>4. Len(partial_chain) <= Cardinality(Identities)
    BY <2>1, <2>2
  <2> QED BY <2>3, <2>4
<1> QED
  BY <1>1, <1>2, <1>3, SearchInvariantHolds, PTL DEF Spec
-----------------------------------------------------------------------------
(* What the callback is told agrees with what the call returns.            *)

\* No report has announced the end of a call that goes on, and the chains on
\* record are the ones reported.
OutcomeInvariant ==
  diagnosing =>
    /\ pc = "leaf" => diagnostics = <<>>
    /\ Searching => /\ \A i \in DOMAIN diagnostics : ~Ends(diagnostics[i])
                    /\ ReportsEach(diagnostics, policy_failures)

\* The reports of a call are continued, never changed.
LEMMA ReportsContinued ==
  ASSUME NEW reports \in Diagnostics, NEW events \in Diagnostics
  PROVE  LET all == reports \o events
             n   == Len(reports)
         IN  /\ all \in Diagnostics /\ Len(all) = n + Len(events) /\ n \in Nat
             /\ Len(events) \in Nat /\ DOMAIN all = 1..(n + Len(events))
             /\ DOMAIN reports = 1..n /\ DOMAIN events = 1..Len(events)
             /\ \A i \in 1..n : all[i] = reports[i]
             /\ \A i \in 1..Len(events) : all[n + i] = events[i]
BY DEF Diagnostics

\* A continuation holds old reports and new ones.
LEMMA ContinuedBy ==
  ASSUME NEW reports \in Diagnostics, NEW events \in Diagnostics,
         NEW i \in DOMAIN (reports \o events)
  PROVE  \/ i \in DOMAIN reports /\ (reports \o events)[i] = reports[i]
         \/ \E j \in DOMAIN events :
              i = Len(reports) + j /\ (reports \o events)[i] = events[j]
<1> DEFINE all == reports \o events
           n == Len(reports)
<1>1. /\ n \in Nat /\ Len(events) \in Nat /\ DOMAIN all = 1..(n + Len(events))
      /\ DOMAIN reports = 1..n /\ DOMAIN events = 1..Len(events)
      /\ \A j \in 1..n : all[j] = reports[j]
      /\ \A j \in 1..Len(events) : all[n + j] = events[j]
  BY ReportsContinued
<1>2. i \in DOMAIN all
  OBVIOUS
<1> HIDE DEF all, n
<1>3. CASE i \in 1..n
  BY <1>1, <1>3 DEF all
<1>4. CASE i \notin 1..n
  <2>1. i - n \in DOMAIN events /\ all[n + (i - n)] = events[i - n] /\ i = n + (i - n)
    BY <1>1, <1>2, <1>4
  <2> QED BY <2>1 DEF all, n
<1> QED BY <1>3, <1>4

LEMMA QuietReports ==
  ASSUME NEW reports \in Diagnostics, NEW events \in Diagnostics,
         \A i \in DOMAIN events : ~Rejects(events[i]),
         NEW failures, ReportsEach(reports, failures)
  PROVE  ReportsEach(reports \o events, failures)
<1> DEFINE all == reports \o events
           n == Len(reports)
<1>1. /\ n \in Nat /\ Len(events) \in Nat /\ DOMAIN all = 1..(n + Len(events))
      /\ DOMAIN reports = 1..n /\ DOMAIN events = 1..Len(events)
      /\ \A i \in 1..n : all[i] = reports[i]
      /\ \A i \in 1..Len(events) : all[n + i] = events[i]
  BY ReportsContinued
<1> HIDE DEF all, n
<1>2. ASSUME NEW i \in DOMAIN all, Rejects(all[i])
      PROVE  i \in 1..n
  BY <1>1, <1>2, ContinuedBy DEF all
<1>3. Rejections(all) = Rejections(reports)
  <2>1. ASSUME NEW i PROVE i \in Rejections(all) <=> i \in Rejections(reports)
    <3>1. CASE i \in 1..n
      <4>1. i \in DOMAIN all /\ i \in DOMAIN reports /\ all[i] = reports[i]
        BY <1>1, <3>1
      <4> QED BY <4>1 DEF Rejections
    <3>2. CASE i \notin 1..n
      BY <1>1, <1>2, <3>2 DEF Rejections
    <3> QED BY <3>1, <3>2
  <2> QED BY <2>1
<1>4. \A i \in Rejections(reports) : all[i] = reports[i]
  BY <1>1 DEF Rejections
<1>5. ReportsEach(all, failures)
  BY <1>3, <1>4 DEF ReportsEach
<1> QED BY <1>5 DEF all

LEMMA RejectionReported ==
  ASSUME NEW reports \in Diagnostics, NEW d, <<d>> \in Diagnostics, Rejects(d),
         NEW failures \in Failures, NEW f, f.chain = d.chain,
         ReportsEach(reports, failures)
  PROVE  ReportsEach(reports \o <<d>>, Append(failures, f))
<1> DEFINE all == reports \o <<d>>
           n == Len(reports)
           R == Rejections(reports)
           S == Rejections(all)
           fs == Append(failures, f)
<1>1. /\ n \in Nat /\ DOMAIN all = 1..(n + 1) /\ DOMAIN reports = 1..n
      /\ \A i \in 1..n : all[i] = reports[i]
      /\ all[n + 1] = d
  <2>1. Len(<<d>>) = 1 /\ <<d>>[1] = d
    OBVIOUS
  <2> QED BY <2>1, ReportsContinued
<1>2. /\ Len(failures) \in Nat /\ DOMAIN failures = 1..Len(failures)
      /\ Len(fs) = Len(failures) + 1
      /\ \A k \in 1..Len(failures) : fs[k] = failures[k]
      /\ fs[Len(failures) + 1] = f
  BY DEF Failures
<1> HIDE DEF all, n, fs
<1>3. R \subseteq 1..n /\ n + 1 \notin R /\ S = R \cup {n + 1}
  BY <1>1 DEF Rejections
<1>4. IsFiniteSet(R) /\ Cardinality(R) = Len(failures)
  <2>1. IsFiniteSet(1..n)
    BY <1>1, FS_Interval
  <2> QED BY <1>3, <2>1, FS_Subset DEF ReportsEach
<1>5. Cardinality(S) = Len(fs)
  <2> HIDE DEF R, S
  <2> QED BY <1>2, <1>3, <1>4, FS_AddElement
<1>6. ASSUME NEW i \in S
      PROVE  LET k == Cardinality({j \in S : j <= i})
             IN  all[i].chain = fs[k].chain
  <2>1. CASE i = n + 1
    <3>1. {j \in S : j <= i} = S
      BY <1>1, <1>3, <2>1
    <3> HIDE DEF S
    <3> QED BY <1>1, <1>2, <1>5, <2>1, <3>1
  <2>2. CASE i # n + 1
    <3> DEFINE T == {j \in R : j <= i}
               k == Cardinality(T)
    <3>1. i \in R /\ i \in 1..n /\ {j \in S : j <= i} = T
      BY <1>1, <1>3, <2>2
    <3>2. T \in SUBSET R /\ i \in T
      BY <1>3, <3>1
    <3>3. reports[i].chain = failures[k].chain
      BY <3>1 DEF ReportsEach
    <3> HIDE DEF T, R, S
    <3>4. IsFiniteSet(T) /\ Cardinality(T) <= Len(failures) /\ Cardinality(T) \in Nat
      BY <1>4, <3>2, FS_Subset, FS_CardinalityType
    <3>5. Cardinality(T) # 0
      BY <3>2, <3>4, FS_EmptySet
    <3>6. k \in 1..Len(failures)
      BY <1>2, <3>4, <3>5
    <3> QED BY <1>1, <1>2, <3>1, <3>3, <3>6
  <2> QED BY <2>1, <2>2
<1>7. ReportsEach(all, fs)
  BY <1>5, <1>6 DEF ReportsEach
<1> QED BY <1>7 DEF all, fs

\* A report of the issuers found announces neither a rejection nor an end.
LEMMA FoundIsQuiet ==
  ASSUME NEW kind \in {"FoundCandidateIssuersOfPartialChainInRootStore",
                       "FoundCandidateIssuersOfPartialChainInIntermediateStore"},
         NEW chain \in Seq(Cert), NEW found \in Seq(Cert)
  PROVE  LET events == ReportFound(kind, chain, found)
         IN  /\ events \in Diagnostics
             /\ \A i \in DOMAIN events : ~Rejects(events[i]) /\ ~Ends(events[i])
<1>1. ReportFound(kind, chain, found) \in Diagnostics
  BY ReportFoundType DEF Kinds
<1>2. CASE found = <<>>
  BY <1>1, <1>2 DEF ReportFound
<1>3. CASE found # <<>>
  <2> DEFINE d == Diagnostic(kind, chain, {found[i] : i \in DOMAIN found})
  <2>1. ReportFound(kind, chain, found) = <<d>>
    BY <1>3 DEF ReportFound
  <2>2. ~Rejects(d) /\ ~Ends(d)
    BY DEF Diagnostic, Rejects, Ends
  <2> HIDE DEF d
  <2> QED BY <1>1, <2>1, <2>2
<1> QED BY <1>2, <1>3

\* The steps that reject nothing, and what they report.
LEMMA QuietStep ==
  ASSUME TypeOK, SearchInvariant, diagnosing,
         PopPartialChain \/ SkipCandidate \/ FindIntermediates
  PROVE  /\ Searching /\ UNCHANGED <<diagnosing, policy_failures>> /\ pc' # "leaf"
         /\ \E events \in Diagnostics :
              /\ diagnostics' = diagnostics \o events
              /\ \A i \in DOMAIN events : ~Rejects(events[i]) /\ ~Ends(events[i])
<1>1. CASE PopPartialChain
  <2> DEFINE chain == stack[Len(stack)]
             found == FindBySubject(roots, chain[Len(chain)].issuer)
             first == <<Diagnostic("SearchingForIssuerOfPartialChain", chain, {})>>
             second == ReportFound("FoundCandidateIssuersOfPartialChainInRootStore",
                                   chain, found)
  <2>1. /\ pc = "search" /\ pc' = "roots" /\ UNCHANGED <<request, policy_failures>>
        /\ diagnostics' = diagnostics \o (first \o second)
    BY <1>1 DEF PopPartialChain, Diagnose
  <2>2. chain \in Seq(Cert) \ {<<>>}
    BY <1>1, PopStep
  <2>3. chain[Len(chain)].issuer \in Name
    BY <2>2, CertAssumption
  <2>4. found \in Seq(Cert)
    BY <2>3, FindBySubjectType DEF TypeOK
  <2>5. first \in Diagnostics /\ \A i \in DOMAIN first : ~Rejects(first[i]) /\ ~Ends(first[i])
    <3> DEFINE d == Diagnostic("SearchingForIssuerOfPartialChain", chain, {})
    <3>1. <<d>> \in Diagnostics
      BY <2>2, DiagnosticType DEF Kinds
    <3>2. ~Rejects(d) /\ ~Ends(d)
      BY DEF Diagnostic, Rejects, Ends
    <3> HIDE DEF d
    <3> QED BY <3>1, <3>2 DEF d
  <2>6. second \in Diagnostics /\ \A i \in DOMAIN second : ~Rejects(second[i]) /\ ~Ends(second[i])
    <3> HIDE DEF chain, found
    <3> QED BY <2>2, <2>4, FoundIsQuiet
  <2> HIDE DEF first, second
  <2>7. first \o second \in Diagnostics
    BY <2>5, <2>6, ReportsContinued
  <2>8. ASSUME NEW i \in DOMAIN (first \o second)
        PROVE  ~Rejects((first \o second)[i]) /\ ~Ends((first \o second)[i])
    BY <2>5, <2>6, <2>8, ContinuedBy
  <2> QED BY <2>1, <2>7, <2>8 DEF Searching, request
<1>2. CASE SkipCandidate
  <2>1. PICK i \in NextCandidates :
          /\ ShouldSkipAddingCertificate(candidates[i]) \notin {"Add", "panic"}
          /\ Diagnose(<<Diagnostic(ShouldSkipAddingCertificate(candidates[i]),
                                   partial_chain, {candidates[i]})>>)
    BY <1>2 DEF SkipCandidate
  <2>2. /\ pc \in {"roots", "intermediates"} /\ UNCHANGED <<pc, request, policy_failures>>
    BY <1>2 DEF SkipCandidate
  <2> DEFINE skip == ShouldSkipAddingCertificate(candidates[i])
             d == Diagnostic(skip, partial_chain, {candidates[i]})
  <2>3. skip \in {"IssuerHasUnhandledCriticalExtension", "IssuerIsAlreadyInTheChain",
                  "IssuerHasNotSignedCertificate"}
    BY <2>1 DEF ShouldSkipAddingCertificate
  <2>4. diagnostics' = diagnostics \o <<d>>
    BY <2>1 DEF Diagnose
  <2> HIDE DEF skip
  <2>5. ~Rejects(d) /\ ~Ends(d)
    BY <2>3 DEF Diagnostic, Rejects, Ends
  <2>6. <<d>> \in Diagnostics
    <3>1. partial_chain \in Seq(Cert) /\ {candidates[i]} \in SUBSET Cert
      BY NextTaken DEF TypeOK
    <3>2. skip \in Kinds
      BY <2>3 DEF Kinds
    <3> QED BY <3>1, <3>2, DiagnosticType
  <2> HIDE DEF d
  <2>7. \A j \in DOMAIN <<d>> : <<d>>[j] = d
    OBVIOUS
  <2> QED BY <2>2, <2>4, <2>5, <2>6, <2>7 DEF Searching, request
<1>3. CASE FindIntermediates
  <2> DEFINE found == FindBySubject(intermediates, Tip.issuer)
             events == ReportFound("FoundCandidateIssuersOfPartialChainInIntermediateStore",
                                   partial_chain, found)
  <2>1. /\ pc = "roots" /\ pc' = "intermediates" /\ UNCHANGED <<request, policy_failures>>
        /\ diagnostics' = diagnostics \o events
    BY <1>3 DEF FindIntermediates, Diagnose
  <2>2. partial_chain \in Seq(Cert) /\ Tip.issuer \in Name
    BY <2>1, AtHand DEF Extending
  <2>3. found \in Seq(Cert)
    BY <2>2, FindBySubjectType DEF TypeOK
  <2>4. events \in Diagnostics /\ \A i \in DOMAIN events : ~Rejects(events[i]) /\ ~Ends(events[i])
    <3> HIDE DEF found
    <3> QED BY <2>2, <2>3, FoundIsQuiet
  <2> HIDE DEF events
  <2> QED BY <2>1, <2>4 DEF Searching, request
<1> QED BY <1>1, <1>2, <1>3
\* Before a search, its record is made of what has been reported.
LEMMA NothingReported == ReportsEach(<<>>, <<>>)
<1>1. Rejections(<<>>) = {}
  BY DEF Rejections
<1> QED BY <1>1, FS_EmptySet DEF ReportsEach

LEMMA NextOutcome ==
  ASSUME TypeOK, SearchInvariant, OutcomeInvariant, [Next]_vars
  PROVE  OutcomeInvariant'
<1> SUFFICES ASSUME diagnosing'
             PROVE  /\ pc' = "leaf" => diagnostics' = <<>>
                    /\ Searching' => /\ \A i \in DOMAIN diagnostics' : ~Ends(diagnostics'[i])
                                     /\ ReportsEach(diagnostics', policy_failures')
  BY DEF OutcomeInvariant
<1>0. diagnostics \in Diagnostics /\ policy_failures \in Failures
  BY DEF TypeOK
<1>1. CASE Caller
  BY <1>1 DEF Caller, AppendRoot, AppendIntermediate, WithPolicyAndBackend, Validate,
              Searching
<1>2. CASE RejectLeaf \/ AcceptTrustedLeaf \/ BackendPanics \/ AcceptChain \/ GiveUp
  BY <1>2 DEF RejectLeaf, AcceptTrustedLeaf, BackendPanics, AcceptChain, GiveUp, Return,
              Searching
<1>3. CASE BeginSearch
  <2> DEFINE d == Diagnostic("LeafCertificateIsInTheRootStoreButDoesNotMeetPolicy",
                             <<leaf>>, {})
             f == PolicyFailure(<<leaf>>, "policy")
  <2>1. /\ pc = "leaf" /\ pc' = "search" /\ diagnosing
        /\ policy_failures' = IF LeafIsTrusted THEN <<f>> ELSE <<>>
        /\ diagnostics' = diagnostics \o (IF LeafIsTrusted THEN <<d>> ELSE <<>>)
    BY <1>3 DEF BeginSearch, Diagnose, request
  <2>2. diagnostics = <<>>
    BY <2>1 DEF OutcomeInvariant
  <2>3. Rejects(d) /\ ~Ends(d) /\ f.chain = d.chain
    BY DEF Diagnostic, Rejects, Ends, PolicyFailure
  <2>4. <<d>> \in Diagnostics
    <3>1. <<leaf>> \in Seq(Cert)
      BY InputAssumption DEF TypeOK
    <3> QED BY <3>1, DiagnosticType DEF Kinds
  <2> HIDE DEF d, f
  <2>5. CASE LeafIsTrusted
    <3>1. ReportsEach(<<>> \o <<d>>, Append(<<>>, f))
      <4>1. <<>> \in Diagnostics /\ <<>> \in Failures
        BY DEF Diagnostics, Failures
      <4> QED BY <2>3, <2>4, <4>1, NothingReported, RejectionReported
    <3>2. <<>> \o <<d>> = <<d>> /\ Append(<<>>, f) = <<f>>
      OBVIOUS
    <3>3. \A i \in DOMAIN <<d>> : <<d>>[i] = d
      OBVIOUS
    <3> QED BY <2>1, <2>2, <2>3, <2>5, <3>1, <3>2, <3>3
  <2>6. CASE ~LeafIsTrusted
    BY <2>1, <2>2, <2>6, NothingReported
  <2> QED BY <2>5, <2>6
<1>4. CASE PopPartialChain \/ SkipCandidate \/ FindIntermediates
  <2>0. diagnosing
    BY <1>4 DEF PopPartialChain, SkipCandidate, FindIntermediates, request
  <2>1. PICK events \in Diagnostics :
          /\ diagnostics' = diagnostics \o events
          /\ \A i \in DOMAIN events : ~Rejects(events[i]) /\ ~Ends(events[i])
    BY <1>4, <2>0, QuietStep
  <2>2. Searching /\ policy_failures' = policy_failures /\ pc' # "leaf"
    BY <1>4, <2>0, QuietStep
  <2>3. /\ \A i \in DOMAIN diagnostics : ~Ends(diagnostics[i])
        /\ ReportsEach(diagnostics, policy_failures)
    BY <2>0, <2>2 DEF OutcomeInvariant
  <2>4. ReportsEach(diagnostics', policy_failures')
    BY <1>0, <2>1, <2>2, <2>3, QuietReports
  <2>5. ASSUME NEW i \in DOMAIN diagnostics' PROVE ~Ends(diagnostics'[i])
    BY <1>0, <2>1, <2>3, <2>5, ContinuedBy
  <2> QED BY <2>2, <2>4, <2>5
<1>5. CASE RejectChain
  <2>1. PICK i \in NextCandidates :
          /\ policy_failures' =
               Append(policy_failures,
                      PolicyFailure(Append(partial_chain, candidates[i]), "policy"))
          /\ Diagnose(<<Diagnostic("ChainFailsToMeetPolicy",
                                   Append(partial_chain, candidates[i]), {})>>)
    BY <1>5 DEF RejectChain
  <2> DEFINE chain == Append(partial_chain, candidates[i])
             d == Diagnostic("ChainFailsToMeetPolicy", chain, {})
             f == PolicyFailure(chain, "policy")
  <2>2. pc = "roots" /\ pc' = pc /\ diagnosing
    BY <1>5 DEF RejectChain, request
  <2>3. diagnostics' = diagnostics \o <<d>> /\ policy_failures' = Append(policy_failures, f)
    BY <2>1, <2>2 DEF Diagnose
  <2>4. chain \in Seq(Cert)
    BY NextTaken DEF TypeOK
  <2> HIDE DEF chain
  <2>5. Rejects(d) /\ ~Ends(d) /\ f.chain = d.chain
    BY DEF Diagnostic, Rejects, Ends, PolicyFailure
  <2>6. <<d>> \in Diagnostics
    BY <2>4, DiagnosticType DEF Kinds
  <2> HIDE DEF d, f
  <2>7. /\ \A j \in DOMAIN diagnostics : ~Ends(diagnostics[j])
        /\ ReportsEach(diagnostics, policy_failures)
    BY <2>2 DEF OutcomeInvariant, Searching
  <2>8. ReportsEach(diagnostics', policy_failures')
    BY <1>0, <2>3, <2>5, <2>6, <2>7, RejectionReported
  <2>9. \A j \in DOMAIN <<d>> : ~Ends(<<d>>[j])
    BY <2>5
  <2>10. ASSUME NEW j \in DOMAIN diagnostics' PROVE ~Ends(diagnostics'[j])
    BY <1>0, <2>3, <2>6, <2>7, <2>9, <2>10, ContinuedBy
  <2> QED BY <2>2, <2>8, <2>10
<1>6. CASE PushIntermediate \/ FinishPartialChain
  <2>1. /\ pc = "intermediates" /\ pc' \in {"intermediates", "search"}
        /\ UNCHANGED <<diagnosing, policy_failures, diagnostics>>
    BY <1>6 DEF PushIntermediate, FinishPartialChain, request
  <2> QED BY <2>1 DEF OutcomeInvariant, Searching
<1>7. CASE UNCHANGED vars
  <2>1. UNCHANGED <<pc, diagnosing, policy_failures, diagnostics>>
    BY <1>7 DEF vars, request, locals
  <2> QED BY <2>1 DEF OutcomeInvariant, Searching
<1> QED BY <1>1, <1>2, <1>3, <1>4, <1>5, <1>6, <1>7 DEF Next, Call

\* A call that ends with one more report, which says so, agrees with its reports.
LEMMA LastReport ==
  ASSUME NEW reports \in Diagnostics, \A i \in DOMAIN reports : ~Ends(reports[i]),
         NEW d, <<d>> \in Diagnostics, Ends(d)
  PROVE  LET all == reports \o <<d>>
         IN  /\ \A i \in DOMAIN all : Ends(all[i]) <=> i = Len(all)
             /\ all[Len(all)] = d
<1> DEFINE all == reports \o <<d>>
           n == Len(reports)
<1>1. /\ n \in Nat /\ Len(all) = n + 1 /\ DOMAIN all = 1..(n + 1) /\ DOMAIN reports = 1..n
      /\ \A i \in 1..n : all[i] = reports[i]
      /\ all[n + 1] = d
  <2>1. Len(<<d>>) = 1 /\ <<d>>[1] = d
    OBVIOUS
  <2> QED BY <2>1, ReportsContinued
<1> HIDE DEF all, n
<1>2. ASSUME NEW i \in DOMAIN all PROVE Ends(all[i]) <=> i = Len(all)
  <2>1. CASE i \in 1..n
    <3>1. ~Ends(all[i]) /\ i # Len(all)
      BY <1>1, <2>1
    <3> QED BY <3>1
  <2>2. CASE i = n + 1
    <3>1. Ends(all[i]) /\ i = Len(all)
      BY <1>1, <2>2
    <3> QED BY <3>1
  <2> QED BY <1>1, <2>1, <2>2
<1>3. all[Len(all)] = d
  BY <1>1
<1> QED BY <1>2, <1>3 DEF all

LEMMA NextAgreement ==
  ASSUME TypeOK, SearchInvariant, OutcomeInvariant, [Next]_vars,
         DiagnosticsAgreeWithResult
  PROVE  DiagnosticsAgreeWithResult'
<1> DEFINE last == diagnostics'[Len(diagnostics')]
<1> SUFFICES ASSUME diagnosing', result'.tag \in {"Ok", "Err"}
             PROVE  /\ \A i \in DOMAIN diagnostics' :
                         Ends(diagnostics'[i]) <=> i = Len(diagnostics')
                    /\ result'.tag = "Ok" <=> last.kind = "FoundValidCertificateChain"
                    /\ result'.tag = "Ok" => last.chain = result'.chain
                    /\ result'.tag = "Err" => ReportsEach(diagnostics', result'.failures)
  BY DEF DiagnosticsAgreeWithResult
<1>0. diagnostics \in Diagnostics /\ <<leaf>> \in Seq(Cert)
  BY InputAssumption DEF TypeOK
<1>1. CASE result'.tag = "None"
  BY <1>1
<1>2. CASE RejectLeaf
  <2> DEFINE d == Diagnostic("LeafCertificateHasUnhandledCriticalExtension", <<leaf>>, {})
             f == PolicyFailure(<<leaf>>, "critical")
  <2>1. /\ pc = "leaf" /\ diagnosing /\ result' = Err(<<f>>)
        /\ diagnostics' = diagnostics \o <<d>>
    BY <1>2 DEF RejectLeaf, Return, Diagnose, request
  <2>2. diagnostics = <<>>
    BY <2>1 DEF OutcomeInvariant
  <2>3. Rejects(d) /\ Ends(d) /\ f.chain = d.chain /\ d.kind # "FoundValidCertificateChain"
    BY DEF Diagnostic, Rejects, Ends, PolicyFailure
  <2>4. <<d>> \in Diagnostics
    BY <1>0, DiagnosticType DEF Kinds
  <2> HIDE DEF d, f
  <2>5. result'.tag = "Err" /\ result'.failures = <<f>>
    BY <2>1 DEF Err
  <2>6. ReportsEach(diagnostics', result'.failures)
    <3>1. ReportsEach(<<>> \o <<d>>, Append(<<>>, f))
      <4>1. <<>> \in Diagnostics /\ <<>> \in Failures
        BY DEF Diagnostics, Failures
      <4> QED BY <2>3, <2>4, <4>1, NothingReported, RejectionReported
    <3>2. Append(<<>>, f) = <<f>>
      OBVIOUS
    <3> QED BY <2>1, <2>2, <2>5, <3>1, <3>2
  <2>7. /\ \A i \in DOMAIN diagnostics' : Ends(diagnostics'[i]) <=> i = Len(diagnostics')
        /\ last = d
    BY <1>0, <2>1, <2>2, <2>3, <2>4, LastReport
  <2> QED BY <2>3, <2>5, <2>6, <2>7
<1>3. CASE AcceptTrustedLeaf
  <2> DEFINE d == Diagnostic("FoundValidCertificateChain", <<leaf>>, {})
  <2>1. /\ pc = "leaf" /\ diagnosing /\ result' = Ok(<<leaf>>)
        /\ diagnostics' = diagnostics \o <<d>>
    BY <1>3 DEF AcceptTrustedLeaf, Return, Diagnose, request
  <2>2. diagnostics = <<>>
    BY <2>1 DEF OutcomeInvariant
  <2>3. Ends(d) /\ d.chain = <<leaf>> /\ d.kind = "FoundValidCertificateChain"
    BY DEF Diagnostic, Ends
  <2>4. <<d>> \in Diagnostics
    BY <1>0, DiagnosticType DEF Kinds
  <2> HIDE DEF d
  <2>5. result'.tag = "Ok" /\ result'.chain = <<leaf>>
    BY <2>1 DEF Ok
  <2>6. /\ \A i \in DOMAIN diagnostics' : Ends(diagnostics'[i]) <=> i = Len(diagnostics')
        /\ last = d
    BY <1>0, <2>1, <2>2, <2>3, <2>4, LastReport
  <2> QED BY <2>3, <2>5, <2>6
<1>4. CASE BackendPanics
  BY <1>4 DEF BackendPanics, Return, Panic
<1>5. CASE AcceptChain
  <2>1. PICK i \in NextCandidates :
          /\ Diagnose(<<Diagnostic("FoundValidCertificateChain",
                                   Append(partial_chain, candidates[i]), {})>>)
          /\ Return(Ok(Append(partial_chain, candidates[i])))
    BY <1>5 DEF AcceptChain
  <2> DEFINE chain == Append(partial_chain, candidates[i])
             d == Diagnostic("FoundValidCertificateChain", chain, {})
  <2>2. /\ pc = "roots" /\ diagnosing /\ result' = Ok(chain)
        /\ diagnostics' = diagnostics \o <<d>>
    BY <1>5, <2>1 DEF AcceptChain, Return, Diagnose, request
  <2>3. chain \in Seq(Cert)
    BY NextTaken DEF TypeOK
  <2> HIDE DEF chain
  <2>4. Ends(d) /\ d.chain = chain /\ d.kind = "FoundValidCertificateChain"
    BY DEF Diagnostic, Ends
  <2>5. <<d>> \in Diagnostics
    BY <2>3, DiagnosticType DEF Kinds
  <2> HIDE DEF d
  <2>6. result'.tag = "Ok" /\ result'.chain = chain
    BY <2>2 DEF Ok
  <2>7. \A j \in DOMAIN diagnostics : ~Ends(diagnostics[j])
    BY <2>2 DEF OutcomeInvariant, Searching
  <2>8. /\ \A j \in DOMAIN diagnostics' : Ends(diagnostics'[j]) <=> j = Len(diagnostics')
        /\ last = d
    BY <1>0, <2>2, <2>4, <2>5, <2>7, LastReport
  <2> QED BY <2>4, <2>6, <2>8
<1>6. CASE GiveUp
  <2> DEFINE d == Diagnostic("CouldNotValidateLeafCertificate", <<leaf>>, {})
  <2>1. /\ pc = "search" /\ diagnosing /\ result' = Err(policy_failures)
        /\ diagnostics' = diagnostics \o <<d>>
    BY <1>6 DEF GiveUp, Return, Diagnose, request
  <2>2. /\ \A i \in DOMAIN diagnostics : ~Ends(diagnostics[i])
        /\ ReportsEach(diagnostics, policy_failures)
    BY <2>1 DEF OutcomeInvariant, Searching
  <2>3. Ends(d) /\ ~Rejects(d) /\ d.kind # "FoundValidCertificateChain"
    BY DEF Diagnostic, Ends, Rejects
  <2>4. <<d>> \in Diagnostics
    BY <1>0, DiagnosticType DEF Kinds
  <2> HIDE DEF d
  <2>5. result'.tag = "Err" /\ result'.failures = policy_failures
    BY <2>1 DEF Err
  <2>6. \A i \in DOMAIN <<d>> : ~Rejects(<<d>>[i])
    BY <2>3
  <2>7. ReportsEach(diagnostics', result'.failures)
    BY <1>0, <2>1, <2>2, <2>4, <2>5, <2>6, QuietReports
  <2>8. /\ \A i \in DOMAIN diagnostics' : Ends(diagnostics'[i]) <=> i = Len(diagnostics')
        /\ last = d
    BY <1>0, <2>1, <2>2, <2>3, <2>4, LastReport
  <2> QED BY <2>3, <2>5, <2>7, <2>8
<1>7. CASE UNCHANGED vars
  <2>1. UNCHANGED <<diagnosing, diagnostics, result>>
    BY <1>7 DEF vars, request
  <2> QED BY <2>1 DEF DiagnosticsAgreeWithResult
<1> QED
  BY <1>1, <1>2, <1>3, <1>4, <1>5, <1>6, <1>7, ResultSteps

\* A call in progress has reported exactly the chains it has rejected, and not
\* announced its end.
THEOREM OutcomeHolds == Spec => []OutcomeInvariant
<1>1. Init => OutcomeInvariant
  BY DEF Init, OutcomeInvariant
<1>2. TypeOK /\ SearchInvariant /\ OutcomeInvariant /\ [Next]_vars => OutcomeInvariant'
  BY NextOutcome
<1> QED
  BY <1>1, <1>2, SearchInvariantHolds, PTL DEF Spec

\* The callback of validate_with_diagnostics is told of every chain in the error,
\* in its order and once, and of the outcome, last and once.
THEOREM Agreement == Spec => []DiagnosticsAgreeWithResult
<1>1. Init => DiagnosticsAgreeWithResult
  BY DEF Init, DiagnosticsAgreeWithResult
<1>2. /\ TypeOK /\ SearchInvariant /\ OutcomeInvariant /\ [Next]_vars
      /\ DiagnosticsAgreeWithResult
      => DiagnosticsAgreeWithResult'
  BY NextAgreement
<1> QED
  BY <1>1, <1>2, SearchInvariantHolds, OutcomeHolds, PTL DEF Spec
-----------------------------------------------------------------------------
(* Every issuer that was found is accounted for.                           *)

\* The issuer was found, and the search has yet to come to it: as a candidate
\* of the loop, or at the end of a chain on the stack.
Awaited(found, c) ==
  \/ /\ partial_chain = found.chain
     /\ \/ pc = "roots" /\ found.kind = "FoundCandidateIssuersOfPartialChainInRootStore"
        \/ /\ pc = "intermediates"
           /\ found.kind = "FoundCandidateIssuersOfPartialChainInIntermediateStore"
     /\ \E j \in todo : candidates[j] = c
  \/ /\ found.kind = "FoundCandidateIssuersOfPartialChainInIntermediateStore"
     /\ \E j \in DOMAIN stack : stack[j] = Append(found.chain, c)

\* Whatever was found is accounted for already or still awaited.
AccountInvariant ==
  diagnosing /\ Searching =>
    \A i \in DOMAIN diagnostics :
      Finds(diagnostics[i]) =>
        \A c \in diagnostics[i].certs :
          AccountedFor(diagnostics, i, c) \/ Awaited(diagnostics[i], c)

LEMMA StaysAccountedFor ==
  ASSUME NEW reports \in Diagnostics, NEW events \in Diagnostics,
         NEW i \in DOMAIN reports, NEW c, AccountedFor(reports, i, c)
  PROVE  AccountedFor(reports \o events, i, c)
<1> DEFINE all == reports \o events
           n == Len(reports)
<1>0. /\ n \in Nat /\ Len(events) \in Nat /\ Len(all) = n + Len(events)
      /\ i \in 1..n /\ \A j \in 1..n : all[j] = reports[j]
  BY ReportsContinued
<1> HIDE DEF all, n
<1>1. /\ all[i] = reports[i]
      /\ \A j \in (i + 1)..n : j \in (i + 1)..Len(all) /\ all[j] = reports[j]
  BY <1>0
<1>2. AccountedFor(all, i, c)
  BY <1>1 DEF AccountedFor, n
<1> QED BY <1>2 DEF all

\* The reports that account for an issuer.
LEMMA NowAccountedFor ==
  ASSUME NEW reports \in Diagnostics, NEW events \in Diagnostics,
         NEW i \in DOMAIN reports, NEW c, NEW j \in DOMAIN events, NEW kind,
         \/ /\ kind \in {"IssuerHasUnhandledCriticalExtension",
                         "IssuerIsAlreadyInTheChain",
                         "IssuerHasNotSignedCertificate"}
            /\ events[j] = Diagnostic(kind, reports[i].chain, {c})
         \/ /\ kind = (IF reports[i].kind = "FoundCandidateIssuersOfPartialChainInRootStore"
                         THEN "ChainFailsToMeetPolicy"
                         ELSE "SearchingForIssuerOfPartialChain")
            /\ events[j] = Diagnostic(kind, Append(reports[i].chain, c), {})
  PROVE  AccountedFor(reports \o events, i, c)
<1> DEFINE all == reports \o events
           k == Len(reports) + j
           n == Len(reports)
<1>a. /\ n \in Nat /\ Len(events) \in Nat /\ Len(all) = n + Len(events)
      /\ DOMAIN reports = 1..n /\ DOMAIN events = 1..Len(events)
      /\ \A x \in 1..n : all[x] = reports[x]
      /\ \A x \in 1..Len(events) : all[n + x] = events[x]
  BY ReportsContinued
<1>0. /\ n \in Nat /\ Len(events) \in Nat /\ Len(all) = n + Len(events)
      /\ i \in 1..n /\ j \in 1..Len(events)
      /\ all[i] = reports[i] /\ all[k] = events[j]
  <2> HIDE DEF all, n
  <2> QED BY <1>a DEF n
<1>1. all[i] = reports[i] /\ k \in (i + 1)..Len(all) /\ all[k] = events[j]
  <2> HIDE DEF all
  <2> QED BY <1>0
<1> HIDE DEF all, k
<1>2. AccountedFor(all, i, c)
  BY <1>1 DEF AccountedFor
<1> QED BY <1>2 DEF all

\* A step that reports some events keeps the account if each issuer that was
\* awaited still is, or one of the events accounts for it, and the issuers that
\* the events find are awaited.
LEMMA AccountKept ==
  ASSUME TypeOK, AccountInvariant, diagnosing, Searching, NEW events \in Diagnostics,
         diagnostics' = diagnostics \o events,
         \A i \in DOMAIN diagnostics, c \in Cert :
           Finds(diagnostics[i]) /\ Awaited(diagnostics[i], c)
             => \/ AccountedFor(diagnostics \o events, i, c)
                \/ \A found : found = diagnostics[i] => Awaited(found, c)',
         \A j \in DOMAIN events : Finds(events[j]) =>
           \A c \in events[j].certs : \A found : found = events[j] => Awaited(found, c)'
  PROVE  AccountInvariant'
<1>0. diagnostics \in Diagnostics
  BY DEF TypeOK
<1> SUFFICES ASSUME NEW i \in DOMAIN diagnostics', Finds(diagnostics'[i]),
                    NEW c \in diagnostics'[i].certs
             PROVE  \/ AccountedFor(diagnostics', i, c)
                    \/ \A found : found = diagnostics'[i] => Awaited(found, c)'
  BY DEF AccountInvariant
<1>1. CASE i \in DOMAIN diagnostics /\ diagnostics'[i] = diagnostics[i]
  <2>1. c \in Cert
    <3> DEFINE Report == [kind : Kinds, chain : Seq(Cert), certs : SUBSET Cert]
    <3>1. diagnostics \in Seq(Report)
      BY <1>0 DEF Diagnostics
    <3>2. \A d \in Report : d.certs \subseteq Cert
      OBVIOUS
    <3> HIDE DEF Report
    <3>3. diagnostics[i] \in Report
      BY <1>1, <3>1
    <3> QED BY <1>1, <3>2, <3>3
  <2>2. AccountedFor(diagnostics, i, c) \/ Awaited(diagnostics[i], c)
    BY <1>1 DEF AccountInvariant
  <2>3. CASE AccountedFor(diagnostics, i, c)
    BY <1>0, <1>1, <2>3, StaysAccountedFor
  <2>4. CASE Awaited(diagnostics[i], c)
    BY <1>1, <2>1, <2>4
  <2> QED BY <2>2, <2>3, <2>4
<1>2. ASSUME NEW j \in DOMAIN events, diagnostics'[i] = events[j]
      PROVE  \A found : found = diagnostics'[i] => Awaited(found, c)'
  BY <1>2
<1> QED BY <1>0, <1>1, <1>2, ContinuedBy
\* What a report of the issuers found says.
LEMMA FoundReported ==
  ASSUME NEW kind, NEW chain, NEW found,
         NEW i \in DOMAIN ReportFound(kind, chain, found)
  PROVE  ReportFound(kind, chain, found)[i] =
           Diagnostic(kind, chain, {found[j] : j \in DOMAIN found})
<1> DEFINE d == Diagnostic(kind, chain, {found[j] : j \in DOMAIN found})
<1>1. CASE found = <<>>
  <2>1. ReportFound(kind, chain, found) = <<>>
    BY <1>1 DEF ReportFound
  <2> QED BY <2>1
<1>2. CASE found # <<>>
  <2>1. ReportFound(kind, chain, found) = <<d>>
    BY <1>2 DEF ReportFound
  <2> HIDE DEF d
  <2>2. <<d>>[i] = d
    BY <2>1
  <2> QED BY <2>1, <2>2 DEF d
<1> QED BY <1>1, <1>2

LEMMA NextAccount ==
  ASSUME TypeOK, SearchInvariant, OutcomeInvariant, AccountInvariant, [Next]_vars
  PROVE  AccountInvariant'
<1> DEFINE Root == "FoundCandidateIssuersOfPartialChainInRootStore"
           Intermediate == "FoundCandidateIssuersOfPartialChainInIntermediateStore"
<1>0. diagnostics \in Diagnostics
  BY DEF TypeOK
<1>a. diagnostics \o <<>> = diagnostics /\ <<>> \in Diagnostics
  BY <1>0 DEF Diagnostics
<1> SUFFICES ASSUME diagnosing', Searching'
             PROVE  AccountInvariant'
  BY DEF AccountInvariant
<1>1. CASE BeginSearch
  <2> DEFINE d == Diagnostic("LeafCertificateIsInTheRootStoreButDoesNotMeetPolicy",
                             <<leaf>>, {})
  <2>1. /\ pc = "leaf" /\ diagnosing
        /\ diagnostics' = diagnostics \o (IF LeafIsTrusted THEN <<d>> ELSE <<>>)
    BY <1>1 DEF BeginSearch, Diagnose, request
  <2>2. diagnostics = <<>>
    BY <2>1 DEF OutcomeInvariant
  <2>3. ~Finds(d)
    BY DEF Diagnostic, Finds
  <2> HIDE DEF d
  <2>4. diagnostics' = <<d>> \/ diagnostics' = <<>>
    BY <2>1, <2>2
  <2>5. \A i \in DOMAIN diagnostics' : ~Finds(diagnostics'[i])
    BY <2>3, <2>4
  <2> QED BY <2>5 DEF AccountInvariant
<1>2. CASE PopPartialChain
  <2> DEFINE n == Len(stack)
             top == stack[n]
             list == FindBySubject(roots, top[Len(top)].issuer)
             s == Diagnostic("SearchingForIssuerOfPartialChain", top, {})
             second == ReportFound(Root, top, list)
             events == <<s>> \o second
  <2>1. diagnosing /\ diagnostics' = diagnostics \o events
    BY <1>2 DEF PopPartialChain, Diagnose, request
  <2>2. /\ pc = "search" /\ pc' = "roots"
        /\ n \in DOMAIN stack /\ n \in Nat /\ DOMAIN stack = 1..n
        /\ top \in Seq(Cert) \ {<<>>}
        /\ DOMAIN stack' = 1..(n - 1)
        /\ \A i \in DOMAIN stack' : stack'[i] = stack[i]
        /\ partial_chain' = top
        /\ candidates' = list
        /\ todo' = DOMAIN candidates'
    BY <1>2, PopStep
  <2>3. list \in Seq(Cert)
    <3>1. top[Len(top)].issuer \in Name
      BY <2>2, CertAssumption
    <3> QED BY <3>1, FindBySubjectType DEF TypeOK
  <2> HIDE DEF n, top, list
  <2>4. <<s>> \in Diagnostics
    BY <2>2, DiagnosticType DEF Kinds
  <2>5. second \in Diagnostics
    BY <2>2, <2>3, FoundIsQuiet
  <2>6. ~Finds(s)
    BY DEF Diagnostic, Finds
  <2>7. \A i \in DOMAIN second : second[i] = Diagnostic(Root, top, {list[j] : j \in DOMAIN list})
    BY FoundReported
  <2> HIDE DEF s, second
  <2>8. events \in Diagnostics /\ 1 \in DOMAIN events /\ events[1] = s
    BY <2>4, <2>5, ReportsContinued
  <2>9. ASSUME NEW j \in DOMAIN events, Finds(events[j])
        PROVE  events[j] = Diagnostic(Root, top, {list[k] : k \in DOMAIN list})
    <3>1. \A k \in DOMAIN <<s>> : ~Finds(<<s>>[k])
      BY <2>6
    <3>2. PICK k \in DOMAIN second : events[j] = second[k]
      BY <2>4, <2>5, <2>9, <3>1, ContinuedBy
    <3> HIDE DEF events
    <3> QED BY <2>7, <3>2
  <2> HIDE DEF events
  <2>10. ASSUME NEW i \in DOMAIN diagnostics, NEW c \in Cert,
                Finds(diagnostics[i]), Awaited(diagnostics[i], c)
         PROVE  \/ AccountedFor(diagnostics \o events, i, c)
                \/ \A found : found = diagnostics[i] => Awaited(found, c)'
    <3>1. /\ diagnostics[i].kind = Intermediate
          /\ \E j \in DOMAIN stack : stack[j] = Append(diagnostics[i].chain, c)
      BY <2>2, <2>10 DEF Awaited
    <3>2. PICK j \in DOMAIN stack : stack[j] = Append(diagnostics[i].chain, c)
      BY <3>1
    <3>3. CASE j = n
      <4>1. events[1] =
              Diagnostic("SearchingForIssuerOfPartialChain", Append(diagnostics[i].chain, c), {})
        BY <2>8, <3>2, <3>3 DEF s, top
      <4> QED BY <1>0, <2>8, <3>1, <4>1, NowAccountedFor
    <3>4. CASE j # n
      <4>1. j \in DOMAIN stack' /\ stack'[j] = stack[j]
        BY <2>2, <3>4
      <4> QED BY <3>1, <3>2, <4>1 DEF Awaited
    <3> QED BY <3>3, <3>4
  <2>11. ASSUME NEW j \in DOMAIN events, Finds(events[j]), NEW c \in events[j].certs,
                NEW found, found = events[j]
         PROVE  Awaited(found, c)'
    <3>1. /\ found.kind = Root /\ found.chain = top
          /\ events[j].certs = {list[k] : k \in DOMAIN list}
      BY <2>9, <2>11 DEF Diagnostic
    <3>2. \E k \in DOMAIN list : list[k] = c
      BY <3>1
    <3> QED BY <2>2, <3>1, <3>2 DEF Awaited
  <2> QED BY <2>1, <2>2, <2>8, <2>10, <2>11, AccountKept DEF Searching
<1>3. CASE SkipCandidate
  <2>1. PICK i \in NextCandidates :
          /\ ShouldSkipAddingCertificate(candidates[i]) \notin {"Add", "panic"}
          /\ todo' = todo \ {i}
          /\ Diagnose(<<Diagnostic(ShouldSkipAddingCertificate(candidates[i]),
                                   partial_chain, {candidates[i]})>>)
    BY <1>3 DEF SkipCandidate
  <2>2. /\ pc \in {"roots", "intermediates"} /\ diagnosing
        /\ UNCHANGED <<pc, stack, partial_chain, candidates>>
    BY <1>3 DEF SkipCandidate, request
  <2> DEFINE skip == ShouldSkipAddingCertificate(candidates[i])
             d == Diagnostic(skip, partial_chain, {candidates[i]})
             events == <<d>>
  <2>3. skip \in {"IssuerHasUnhandledCriticalExtension", "IssuerIsAlreadyInTheChain",
                  "IssuerHasNotSignedCertificate"}
    BY <2>1 DEF ShouldSkipAddingCertificate
  <2>4. diagnostics' = diagnostics \o events
    BY <2>1, <2>2 DEF Diagnose
  <2> HIDE DEF skip
  <2>5. ~Finds(d)
    BY <2>3 DEF Diagnostic, Finds
  <2>6. events \in Diagnostics
    <3>1. partial_chain \in Seq(Cert) /\ {candidates[i]} \in SUBSET Cert
      BY NextTaken DEF TypeOK
    <3>2. skip \in Kinds
      BY <2>3 DEF Kinds
    <3> QED BY <3>1, <3>2, DiagnosticType
  <2> HIDE DEF d
  <2>7. 1 \in DOMAIN events /\ events[1] = d /\ \A j \in DOMAIN events : ~Finds(events[j])
    BY <2>5
  <2> HIDE DEF events
  <2>8. ASSUME NEW k \in DOMAIN diagnostics, NEW c \in Cert,
               Finds(diagnostics[k]), Awaited(diagnostics[k], c)
        PROVE  \/ AccountedFor(diagnostics \o events, k, c)
               \/ \A found : found = diagnostics[k] => Awaited(found, c)'
    <3>1. CASE partial_chain = diagnostics[k].chain /\ candidates[i] = c
      <4>1. events[1] = Diagnostic(skip, diagnostics[k].chain, {c})
        BY <2>7, <3>1 DEF d
      <4> QED BY <1>0, <2>3, <2>6, <2>7, <4>1, NowAccountedFor
    <3>2. CASE ~(partial_chain = diagnostics[k].chain /\ candidates[i] = c)
      BY <2>1, <2>2, <2>8, <3>2 DEF Awaited
    <3> QED BY <3>1, <3>2
  <2> QED BY <2>2, <2>4, <2>6, <2>7, <2>8, AccountKept DEF Searching
<1>4. CASE RejectChain
  <2>1. PICK i \in NextCandidates :
          /\ todo' = todo \ {i}
          /\ Diagnose(<<Diagnostic("ChainFailsToMeetPolicy",
                                   Append(partial_chain, candidates[i]), {})>>)
    BY <1>4 DEF RejectChain
  <2>2. /\ pc = "roots" /\ diagnosing
        /\ UNCHANGED <<pc, stack, partial_chain, candidates>>
    BY <1>4 DEF RejectChain, request
  <2> DEFINE chain == Append(partial_chain, candidates[i])
             d == Diagnostic("ChainFailsToMeetPolicy", chain, {})
             events == <<d>>
  <2>3. diagnostics' = diagnostics \o events
    BY <2>1, <2>2 DEF Diagnose
  <2>4. chain \in Seq(Cert)
    BY NextTaken DEF TypeOK
  <2> HIDE DEF chain
  <2>5. ~Finds(d)
    BY DEF Diagnostic, Finds
  <2>6. events \in Diagnostics
    BY <2>4, DiagnosticType DEF Kinds
  <2> HIDE DEF d
  <2>7. 1 \in DOMAIN events /\ events[1] = d /\ \A j \in DOMAIN events : ~Finds(events[j])
    BY <2>5
  <2> HIDE DEF events
  <2>8. ASSUME NEW k \in DOMAIN diagnostics, NEW c \in Cert,
               Finds(diagnostics[k]), Awaited(diagnostics[k], c)
        PROVE  \/ AccountedFor(diagnostics \o events, k, c)
               \/ \A found : found = diagnostics[k] => Awaited(found, c)'
    <3>1. CASE /\ partial_chain = diagnostics[k].chain /\ candidates[i] = c
               /\ diagnostics[k].kind = Root
      <4>1. events[1] = Diagnostic("ChainFailsToMeetPolicy", Append(diagnostics[k].chain, c), {})
        BY <2>7, <3>1 DEF d, chain
      <4> QED BY <1>0, <2>6, <2>7, <3>1, <4>1, NowAccountedFor
    <3>2. CASE ~(/\ partial_chain = diagnostics[k].chain /\ candidates[i] = c
                 /\ diagnostics[k].kind = Root)
      BY <2>1, <2>2, <2>8, <3>2 DEF Awaited
    <3> QED BY <3>1, <3>2
  <2> QED BY <2>2, <2>3, <2>6, <2>7, <2>8, AccountKept DEF Searching
<1>5. CASE FindIntermediates
  <2> DEFINE list == FindBySubject(intermediates, Tip.issuer)
             events == ReportFound(Intermediate, partial_chain, list)
  <2>1. diagnosing /\ diagnostics' = diagnostics \o events
    BY <1>5 DEF FindIntermediates, Diagnose, request
  <2>2. /\ UNCHANGED <<stack, partial_chain>>
        /\ pc = "roots" /\ todo = {} /\ pc' = "intermediates"
        /\ candidates' = list /\ todo' = DOMAIN candidates'
    BY <1>5, FindStep
  <2>3. partial_chain \in Seq(Cert) /\ list \in Seq(Cert)
    <3>1. partial_chain \in Seq(Cert) /\ Tip.issuer \in Name
      BY <2>2, AtHand DEF Extending
    <3> QED BY <3>1, FindBySubjectType DEF TypeOK
  <2> HIDE DEF list
  <2>4. events \in Diagnostics
    BY <2>3, FoundIsQuiet
  <2>5. \A i \in DOMAIN events :
          events[i] = Diagnostic(Intermediate, partial_chain, {list[j] : j \in DOMAIN list})
    BY FoundReported
  <2> HIDE DEF events
  <2>6. ASSUME NEW i \in DOMAIN diagnostics, NEW c \in Cert,
               Finds(diagnostics[i]), Awaited(diagnostics[i], c)
        PROVE  \A found : found = diagnostics[i] => Awaited(found, c)'
    BY <2>2, <2>6 DEF Awaited
  <2>7. ASSUME NEW j \in DOMAIN events, NEW c \in events[j].certs, NEW found, found = events[j]
        PROVE  Awaited(found, c)'
    <3>1. /\ found.kind = Intermediate /\ found.chain = partial_chain
          /\ events[j].certs = {list[k] : k \in DOMAIN list}
      BY <2>5, <2>7 DEF Diagnostic
    <3>2. \E k \in DOMAIN list : list[k] = c
      BY <3>1
    <3> QED BY <2>2, <3>1, <3>2 DEF Awaited
  <2> QED BY <2>1, <2>2, <2>4, <2>6, <2>7, AccountKept DEF Searching
<1>6. CASE PushIntermediate
  <2>1. PICK i \in DOMAIN candidates :
          /\ Takes(i)
          /\ stack' = Append(stack, Append(partial_chain, candidates[i]))
    BY <1>6, PushStep
  <2>2. /\ UNCHANGED <<pc, partial_chain, candidates, diagnostics>>
        /\ pc = "intermediates" /\ diagnosing /\ todo' = todo \ {i}
    BY <1>6, <2>1 DEF PushIntermediate, Takes, request
  <2>3. /\ \A k \in DOMAIN stack : k \in DOMAIN stack' /\ stack'[k] = stack[k]
        /\ \E k \in DOMAIN stack' : stack'[k] = Append(partial_chain, candidates[i])
    <3>1. stack \in Seq(Seq(Cert) \ {<<>>})
      BY DEF TypeOK
    <3> DEFINE child == Append(partial_chain, candidates[i])
    <3>2. stack' = Append(stack, child)
      BY <2>1
    <3> HIDE DEF child
    <3>3. /\ \A k \in DOMAIN stack : k \in DOMAIN stack' /\ stack'[k] = stack[k]
          /\ Len(stack) + 1 \in DOMAIN stack' /\ stack'[Len(stack) + 1] = child
      BY <3>1, <3>2
    <3> QED BY <3>3 DEF child
  <2>4. ASSUME NEW k \in DOMAIN diagnostics, NEW c \in Cert,
               Finds(diagnostics[k]), Awaited(diagnostics[k], c)
        PROVE  \A found : found = diagnostics[k] => Awaited(found, c)'
    <3>1. CASE \E j \in DOMAIN stack : stack[j] = Append(diagnostics[k].chain, c)
      BY <2>2, <2>3, <2>4, <3>1 DEF Awaited
    <3>2. CASE /\ partial_chain = diagnostics[k].chain
               /\ diagnostics[k].kind = Intermediate
               /\ \E j \in todo : candidates[j] = c
      <4>1. CASE candidates[i] = c
        BY <2>3, <3>2, <4>1 DEF Awaited
      <4>2. CASE candidates[i] # c
        BY <2>2, <3>2, <4>2 DEF Awaited
      <4> QED BY <4>1, <4>2
    <3> QED BY <2>2, <2>4, <3>1, <3>2 DEF Awaited
  <2> DEFINE events == <<>>
  <2>5. /\ events \in Diagnostics /\ diagnostics' = diagnostics \o events
        /\ DOMAIN events = {}
    BY <1>a, <2>2
  <2> HIDE DEF events
  <2> QED BY <2>2, <2>4, <2>5, AccountKept DEF Searching
<1>7. CASE FinishPartialChain
  <2>1. /\ UNCHANGED <<stack, diagnostics>> /\ diagnosing
        /\ pc = "intermediates" /\ todo = {}
    BY <1>7 DEF FinishPartialChain, request
  <2>2. ASSUME NEW k \in DOMAIN diagnostics, NEW c \in Cert,
               Finds(diagnostics[k]), Awaited(diagnostics[k], c)
        PROVE  \A found : found = diagnostics[k] => Awaited(found, c)'
    BY <2>1, <2>2 DEF Awaited
  <2> DEFINE events == <<>>
  <2>3. /\ events \in Diagnostics /\ diagnostics' = diagnostics \o events
        /\ DOMAIN events = {}
    BY <1>a, <2>1
  <2> HIDE DEF events
  <2> QED BY <2>1, <2>2, <2>3, AccountKept DEF Searching
<1>8. CASE UNCHANGED vars
  <2>1. UNCHANGED <<pc, diagnosing, diagnostics, stack, partial_chain, candidates, todo>>
    BY <1>8 DEF vars, request, locals
  <2> QED BY <2>1 DEF AccountInvariant, Awaited, Searching
<1> QED BY <1>1, <1>2, <1>3, <1>4, <1>5, <1>6, <1>7, <1>8, SearchSteps

LEMMA NextEveryCandidate ==
  ASSUME TypeOK, SearchInvariant, OutcomeInvariant, AccountInvariant, [Next]_vars,
         EveryCandidateAccountedFor
  PROVE  EveryCandidateAccountedFor'
<1>0. diagnostics \in Diagnostics /\ <<leaf>> \in Seq(Cert)
  BY InputAssumption DEF TypeOK
<1>1. CASE result'.tag = "None"
  BY <1>1 DEF EveryCandidateAccountedFor
<1>2. CASE RejectLeaf
  <2> DEFINE d == Diagnostic("LeafCertificateHasUnhandledCriticalExtension", <<leaf>>, {})
  <2>1. /\ pc = "leaf" /\ diagnosing' = diagnosing
        /\ diagnosing => diagnostics' = diagnostics \o <<d>>
    BY <1>2 DEF RejectLeaf, Return, Diagnose, request
  <2>2. diagnosing => diagnostics = <<>>
    BY <2>1 DEF OutcomeInvariant
  <2>3. ~Finds(d)
    BY DEF Diagnostic, Finds
  <2> HIDE DEF d
  <2>4. diagnosing => \A i \in DOMAIN diagnostics' : ~Finds(diagnostics'[i])
    BY <2>1, <2>2, <2>3
  <2> QED BY <2>1, <2>4 DEF EveryCandidateAccountedFor
<1>3. CASE AcceptTrustedLeaf
  BY <1>3 DEF AcceptTrustedLeaf, Return, Ok, EveryCandidateAccountedFor
<1>4. CASE BackendPanics
  BY <1>4 DEF BackendPanics, Return, Panic, EveryCandidateAccountedFor
<1>5. CASE AcceptChain
  BY <1>5 DEF AcceptChain, Return, Ok, EveryCandidateAccountedFor
<1>6. CASE GiveUp
  <2> DEFINE d == Diagnostic("CouldNotValidateLeafCertificate", <<leaf>>, {})
  <2> SUFFICES ASSUME diagnosing', NEW i \in DOMAIN diagnostics', Finds(diagnostics'[i]),
                      NEW c \in diagnostics'[i].certs
               PROVE  AccountedFor(diagnostics', i, c)
    BY DEF EveryCandidateAccountedFor
  <2>1. /\ pc = "search" /\ stack = <<>> /\ diagnosing
        /\ diagnostics' = diagnostics \o <<d>>
    BY <1>6 DEF GiveUp, Return, Diagnose, request
  <2>2. <<d>> \in Diagnostics
    BY <1>0, DiagnosticType DEF Kinds
  <2>3. ~Finds(d)
    BY DEF Diagnostic, Finds
  <2> HIDE DEF d
  <2>4. \A j \in DOMAIN <<d>> : ~Finds(<<d>>[j])
    BY <2>3
  <2>5. i \in DOMAIN diagnostics /\ diagnostics'[i] = diagnostics[i]
    BY <1>0, <2>1, <2>2, <2>4, ContinuedBy
  <2>6. ~Awaited(diagnostics[i], c)
    BY <2>1 DEF Awaited
  <2>7. AccountedFor(diagnostics, i, c)
    BY <2>1, <2>5, <2>6 DEF AccountInvariant, Searching
  <2> QED BY <1>0, <2>1, <2>2, <2>5, <2>7, StaysAccountedFor
<1>7. CASE UNCHANGED vars
  <2>1. UNCHANGED <<diagnosing, diagnostics, result>>
    BY <1>7 DEF vars, request
  <2> QED BY <2>1 DEF EveryCandidateAccountedFor
<1> QED
  BY <1>1, <1>2, <1>3, <1>4, <1>5, <1>6, <1>7, ResultSteps

\* Every issuer that the search of a failed call reported as found was discarded
\* with a report, rejected by the policy with a report, or searched from.
THEOREM Accounting == Spec => []EveryCandidateAccountedFor
<1>1. Init => AccountInvariant /\ EveryCandidateAccountedFor
  BY DEF Init, AccountInvariant, EveryCandidateAccountedFor
<1>2. /\ TypeOK /\ SearchInvariant /\ OutcomeInvariant /\ [Next]_vars
      /\ AccountInvariant /\ EveryCandidateAccountedFor
      => AccountInvariant' /\ EveryCandidateAccountedFor'
  BY NextAccount, NextEveryCandidate
<1> QED
  BY <1>1, <1>2, SearchInvariantHolds, OutcomeHolds, PTL DEF Spec
=============================================================================
