------------------------------ MODULE Validator ------------------------------
(***************************************************************************)
(* The chain builder: Validator::validate and its caller.                  *)
(*                                                                         *)
(* The caller fills the two stores, creates a validator over the roots, a  *)
(* policy and a signature backend, and asks it to validate leaves, adding  *)
(* intermediates between the calls if it likes.  A call is a depth-first   *)
(* search for a chain from the leaf to a root that the policy accepts.     *)
(* The search is sequential; one action is one step of it, so that every   *)
(* intermediate state of its locals can be talked about.                   *)
(***************************************************************************)
EXTENDS TrustChain

CONSTANTS
  Leaf,               \* certificates the caller asks about
  RootInput,          \* certificates the caller may append to the root store
  IntermediateInput,  \* certificates the caller may append as intermediates
  MaxPerSubject,      \* bound: certificates of one subject in one store
  DiagnosticModes,    \* whether calls are made with a diagnostics callback
  Chains              \* sequences of certificates the properties range over

ASSUME InputAssumption ==
  /\ Leaf \subseteq Cert
  /\ RootInput \subseteq Cert
  /\ IntermediateInput \subseteq Cert
  /\ MaxPerSubject \in Nat
  /\ DiagnosticModes \subseteq BOOLEAN
  /\ Chains \subseteq Seq(Cert)

VARIABLES
  roots,            \* the root store, moved into the validator
  intermediates,    \* the caller's store of intermediates
  policy, crypto,   \* what the validator was created with
  pc,               \* where the caller, or the call, is
  leaf,             \* the call's leaf
  diagnosing,       \* the call was given a callback
  policy_failures,  \* the call's locals: chains rejected so far,
  stack,            \*   partial chains still to be extended,
  partial_chain,    \*   the one being extended,
  candidates,       \*   issuers found for its last certificate,
  todo,             \*   positions in candidates not yet considered
  diagnostics,      \* what the callback was told, in order
  result            \* what the last call returned

config == <<roots, intermediates, policy, crypto>>
request == <<leaf, diagnosing>>
locals == <<policy_failures, stack, partial_chain, candidates, todo>>
vars == <<config, pc, request, locals, diagnostics, result>>

-----------------------------------------------------------------------------
(* Return values.                                                          *)

NoResult == [tag |-> "None"]
Ok(chain) == [tag |-> "Ok", chain |-> chain]
Err(failures) == [tag |-> "Err", failures |-> failures]
Panic == [tag |-> "Panic"]

PolicyFailure(chain, reason) == [chain |-> chain, reason |-> reason]

Failures == Seq([chain : Seq(Cert), reason : {"critical", "policy"}])

(* Diagnostics: what happened, to which chain, with which other            *)
(* certificates.  Reason texts and the policy's extension list are left    *)
(* out, and so is the order of a list of candidates.                       *)

Diagnostic(kind, chain, certs) ==
  [kind |-> kind, chain |-> chain, certs |-> certs]

Kinds == {"LeafCertificateHasUnhandledCriticalExtension",
          "LeafCertificateIsInTheRootStoreButDoesNotMeetPolicy",
          "ChainFailsToMeetPolicy",
          "IssuerHasUnhandledCriticalExtension",
          "IssuerHasNotSignedCertificate",
          "SearchingForIssuerOfPartialChain",
          "FoundCandidateIssuersOfPartialChainInRootStore",
          "FoundCandidateIssuersOfPartialChainInIntermediateStore",
          "FoundValidCertificateChain",
          "CouldNotValidateLeafCertificate",
          "IssuerIsAlreadyInTheChain"}

Diagnostics == Seq([kind : Kinds, chain : Seq(Cert), certs : SUBSET Cert])

\* diagnose!: tell the callback, if there is one.
Diagnose(events) ==
  diagnostics' = IF diagnosing THEN diagnostics \o events ELSE diagnostics

\* The report of the candidates found, made only when there are any.
ReportFound(kind, chain, found) ==
  IF found = <<>>
    THEN <<>>
    ELSE <<Diagnostic(kind, chain, {found[i] : i \in DOMAIN found})>>

-----------------------------------------------------------------------------
(* The caller.                                                             *)

Init ==
  /\ roots = New
  /\ intermediates = New
  /\ policy \in Policy
  /\ crypto \in Backend
  /\ pc = "configuring"
  /\ leaf \in Leaf
  /\ diagnosing = FALSE
  /\ policy_failures = <<>>
  /\ stack = <<>>
  /\ partial_chain = <<>>
  /\ candidates = <<>>
  /\ todo = {}
  /\ diagnostics = <<>>
  /\ result = NoResult

AppendRoot(c) ==
  /\ pc = "configuring"
  /\ Len(FindBySubject(roots, c.subject)) < MaxPerSubject
  /\ roots' = AppendCertificate(roots, c)
  /\ UNCHANGED <<intermediates, policy, crypto, pc, request, locals,
                 diagnostics, result>>

\* The last result says nothing about the new store: the caller drops it.
AppendIntermediate(c) ==
  /\ pc = "idle"
  /\ Len(FindBySubject(intermediates, c.subject)) < MaxPerSubject
  /\ intermediates' = AppendCertificate(intermediates, c)
  /\ diagnostics' = <<>>
  /\ result' = NoResult
  /\ UNCHANGED <<roots, policy, crypto, pc, request, locals>>

WithPolicyAndBackend ==
  /\ pc = "configuring"
  /\ pc' = "idle"
  /\ UNCHANGED <<config, request, locals, diagnostics, result>>

\* validate passes no callback, validate_with_diagnostics passes one.
Validate(c, callback) ==
  /\ pc = "idle"
  /\ pc' = "leaf"
  /\ leaf' = c
  /\ diagnosing' = callback
  /\ diagnostics' = <<>>
  /\ result' = NoResult
  /\ UNCHANGED <<config, locals>>

-----------------------------------------------------------------------------
(* The call.                                                               *)

\* Leave validate_inner with r; its locals are dropped.
Return(r) ==
  /\ result' = r
  /\ pc' = "idle"
  /\ policy_failures' = <<>>
  /\ stack' = <<>>
  /\ partial_chain' = <<>>
  /\ candidates' = <<>>
  /\ todo' = {}
  /\ UNCHANGED <<config, request>>

LeafIsAdmissible == ~HasUnhandledCriticalExtensions(policy, leaf)

\* Slip: any certificate of the leaf's identity would do.
LeafIsTrustedByIdentity ==
  \E i \in DOMAIN FindBySubject(roots, leaf.subject) :
    HasSameIdentityAs(FindBySubject(roots, leaf.subject)[i], leaf)

LeafIsTrusted == Contains(roots, leaf)

MeetsPolicy(chain) == ChainMeetsPolicyRequirements(policy, chain)

\* First check: the policy must enforce the leaf's critical extensions.
RejectLeaf ==
  /\ pc = "leaf"
  /\ ~LeafIsAdmissible
  /\ Diagnose(<<Diagnostic("LeafCertificateHasUnhandledCriticalExtension",
                           <<leaf>>, {})>>)
  /\ Return(Err(<<PolicyFailure(<<leaf>>, "critical")>>))

\* Second check: a leaf that is a root is trusted if the policy agrees.
AcceptTrustedLeaf ==
  /\ pc = "leaf"
  /\ LeafIsAdmissible
  /\ LeafIsTrusted /\ MeetsPolicy(<<leaf>>)
  /\ Diagnose(<<Diagnostic("FoundValidCertificateChain", <<leaf>>, {})>>)
  /\ Return(Ok(<<leaf>>))

\* Slip: a failure is recorded for a leaf that is not a root.
BeginSearchBlamingLeaf ==
  /\ pc = "leaf"
  /\ LeafIsAdmissible
  /\ ~(LeafIsTrusted /\ MeetsPolicy(<<leaf>>))
  /\ policy_failures' = <<PolicyFailure(<<leaf>>, "policy")>>
  /\ stack' = <<<<leaf>>>>
  /\ pc' = "search"
  /\ UNCHANGED <<config, request, partial_chain, candidates, todo, diagnostics,
                 result>>

\* Slip: the search starts from an empty chain.
BeginSearchFromNothing ==
  /\ pc = "leaf"
  /\ LeafIsAdmissible
  /\ ~(LeafIsTrusted /\ MeetsPolicy(<<leaf>>))
  /\ stack' = <<<<>>>>
  /\ pc' = "search"
  /\ UNCHANGED <<config, request, policy_failures, partial_chain, candidates,
                 todo, diagnostics, result>>

\* Otherwise the search starts from the leaf.
BeginSearch ==
  /\ pc = "leaf"
  /\ LeafIsAdmissible
  /\ ~(LeafIsTrusted /\ MeetsPolicy(<<leaf>>))
  /\ policy_failures' =
       IF LeafIsTrusted THEN <<PolicyFailure(<<leaf>>, "policy")>> ELSE <<>>
  /\ Diagnose(IF LeafIsTrusted
              THEN <<Diagnostic(
                      "LeafCertificateIsInTheRootStoreButDoesNotMeetPolicy",
                      <<leaf>>, {})>>
              ELSE <<>>)
  /\ stack' = <<<<leaf>>>>
  /\ pc' = "search"
  /\ UNCHANGED <<config, request, partial_chain, candidates, todo, result>>

\* Slip: the oldest partial chain is taken, which searches breadth first.
PopOldestPartialChain ==
  /\ pc = "search"
  /\ stack # <<>>
  /\ partial_chain' = stack[1]
  /\ candidates' = FindBySubject(roots, stack[1][Len(stack[1])].issuer)
  /\ todo' = DOMAIN candidates'
  /\ stack' = Tail(stack)
  /\ pc' = "roots"
  /\ UNCHANGED <<config, request, policy_failures, diagnostics, result>>

\* Take the newest partial chain and look its issuer up in the root store.
PopPartialChain ==
  /\ pc = "search"
  /\ stack # <<>>
  /\ LET chain == stack[Len(stack)]
         found == FindBySubject(roots, chain[Len(chain)].issuer)
     IN  /\ partial_chain' = chain
         /\ candidates' = found
         /\ todo' = DOMAIN found
         /\ Diagnose(
              <<Diagnostic("SearchingForIssuerOfPartialChain", chain, {})>>
              \o ReportFound("FoundCandidateIssuersOfPartialChainInRootStore",
                             chain, found))
  /\ stack' = SubSeq(stack, 1, Len(stack) - 1)
  /\ pc' = "roots"
  /\ UNCHANGED <<config, request, policy_failures, result>>

Tip == partial_chain[Len(partial_chain)]

\* Slip: intermediates are pushed in sorted order, not reversed.
NextCandidatesUnreversed ==
  { i \in todo : \A j \in todo : SortsNoLater(candidates, Tip, i, j) }

\* Roots are considered in sorted order; intermediates from the back, so that
\* the stack gives them up in sorted order.
NextCandidates ==
  { i \in todo : \A j \in todo :
      IF pc = "roots" THEN SortsNoLater(candidates, Tip, i, j)
                      ELSE SortsNoLater(candidates, Tip, j, i) }

\* Slip: only the last certificate is compared.
IsTheTip(c) == HasSameIdentityAs(Tip, c)

AlreadyInTheChain(c) ==
  \E i \in DOMAIN partial_chain : HasSameIdentityAs(partial_chain[i], c)

\* Slip: the signature is not checked.
ShouldSkipUnverified(c) ==
  IF HasUnhandledCriticalExtensions(policy, c)
    THEN "IssuerHasUnhandledCriticalExtension"
  ELSE IF AlreadyInTheChain(c)
    THEN "IssuerIsAlreadyInTheChain"
    ELSE "Add"

\* should_skip_adding_certificate: its three checks, in their order, as the
\* diagnostic it leaves; "Add" when the candidate passes them all, "panic" when
\* the backend does.
ShouldSkipAddingCertificate(c) ==
  IF HasUnhandledCriticalExtensions(policy, c)
    THEN "IssuerHasUnhandledCriticalExtension"
  ELSE IF AlreadyInTheChain(c)
    THEN "IssuerIsAlreadyInTheChain"
  ELSE IF VerifySignature(crypto, Tip, c) = "panic"
    THEN "panic"
  ELSE IF VerifySignature(crypto, Tip, c) = "Ok"
    THEN "Add"
    ELSE "IssuerHasNotSignedCertificate"

\* Slip: a candidate is skipped without a word.
SkipCandidateSilently ==
  /\ pc \in {"roots", "intermediates"}
  /\ \E i \in NextCandidates :
       /\ ShouldSkipAddingCertificate(candidates[i]) \notin {"Add", "panic"}
       /\ todo' = todo \ {i}
  /\ UNCHANGED <<config, pc, request, policy_failures, stack, partial_chain,
                 candidates, diagnostics, result>>

\* Slip: a skipped candidate is looked at again.
SkipCandidateForever ==
  /\ pc \in {"roots", "intermediates"}
  /\ \E i \in NextCandidates :
       ShouldSkipAddingCertificate(candidates[i]) \notin {"Add", "panic"}
  /\ UNCHANGED vars

SkipCandidate ==
  /\ pc \in {"roots", "intermediates"}
  /\ \E i \in NextCandidates :
       LET c == candidates[i]
           skip == ShouldSkipAddingCertificate(c)
       IN  /\ skip \notin {"Add", "panic"}
           /\ todo' = todo \ {i}
           /\ Diagnose(<<Diagnostic(skip, partial_chain, {c})>>)
  /\ UNCHANGED <<config, pc, request, policy_failures, stack, partial_chain,
                 candidates, result>>

\* A backend that could not be determined panics when it is first used.
BackendPanics ==
  /\ pc \in {"roots", "intermediates"}
  /\ \E i \in NextCandidates :
       ShouldSkipAddingCertificate(candidates[i]) = "panic"
  /\ UNCHANGED diagnostics
  /\ Return(Panic)

\* A root completes the chain: the policy has the last word.
AcceptChain ==
  /\ pc = "roots"
  /\ \E i \in NextCandidates :
       LET chain == Append(partial_chain, candidates[i])
       IN  /\ ShouldSkipAddingCertificate(candidates[i]) = "Add"
           /\ MeetsPolicy(chain)
           /\ Diagnose(<<Diagnostic("FoundValidCertificateChain", chain, {})>>)
           /\ Return(Ok(chain))

\* Slip: the first rejected chain ends the search.
RejectChainAndReturn ==
  /\ pc = "roots"
  /\ \E i \in NextCandidates :
       LET chain == Append(partial_chain, candidates[i])
       IN  /\ ShouldSkipAddingCertificate(candidates[i]) = "Add"
           /\ ~MeetsPolicy(chain)
           /\ Diagnose(<<Diagnostic("ChainFailsToMeetPolicy", chain, {})>>)
           /\ Return(Err(Append(policy_failures, PolicyFailure(chain, "policy"))))

\* Slip: a rejected chain is reported but not recorded.
RejectChainUnrecorded ==
  /\ pc = "roots"
  /\ \E i \in NextCandidates :
       LET chain == Append(partial_chain, candidates[i])
       IN  /\ ShouldSkipAddingCertificate(candidates[i]) = "Add"
           /\ ~MeetsPolicy(chain)
           /\ todo' = todo \ {i}
           /\ Diagnose(<<Diagnostic("ChainFailsToMeetPolicy", chain, {})>>)
  /\ UNCHANGED <<config, pc, request, policy_failures, stack, partial_chain,
                 candidates, result>>

RejectChain ==
  /\ pc = "roots"
  /\ \E i \in NextCandidates :
       LET chain == Append(partial_chain, candidates[i])
       IN  /\ ShouldSkipAddingCertificate(candidates[i]) = "Add"
           /\ ~MeetsPolicy(chain)
           /\ todo' = todo \ {i}
           /\ policy_failures' =
                Append(policy_failures, PolicyFailure(chain, "policy"))
           /\ Diagnose(<<Diagnostic("ChainFailsToMeetPolicy", chain, {})>>)
  /\ UNCHANGED <<config, pc, request, stack, partial_chain, candidates, result>>

\* Slip: intermediates are consulted only if the root store knows no issuer.
FindIntermediatesUnlessRoots ==
  /\ pc = "roots"
  /\ todo = {}
  /\ candidates' = IF candidates = <<>>
                     THEN FindBySubject(intermediates, Tip.issuer)
                     ELSE <<>>
  /\ todo' = DOMAIN candidates'
  /\ pc' = "intermediates"
  /\ UNCHANGED <<config, request, policy_failures, stack, partial_chain,
                 diagnostics, result>>

\* No root left: look the issuer up among the intermediates.
FindIntermediates ==
  /\ pc = "roots"
  /\ todo = {}
  /\ LET found == FindBySubject(intermediates, Tip.issuer)
     IN  /\ candidates' = found
         /\ todo' = DOMAIN found
         /\ Diagnose(
              ReportFound("FoundCandidateIssuersOfPartialChainInIntermediateStore",
                          partial_chain, found))
  /\ pc' = "intermediates"
  /\ UNCHANGED <<config, request, policy_failures, stack, partial_chain, result>>

PushIntermediate ==
  /\ pc = "intermediates"
  /\ \E i \in NextCandidates :
       /\ ShouldSkipAddingCertificate(candidates[i]) = "Add"
       /\ todo' = todo \ {i}
       /\ stack' = Append(stack, Append(partial_chain, candidates[i]))
  /\ UNCHANGED <<config, pc, request, policy_failures, partial_chain,
                 candidates, diagnostics, result>>

\* The end of one iteration of the search.
FinishPartialChain ==
  /\ pc = "intermediates"
  /\ todo = {}
  /\ pc' = "search"
  /\ partial_chain' = <<>>
  /\ candidates' = <<>>
  /\ UNCHANGED <<config, request, policy_failures, stack, todo, diagnostics,
                 result>>

\* Nothing left to extend.
GiveUp ==
  /\ pc = "search"
  /\ stack = <<>>
  /\ Diagnose(<<Diagnostic("CouldNotValidateLeafCertificate", <<leaf>>, {})>>)
  /\ Return(Err(policy_failures))

-----------------------------------------------------------------------------
Caller ==
  \/ \E c \in RootInput : AppendRoot(c)
  \/ \E c \in IntermediateInput : AppendIntermediate(c)
  \/ WithPolicyAndBackend
  \/ \E c \in Leaf, callback \in DiagnosticModes : Validate(c, callback)

Call ==
  \/ RejectLeaf
  \/ AcceptTrustedLeaf
  \/ BeginSearch
  \/ PopPartialChain
  \/ SkipCandidate
  \/ BackendPanics
  \/ AcceptChain
  \/ RejectChain
  \/ FindIntermediates
  \/ PushIntermediate
  \/ FinishPartialChain
  \/ GiveUp

Next == Caller \/ Call

\* The thread that makes a call keeps running it.
Spec == Init /\ [][Next]_vars /\ WF_vars(Call)

-----------------------------------------------------------------------------
(* Properties.                                                             *)

\* The variables of the chain builder have the types the code declares; in
\* particular a chain under construction is never empty, so that taking its
\* last certificate (the code's unwrap) cannot fail.
TypeOK ==
  /\ roots \in Store
  /\ intermediates \in Store
  /\ policy \in Policy
  /\ crypto \in Backend
  /\ pc \in {"configuring", "idle", "leaf", "search", "roots", "intermediates"}
  /\ leaf \in Leaf
  /\ diagnosing \in BOOLEAN
  /\ policy_failures \in Failures
  /\ stack \in Seq(Seq(Cert) \ {<<>>})
  /\ partial_chain \in Seq(Cert)
  /\ pc \in {"roots", "intermediates"} => partial_chain # <<>>
  /\ candidates \in Seq(Cert)
  /\ todo \subseteq DOMAIN candidates
  /\ diagnostics \in Diagnostics
  /\ result.tag \in {"None", "Ok", "Err", "Panic"}
  /\ result.tag = "Ok" => result.chain \in Seq(Cert)
  /\ result.tag = "Err" => result.failures \in Failures

Candidate(chain) ==
  CandidateChain(policy, crypto, leaf, roots, intermediates, chain)

\* A chain that validate returns starts at the leaf, ends in the root store,
\* has every link checked (names, signature, critical extensions), repeats no
\* identity and is accepted by the policy, however the search got to it.
Sound ==
  result.tag = "Ok" => Candidate(result.chain) /\ MeetsPolicy(result.chain)

\* validate fails only when there is nothing to find: every chain from the leaf
\* to a root was put to the policy, which rejected it, and is in the error.  So
\* an empty error means that no chain reaches a root.
Complete ==
  result.tag = "Err" =>
    \A chain \in Chains :
      Candidate(chain) =>
        /\ ~MeetsPolicy(chain)
        /\ \E i \in DOMAIN result.failures : result.failures[i].chain = chain

\* The error blames only chains that were built and rejected: the leaf alone if
\* its critical extensions are not enforced, and otherwise chains to a root that
\* the policy rejects.
RejectionsJustified ==
  result.tag = "Err" =>
    IF LeafIsAdmissible
      THEN \A i \in DOMAIN result.failures :
             LET f == result.failures[i]
             IN  f.reason = "policy" /\ Candidate(f.chain) /\ ~MeetsPolicy(f.chain)
      ELSE result.failures = <<PolicyFailure(<<leaf>>, "critical")>>

\* The chain that validate returns is the most preferred of the chains the
\* policy accepts: a root before an intermediate, a matching key identifier
\* before a silent one before a mismatch, then the order in the store.
MostPreferred ==
  result.tag = "Ok" =>
    \A chain \in Chains :
      Candidate(chain) /\ MeetsPolicy(chain)
        => ~Preferred(roots, intermediates, chain, result.chain)

NoDuplicates(store) ==
  \A n \in Name : \A i, j \in DOMAIN store[n] :
    store[n][i] = store[n][j] => i = j

\* The error lists the rejected chains in the order of preference, which is the
\* order they were considered in, and no chain twice (unless the caller put a
\* certificate into a store twice).
FailuresInOrder ==
  result.tag = "Err" /\ NoDuplicates(roots) /\ NoDuplicates(intermediates) =>
    \A i, j \in DOMAIN result.failures :
      i < j => Preferred(roots, intermediates,
                         result.failures[i].chain, result.failures[j].chain)

\* What a diagnostic announces: a chain that was rejected, the end of the call,
\* the issuers found for a partial chain.
Rejects(d) ==
  d.kind \in {"LeafCertificateHasUnhandledCriticalExtension",
              "LeafCertificateIsInTheRootStoreButDoesNotMeetPolicy",
              "ChainFailsToMeetPolicy"}

Ends(d) ==
  d.kind \in {"LeafCertificateHasUnhandledCriticalExtension",
              "FoundValidCertificateChain",
              "CouldNotValidateLeafCertificate"}

Finds(d) ==
  d.kind \in {"FoundCandidateIssuersOfPartialChainInRootStore",
              "FoundCandidateIssuersOfPartialChainInIntermediateStore"}

Rejections(reports) == {i \in DOMAIN reports : Rejects(reports[i])}

\* The n-th rejection reported is the n-th failure, and there are no others.
ReportsEach(reports, failures) ==
  /\ Cardinality(Rejections(reports)) = Len(failures)
  /\ \A i \in Rejections(reports) :
       LET n == Cardinality({j \in Rejections(reports) : j <= i})
       IN  reports[i].chain = failures[n].chain

\* The order of the failures and the diagnostics agree: each rejected chain is
\* reported once, in the order of the error; the last report announces the
\* outcome of the call and no earlier one does.
DiagnosticsAgreeWithResult ==
  diagnosing /\ result.tag \in {"Ok", "Err"} =>
    LET last == diagnostics[Len(diagnostics)]
    IN  /\ \A i \in DOMAIN diagnostics :
             Ends(diagnostics[i]) <=> i = Len(diagnostics)
        /\ result.tag = "Ok" <=> last.kind = "FoundValidCertificateChain"
        /\ result.tag = "Ok" => last.chain = result.chain
        /\ result.tag = "Err" => ReportsEach(diagnostics, result.failures)

\* What became of an issuer found in the i-th report: a later one says that it
\* was discarded, or that the chain to it was rejected or searched from.
AccountedFor(reports, i, c) ==
  LET found == reports[i]
      Reported(kind, chain, certs) ==
        \E j \in (i + 1)..Len(reports) : reports[j] = Diagnostic(kind, chain, certs)
  IN  \/ \E kind \in {"IssuerHasUnhandledCriticalExtension",
                      "IssuerIsAlreadyInTheChain",
                      "IssuerHasNotSignedCertificate"} :
           Reported(kind, found.chain, {c})
      \/ Reported(IF found.kind = "FoundCandidateIssuersOfPartialChainInRootStore"
                    THEN "ChainFailsToMeetPolicy"
                    ELSE "SearchingForIssuerOfPartialChain",
                  Append(found.chain, c), {})

\* Nothing the search found goes unexplained: when it ends without a chain,
\* each issuer reported as found for a partial chain was discarded with a
\* report, rejected by the policy with a report, or searched from in turn.
EveryCandidateAccountedFor ==
  diagnosing /\ result.tag = "Err" =>
    \A i \in DOMAIN diagnostics :
      Finds(diagnostics[i]) =>
        \A c \in diagnostics[i].certs : AccountedFor(diagnostics, i, c)

Identity(c) == <<c.subject, c.key, SubjectAlternativeNames(c)>>

\* However the issuers refer to each other, a partial chain is never longer
\* than the number of identities there are: loop detection is what bounds the
\* search.
ChainLengthBounded ==
  LET Bounded(chain) == Len(chain) <= Cardinality({Identity(c) : c \in Cert})
  IN  /\ Bounded(partial_chain)
      /\ \A i \in DOMAIN stack : Bounded(stack[i])

\* Every call of validate comes back, also over a PKI whose authorities certify
\* each other in circles.
EveryCallReturns == pc \notin {"configuring", "idle"} ~> pc = "idle"

-----------------------------------------------------------------------------
(* The invariants of the search that make Sound and Complete inductive.    *)

KeyedBySubject(store) ==
  \A n \in Name : \A i \in DOMAIN store[n] : store[n][i].subject = n

Partial(chain) == PartialChain(policy, crypto, leaf, intermediates, chain)

\* What the search has built is right: partial chains are partial chains,
\* candidates come from the store being consulted, failures were earned.
SearchInvariant ==
  /\ KeyedBySubject(roots) /\ KeyedBySubject(intermediates)
  /\ pc # "idle" => result = NoResult
  /\ pc \in {"configuring", "idle", "leaf"} => stack = <<>> /\ policy_failures = <<>>
  /\ pc \in {"search", "roots", "intermediates"} => LeafIsAdmissible
  /\ \A i \in DOMAIN stack : Partial(stack[i])
  /\ pc \in {"roots", "intermediates"} => Partial(partial_chain)
  /\ pc = "roots" => candidates = FindBySubject(roots, Tip.issuer)
  /\ pc = "intermediates" => candidates = FindBySubject(intermediates, Tip.issuer)
  /\ \A i \in DOMAIN policy_failures :
       LET f == policy_failures[i]
       IN  f.reason = "policy" /\ Candidate(f.chain) /\ ~MeetsPolicy(f.chain)

Extends(chain, prefix) ==
  /\ Len(prefix) < Len(chain)
  /\ \A k \in 1..Len(prefix) : chain[k] = prefix[k]

\* The work left on the stack and in the two loops leads to the chain.
Pending(chain) ==
  \/ \E i \in DOMAIN stack : Extends(chain, stack[i])
  \/ /\ pc = "roots"
     /\ Extends(chain, partial_chain)
     /\ Len(chain) = Len(partial_chain) + 1 =>
          \E i \in todo : candidates[i] = chain[Len(chain)]
  \/ /\ pc = "intermediates"
     /\ Extends(chain, partial_chain)
     /\ Len(chain) > Len(partial_chain) + 1
     /\ \E i \in todo : candidates[i] = chain[Len(partial_chain) + 1]

\* No chain is lost on the way: each one was put to the policy or is pending.
CoverageInvariant ==
  pc \in {"search", "roots", "intermediates"} =>
    \A chain \in Chains :
      Candidate(chain) =>
        \/ \E i \in DOMAIN policy_failures : policy_failures[i].chain = chain
        \/ Pending(chain)

-----------------------------------------------------------------------------
(* The promise of the chain builder, with the search hidden.               *)

ServiceStatus == IF pc \in {"configuring", "idle"} THEN pc ELSE "busy"

ServiceAnswer ==
  IF result.tag = "Err"
    THEN [tag |-> "Err",
          rejected |-> {result.failures[i].chain : i \in DOMAIN result.failures}]
    ELSE result

Service == INSTANCE ValidationService
             WITH status <- ServiceStatus, answer <- ServiceAnswer

\* The search implements the service: stores, requests and answers change as
\* its specification says, and every other step is invisible.
ImplementsService == Service!Spec
=============================================================================
