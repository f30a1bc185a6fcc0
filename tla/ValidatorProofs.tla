--------------------------- MODULE ValidatorProofs ---------------------------
(***************************************************************************)
(* Proofs about the chain builder, for every PKI, policy and backend.      *)
(***************************************************************************)
EXTENDS Validator, TLAPS

-----------------------------------------------------------------------------
(* Type correctness.                                                       *)

\* Appending a certificate keeps a store a store.
LEMMA AppendCertificateType ==
  ASSUME NEW store \in Store, NEW c \in Cert
  PROVE  AppendCertificate(store, c) \in Store
BY CertAssumption DEF Store, AppendCertificate

\* Looking a name up gives a list of certificates.
LEMMA FindBySubjectType ==
  ASSUME NEW store \in Store, NEW n \in Name
  PROVE  FindBySubject(store, n) \in Seq(Cert)
BY DEF Store, FindBySubject

\* A diagnostic of a known kind is a diagnostic.
LEMMA DiagnosticType ==
  ASSUME NEW kind \in Kinds, NEW chain \in Seq(Cert), NEW certs \in SUBSET Cert
  PROVE  <<Diagnostic(kind, chain, certs)>> \in Diagnostics
BY DEF Diagnostic, Diagnostics

LEMMA ReportFoundType ==
  ASSUME NEW kind \in Kinds, NEW chain \in Seq(Cert), NEW found \in Seq(Cert)
  PROVE  ReportFound(kind, chain, found) \in Diagnostics
<1>1. {found[i] : i \in DOMAIN found} \in SUBSET Cert
  OBVIOUS
<1>2. <<>> \in Diagnostics
  BY DEF Diagnostics
<1> QED
  BY <1>1, <1>2, DiagnosticType DEF ReportFound

\* Telling the callback keeps the record of what it was told well-typed.
LEMMA DiagnoseType ==
  ASSUME diagnostics \in Diagnostics, NEW events \in Diagnostics,
         Diagnose(events)
  PROVE  diagnostics' \in Diagnostics
BY DEF Diagnose, Diagnostics

\* A return of a well-typed value leaves a well-typed state behind.
LEMMA ReturnType ==
  ASSUME TypeOK, NEW r, Return(r), diagnostics' \in Diagnostics,
         r.tag \in {"None", "Ok", "Err", "Panic"},
         r.tag = "Ok" => r.chain \in Seq(Cert),
         r.tag = "Err" => r.failures \in Failures
  PROVE  TypeOK'
BY DEF TypeOK, Return, Failures, config, request

LEMMA InitTypeOK == Init => TypeOK
<1>1. New \in Store
  BY DEF New, Store
<1>2. <<>> \in Failures /\ <<>> \in Diagnostics
  BY DEF Failures, Diagnostics
<1>3. NoResult.tag = "None"
  BY DEF NoResult
<1> SUFFICES ASSUME Init
             PROVE  TypeOK
  OBVIOUS
<1>4. diagnosing \in BOOLEAN
  BY DEF Init
<1>5. /\ stack \in Seq(Seq(Cert) \ {<<>>})
      /\ partial_chain \in Seq(Cert)
      /\ candidates \in Seq(Cert)
      /\ todo \subseteq DOMAIN candidates
  BY DEF Init
<1>6. /\ result.tag \in {"None", "Ok", "Err", "Panic"}
      /\ result.tag # "Ok" /\ result.tag # "Err"
  BY <1>3 DEF Init
<1>7. /\ pc \in {"configuring", "idle", "leaf", "search", "roots", "intermediates"}
      /\ pc \notin {"roots", "intermediates"}
  BY DEF Init
<1> QED
  BY <1>1, <1>2, <1>4, <1>5, <1>6, <1>7 DEF Init, TypeOK

LEMMA NextTypeOK == TypeOK /\ [Next]_vars => TypeOK'
<1> SUFFICES ASSUME TypeOK, [Next]_vars
             PROVE  TypeOK'
  OBVIOUS
<1>0. /\ Leaf \subseteq Cert /\ RootInput \subseteq Cert
      /\ IntermediateInput \subseteq Cert /\ DiagnosticModes \subseteq BOOLEAN
  BY InputAssumption
<1>1. ASSUME NEW c \in RootInput, AppendRoot(c)
      PROVE  TypeOK'
  BY <1>0, <1>1, AppendCertificateType DEF AppendRoot, TypeOK, request, locals
<1>2. ASSUME NEW c \in IntermediateInput, AppendIntermediate(c)
      PROVE  TypeOK'
  <2>1. <<>> \in Diagnostics
    BY DEF Diagnostics
  <2> QED
    BY <1>0, <1>2, <2>1, AppendCertificateType
       DEF AppendIntermediate, TypeOK, request, locals, NoResult
<1>3. CASE WithPolicyAndBackend
  BY <1>3 DEF WithPolicyAndBackend, TypeOK, config, request, locals
<1>4. ASSUME NEW c \in Leaf, NEW callback \in DiagnosticModes,
             Validate(c, callback)
      PROVE  TypeOK'
  <2>1. <<>> \in Diagnostics
    BY DEF Diagnostics
  <2> QED
    BY <1>0, <1>4, <2>1 DEF Validate, TypeOK, config, locals, NoResult
<1>5. CASE RejectLeaf
  <2>1. <<leaf>> \in Seq(Cert)
    BY <1>0 DEF TypeOK
  <2>2. <<PolicyFailure(<<leaf>>, "critical")>> \in Failures
    BY <2>1 DEF PolicyFailure, Failures
  <2>3. diagnostics' \in Diagnostics
    BY <1>5, <2>1, DiagnosticType, DiagnoseType DEF RejectLeaf, Kinds, TypeOK
  <2> QED
    BY <1>5, <2>2, <2>3, ReturnType DEF RejectLeaf, Err
<1>6. CASE AcceptTrustedLeaf
  <2>1. <<leaf>> \in Seq(Cert)
    BY <1>0 DEF TypeOK
  <2>2. diagnostics' \in Diagnostics
    BY <1>6, <2>1, DiagnosticType, DiagnoseType DEF AcceptTrustedLeaf, Kinds, TypeOK
  <2> QED
    BY <1>6, <2>1, <2>2, ReturnType DEF AcceptTrustedLeaf, Ok
<1>7. CASE BeginSearch
  <2>1. <<leaf>> \in Seq(Cert) \ {<<>>}
    BY <1>0 DEF TypeOK
  <2>2. <<PolicyFailure(<<leaf>>, "policy")>> \in Failures
    BY <2>1 DEF PolicyFailure, Failures
  <2>3. <<>> \in Diagnostics /\ <<>> \in Failures
    BY DEF Diagnostics, Failures
  <2>4. diagnostics' \in Diagnostics
    BY <1>7, <2>1, <2>3, DiagnosticType, DiagnoseType DEF BeginSearch, Kinds, TypeOK
  <2>5. stack' \in Seq(Seq(Cert) \ {<<>>})
    BY <1>7, <2>1 DEF BeginSearch
  <2>6. policy_failures' \in Failures
    BY <1>7, <2>2, <2>3 DEF BeginSearch
  <2> QED
    BY <1>7, <2>4, <2>5, <2>6 DEF BeginSearch, TypeOK, config, request
<1>8. CASE PopPartialChain
  <2> DEFINE chain == stack[Len(stack)]
             found == FindBySubject(roots, chain[Len(chain)].issuer)
  <2>1. chain \in Seq(Cert) /\ chain # <<>>
    BY <1>8 DEF PopPartialChain, TypeOK
  <2>2. chain[Len(chain)] \in Cert
    BY <2>1
  <2>3. found \in Seq(Cert)
    BY <2>2, CertAssumption, FindBySubjectType DEF TypeOK
  <2>4. stack' \in Seq(Seq(Cert) \ {<<>>})
    BY <1>8 DEF PopPartialChain, TypeOK
  <2> HIDE DEF chain, found
  <2>5. /\ <<Diagnostic("SearchingForIssuerOfPartialChain", chain, {})>> \in Diagnostics
        /\ ReportFound("FoundCandidateIssuersOfPartialChainInRootStore", chain, found)
             \in Diagnostics
    BY <2>1, <2>3, DiagnosticType, ReportFoundType DEF Kinds
  <2>6. <<Diagnostic("SearchingForIssuerOfPartialChain", chain, {})>>
          \o ReportFound("FoundCandidateIssuersOfPartialChainInRootStore", chain, found)
          \in Diagnostics
    BY <2>5 DEF Diagnostics
  <2>7. diagnostics' \in Diagnostics
    BY <1>8, <2>6, DiagnoseType DEF PopPartialChain, TypeOK, chain, found
  <2> QED
    BY <1>8, <2>1, <2>3, <2>4, <2>7
       DEF PopPartialChain, TypeOK, config, request, chain, found
<1>9. CASE SkipCandidate
  <2>1. PICK i \in NextCandidates :
          LET c == candidates[i]
              skip == ShouldSkipAddingCertificate(c)
          IN  /\ skip \notin {"Add", "panic"}
              /\ todo' = todo \ {i}
              /\ Diagnose(<<Diagnostic(skip, partial_chain, {c})>>)
    BY <1>9 DEF SkipCandidate
  <2> DEFINE c == candidates[i]
             skip == ShouldSkipAddingCertificate(c)
  <2>2. c \in Cert
    BY DEF NextCandidates, TypeOK
  <2>3. skip \in Kinds
    BY <2>1 DEF ShouldSkipAddingCertificate, Kinds
  <2>4. diagnostics' \in Diagnostics
    BY <2>1, <2>2, <2>3, DiagnosticType, DiagnoseType DEF TypeOK
  <2> QED
    BY <1>9, <2>1, <2>4 DEF SkipCandidate, TypeOK, config, request
<1>10. CASE BackendPanics
  BY <1>10, ReturnType DEF BackendPanics, Panic, TypeOK
<1>11. CASE AcceptChain
  <2>1. PICK i \in NextCandidates :
          LET chain == Append(partial_chain, candidates[i])
          IN  /\ Diagnose(<<Diagnostic("FoundValidCertificateChain", chain, {})>>)
              /\ Return(Ok(chain))
    BY <1>11 DEF AcceptChain
  <2>2. Append(partial_chain, candidates[i]) \in Seq(Cert)
    BY DEF NextCandidates, TypeOK
  <2>3. diagnostics' \in Diagnostics
    BY <2>1, <2>2, DiagnosticType, DiagnoseType DEF Kinds, TypeOK
  <2> QED
    BY <2>1, <2>2, <2>3, ReturnType DEF Ok
<1>12. CASE RejectChain
  <2>1. PICK i \in NextCandidates :
          LET chain == Append(partial_chain, candidates[i])
          IN  /\ todo' = todo \ {i}
              /\ policy_failures' =
                   Append(policy_failures, PolicyFailure(chain, "policy"))
              /\ Diagnose(<<Diagnostic("ChainFailsToMeetPolicy", chain, {})>>)
    BY <1>12 DEF RejectChain
  <2>2. Append(partial_chain, candidates[i]) \in Seq(Cert)
    BY DEF NextCandidates, TypeOK
  <2>3. diagnostics' \in Diagnostics
    BY <2>1, <2>2, DiagnosticType, DiagnoseType DEF Kinds, TypeOK
  <2>4. policy_failures' \in Failures
    BY <2>1, <2>2 DEF PolicyFailure, Failures, TypeOK
  <2> QED
    BY <1>12, <2>1, <2>3, <2>4 DEF RejectChain, TypeOK, config, request
<1>13. CASE FindIntermediates
  <2> DEFINE found == FindBySubject(intermediates, Tip.issuer)
  <2>1. Tip \in Cert
    BY <1>13 DEF FindIntermediates, Tip, TypeOK
  <2>2. found \in Seq(Cert)
    BY <2>1, CertAssumption, FindBySubjectType DEF TypeOK
  <2>3. diagnostics' \in Diagnostics
    BY <1>13, <2>2, ReportFoundType, DiagnoseType
       DEF FindIntermediates, Kinds, TypeOK
  <2> QED
    BY <1>13, <2>2, <2>3 DEF FindIntermediates, TypeOK, config, request
<1>14. CASE PushIntermediate
  <2>1. PICK i \in NextCandidates :
          /\ todo' = todo \ {i}
          /\ stack' = Append(stack, Append(partial_chain, candidates[i]))
    BY <1>14 DEF PushIntermediate
  <2>2. Append(partial_chain, candidates[i]) \in Seq(Cert) \ {<<>>}
    <3>1. partial_chain \in Seq(Cert) /\ candidates[i] \in Cert
      BY DEF NextCandidates, TypeOK
    <3> QED
      BY <3>1
  <2>3. stack' \in Seq(Seq(Cert) \ {<<>>})
    BY <2>1, <2>2 DEF TypeOK
  <2> QED
    BY <1>14, <2>1, <2>3 DEF PushIntermediate, TypeOK, config, request
<1>15. CASE FinishPartialChain
  BY <1>15 DEF FinishPartialChain, TypeOK, config, request
<1>16. CASE GiveUp
  <2>1. <<leaf>> \in Seq(Cert)
    BY <1>0 DEF TypeOK
  <2>2. diagnostics' \in Diagnostics
    BY <1>16, <2>1, DiagnosticType, DiagnoseType DEF GiveUp, Kinds, TypeOK
  <2> QED
    BY <1>16, <2>2, ReturnType DEF GiveUp, Err, TypeOK
<1>17. CASE UNCHANGED vars
  BY <1>17 DEF vars, config, request, locals, TypeOK
<1> QED
  BY <1>1, <1>2, <1>3, <1>4, <1>5, <1>6, <1>7, <1>8, <1>9, <1>10, <1>11,
     <1>12, <1>13, <1>14, <1>15, <1>16, <1>17 DEF Next, Caller, Call

\* In every reachable state the chain builder's variables are well-typed.
THEOREM TypeCorrect == Spec => []TypeOK
BY InitTypeOK, NextTypeOK, PTL DEF Spec

-----------------------------------------------------------------------------
(* Soundness.                                                              *)

\* A certificate in a list found for a name is in the store, under that name.
LEMMA FoundIsContained ==
  ASSUME NEW store \in Store, KeyedBySubject(store), NEW n \in Name,
         NEW i \in DOMAIN FindBySubject(store, n)
  PROVE  LET c == FindBySubject(store, n)[i]
         IN  c \in Cert /\ c.subject = n /\ Contains(store, c)
BY DEF Store, KeyedBySubject, FindBySubject, Contains

\* Appending to a store keeps it keyed by subject and loses nothing.
LEMMA AppendKeepsKeys ==
  ASSUME NEW store \in Store, KeyedBySubject(store), NEW c \in Cert
  PROVE  KeyedBySubject(AppendCertificate(store, c))
BY CertAssumption DEF Store, KeyedBySubject, AppendCertificate

\* What should_skip_adding_certificate lets through.
LEMMA AddMeansChecked ==
  ASSUME NEW c, ShouldSkipAddingCertificate(c) = "Add"
  PROVE  /\ ~HasUnhandledCriticalExtensions(policy, c)
         /\ ~AlreadyInTheChain(c)
         /\ VerifySignature(crypto, Tip, c) = "Ok"
BY DEF ShouldSkipAddingCertificate

\* A linked chain extended by a checked issuer is linked.
LEMMA LinkedExtends ==
  ASSUME NEW p, NEW b, NEW l, NEW chain \in Seq(Cert), NEW c \in Cert,
         Linked(p, b, l, chain),
         Issues(p, b, c, chain[Len(chain)]),
         \A i \in DOMAIN chain : ~HasSameIdentityAs(chain[i], c)
  PROVE  Linked(p, b, l, Append(chain, c))
<1> DEFINE next == Append(chain, c)
<1>1. /\ next \in Seq(Cert) /\ Len(next) = Len(chain) + 1
      /\ next[Len(chain) + 1] = c
      /\ \A i \in 1..Len(chain) : next[i] = chain[i]
      /\ Len(chain) \in Nat
  OBVIOUS
<1>2. Len(chain) >= 1
  BY DEF Linked
<1> HIDE DEF next
<1>3. next # <<>> /\ next[1] = l
  BY <1>1, <1>2 DEF Linked
<1>4. ASSUME NEW i \in 2..Len(next)
      PROVE  Issues(p, b, next[i], next[i - 1])
  <2>1. CASE i = Len(next)
    <3>1. next[i] = c /\ next[i - 1] = chain[Len(chain)]
      BY <1>1, <1>2, <2>1
    <3> QED
      BY <3>1
  <2>2. CASE i # Len(next)
    <3>1. i \in 2..Len(chain) /\ next[i] = chain[i] /\ next[i - 1] = chain[i - 1]
      BY <1>1, <1>2, <2>2
    <3> QED
      BY <3>1 DEF Linked
  <2> QED
    BY <2>1, <2>2
<1>5. NoRepeatedIdentity(next)
  <2> SUFFICES ASSUME NEW i \in DOMAIN next, NEW j \in DOMAIN next, i # j
               PROVE  ~HasSameIdentityAs(next[i], next[j])
    BY DEF NoRepeatedIdentity
  <2>1. CASE i \in 1..Len(chain) /\ j \in 1..Len(chain)
    BY <1>1, <2>1 DEF Linked, NoRepeatedIdentity
  <2>2. CASE i \in 1..Len(chain) /\ j = Len(chain) + 1
    BY <1>1, <2>2
  <2>3. CASE i = Len(chain) + 1 /\ j \in 1..Len(chain)
    <3>1. ~HasSameIdentityAs(next[j], next[i])
      BY <1>1, <2>3
    <3> QED
      BY <3>1 DEF HasSameIdentityAs
  <2> QED
    BY <1>1, <2>1, <2>2, <2>3
<1> QED
  BY <1>3, <1>4, <1>5 DEF Linked, next

\* The candidate being considered, once it passes the checks, extends the
\* partial chain: to a candidate chain if it is a root, to a partial chain if
\* it is an intermediate.
LEMMA CandidateExtends ==
  ASSUME TypeOK, SearchInvariant, pc \in {"roots", "intermediates"},
         NEW i \in NextCandidates,
         ShouldSkipAddingCertificate(candidates[i]) = "Add"
  PROVE  LET chain == Append(partial_chain, candidates[i])
         IN  /\ chain \in Seq(Cert)
             /\ pc = "roots" => Candidate(chain)
             /\ pc = "intermediates" => Partial(chain)
<1> DEFINE c == candidates[i]
           chain == Append(partial_chain, c)
           store == IF pc = "roots" THEN roots ELSE intermediates
<1>1. /\ partial_chain \in Seq(Cert) /\ partial_chain # <<>>
      /\ Tip \in Cert
      /\ i \in DOMAIN candidates
      /\ store \in Store /\ KeyedBySubject(store)
      /\ candidates = FindBySubject(store, Tip.issuer)
  BY DEF TypeOK, SearchInvariant, Tip, NextCandidates
<1>2. c \in Cert /\ c.subject = Tip.issuer /\ Contains(store, c)
  BY <1>1, CertAssumption, FoundIsContained
<1>3. Issues(policy, crypto, c, Tip)
  BY <1>2, AddMeansChecked DEF Issues
<1>4. \A k \in DOMAIN partial_chain : ~HasSameIdentityAs(partial_chain[k], c)
  BY AddMeansChecked DEF AlreadyInTheChain
<1>5. /\ Linked(policy, crypto, leaf, partial_chain)
      /\ \A k \in 2..Len(partial_chain) : Contains(intermediates, partial_chain[k])
  BY DEF SearchInvariant, Partial, PartialChain
<1>6. Linked(policy, crypto, leaf, chain)
  BY <1>1, <1>2, <1>3, <1>4, <1>5, LinkedExtends DEF Tip
<1>7. /\ chain \in Seq(Cert) /\ Len(chain) = Len(partial_chain) + 1
      /\ chain[Len(chain)] = c
      /\ \A k \in 1..Len(partial_chain) : chain[k] = partial_chain[k]
      /\ Len(partial_chain) \in Nat
  BY <1>1, <1>2
<1> HIDE DEF chain, c
<1>8. \A k \in 2..(Len(chain) - 1) : Contains(intermediates, chain[k])
  BY <1>5, <1>7
<1>9. pc = "roots" => Candidate(chain)
  BY <1>2, <1>6, <1>7, <1>8 DEF Candidate, CandidateChain
<1>10. pc = "intermediates" => Partial(chain)
  BY <1>2, <1>5, <1>6, <1>7, <1>8 DEF Partial, PartialChain
<1> QED
  BY <1>7, <1>9, <1>10 DEF chain, c

\* An element of an extended list is the new one or an old one.
LEMMA AppendElements ==
  ASSUME NEW S, NEW s \in Seq(S), NEW e \in S, NEW k \in DOMAIN Append(s, e)
  PROVE  \/ Append(s, e)[k] = e
         \/ k \in DOMAIN s /\ Append(s, e)[k] = s[k]
OBVIOUS

LEMMA InitSearchInvariant == Init => SearchInvariant
<1>1. KeyedBySubject(New)
  BY DEF KeyedBySubject, New
<1> QED
  BY <1>1 DEF Init, SearchInvariant

\* A return forgets the search, so only the stores matter.
LEMMA ReturnSearchInvariant ==
  ASSUME SearchInvariant, NEW r, Return(r)
  PROVE  SearchInvariant'
BY DEF SearchInvariant, Return, config, KeyedBySubject

\* The chains of a search stay right as long as its inputs do not change.
LEMMA ChainsKept ==
  ASSUME UNCHANGED <<config, request>>
  PROVE  /\ LeafIsAdmissible' <=> LeafIsAdmissible
         /\ \A chain : /\ Partial(chain)' <=> Partial(chain)
                       /\ Candidate(chain)' <=> Candidate(chain)
                       /\ MeetsPolicy(chain)' <=> MeetsPolicy(chain)
BY DEF config, request, LeafIsAdmissible, Partial, Candidate, MeetsPolicy

LEMMA NextSearchInvariant ==
  TypeOK /\ SearchInvariant /\ [Next]_vars => SearchInvariant'
<1> SUFFICES ASSUME TypeOK, SearchInvariant, [Next]_vars
             PROVE  SearchInvariant'
  OBVIOUS
<1>0. Leaf \subseteq Cert /\ RootInput \subseteq Cert /\ IntermediateInput \subseteq Cert
  BY InputAssumption
<1> DEFINE Earned(fs) ==
      \A i \in DOMAIN fs : /\ fs[i].reason = "policy"
                           /\ Candidate(fs[i].chain)
                           /\ ~MeetsPolicy(fs[i].chain)
<1>1. ASSUME NEW c \in RootInput, AppendRoot(c)
      PROVE  SearchInvariant'
  <2>1. KeyedBySubject(roots')
    BY <1>0, <1>1, AppendKeepsKeys DEF AppendRoot, TypeOK, SearchInvariant
  <2> QED
    BY <1>1, <2>1 DEF AppendRoot, SearchInvariant, KeyedBySubject, locals
<1>2. ASSUME NEW c \in IntermediateInput, AppendIntermediate(c)
      PROVE  SearchInvariant'
  <2>1. KeyedBySubject(intermediates')
    BY <1>0, <1>2, AppendKeepsKeys DEF AppendIntermediate, TypeOK, SearchInvariant
  <2> QED
    BY <1>2, <2>1 DEF AppendIntermediate, SearchInvariant, KeyedBySubject, locals
<1>3. CASE WithPolicyAndBackend
  BY <1>3 DEF WithPolicyAndBackend, SearchInvariant, KeyedBySubject, config, locals
<1>4. ASSUME NEW c \in Leaf, NEW callback \in DiagnosticModes,
             Validate(c, callback)
      PROVE  SearchInvariant'
  BY <1>4 DEF Validate, SearchInvariant, KeyedBySubject, config, locals
<1>5. CASE RejectLeaf
  BY <1>5, ReturnSearchInvariant DEF RejectLeaf
<1>6. CASE AcceptTrustedLeaf
  BY <1>6, ReturnSearchInvariant DEF AcceptTrustedLeaf
<1>7. CASE BeginSearch
  <2>1. UNCHANGED <<config, request>>
    BY <1>7 DEF BeginSearch
  <2>2. Linked(policy, crypto, leaf, <<leaf>>)
    BY <1>7 DEF BeginSearch, LeafIsAdmissible, Linked, NoRepeatedIdentity
  <2>3. Partial(<<leaf>>)
    BY <2>2 DEF Partial, PartialChain
  <2>4. LeafIsTrusted => Candidate(<<leaf>>) /\ ~MeetsPolicy(<<leaf>>)
    BY <1>7, <2>2 DEF BeginSearch, LeafIsTrusted, Candidate, CandidateChain
  <2>5. Earned(policy_failures')
    BY <1>7, <2>4 DEF BeginSearch, PolicyFailure
  <2>6. \A i \in DOMAIN stack' : Partial(stack'[i])
    BY <1>7, <2>3 DEF BeginSearch
  <2>7. result = NoResult /\ result' = result /\ pc' = "search" /\ LeafIsAdmissible
    BY <1>7 DEF BeginSearch, SearchInvariant
  <2> QED
    BY <2>1, <2>5, <2>6, <2>7, ChainsKept
       DEF SearchInvariant, KeyedBySubject, config
<1>8. CASE PopPartialChain
  <2>1. /\ UNCHANGED <<config, request>> /\ UNCHANGED <<policy_failures, result>>
        /\ pc = "search" /\ pc' = "roots"
        /\ stack # <<>>
        /\ stack' = SubSeq(stack, 1, Len(stack) - 1)
        /\ partial_chain' = stack[Len(stack)]
        /\ candidates' = FindBySubject(roots, partial_chain'[Len(partial_chain')].issuer)
    BY <1>8 DEF PopPartialChain
  <2>2. stack \in Seq(Seq(Cert) \ {<<>>})
    BY DEF TypeOK
  <2>3. Len(stack) \in DOMAIN stack
    BY <2>1, <2>2
  <2>4. Partial(partial_chain')
    BY <2>1, <2>3 DEF SearchInvariant
  <2>5. \A i \in DOMAIN stack' : i \in DOMAIN stack /\ stack'[i] = stack[i]
    BY <2>1, <2>2
  <2>6. \A i \in DOMAIN stack' : Partial(stack'[i])
    BY <2>5 DEF SearchInvariant
  <2>7. Earned(policy_failures')
    BY <2>1 DEF SearchInvariant
  <2> QED
    BY <2>1, <2>4, <2>6, <2>7, ChainsKept
       DEF SearchInvariant, KeyedBySubject, config, Tip
<1>9. CASE SkipCandidate
  BY <1>9, ChainsKept
     DEF SkipCandidate, SearchInvariant, KeyedBySubject, config, Tip
<1>10. CASE BackendPanics
  BY <1>10, ReturnSearchInvariant DEF BackendPanics
<1>11. CASE AcceptChain
  BY <1>11, ReturnSearchInvariant DEF AcceptChain
<1>12. CASE RejectChain
  <2>1. PICK i \in NextCandidates :
          LET chain == Append(partial_chain, candidates[i])
          IN  /\ ShouldSkipAddingCertificate(candidates[i]) = "Add"
              /\ ~MeetsPolicy(chain)
              /\ policy_failures' =
                   Append(policy_failures, PolicyFailure(chain, "policy"))
    BY <1>12 DEF RejectChain
  <2>2. /\ UNCHANGED <<config, request>>
        /\ UNCHANGED <<pc, stack, partial_chain, candidates, result>>
        /\ pc = "roots"
    BY <1>12 DEF RejectChain
  <2>3. Candidate(Append(partial_chain, candidates[i]))
    BY <2>1, <2>2, CandidateExtends
  <2> DEFINE failure == PolicyFailure(Append(partial_chain, candidates[i]), "policy")
  <2>4. Earned(policy_failures')
    <3>1. /\ failure.reason = "policy"
          /\ Candidate(failure.chain) /\ ~MeetsPolicy(failure.chain)
      BY <2>1, <2>3 DEF PolicyFailure
    <3>2. Earned(policy_failures)
      BY DEF SearchInvariant
    <3> DEFINE Failure == [chain : Seq(Cert), reason : {"critical", "policy"}]
    <3>3. policy_failures \in Seq(Failure) /\ failure \in Failure
      BY <2>1, <2>2, CandidateExtends DEF PolicyFailure, TypeOK, Failures
    <3>4. policy_failures' = Append(policy_failures, failure)
      BY <2>1
    <3> HIDE DEF failure, Failure
    <3>5. \A k \in DOMAIN policy_failures' :
            \/ policy_failures'[k] = failure
            \/ /\ k \in DOMAIN policy_failures
               /\ policy_failures'[k] = policy_failures[k]
      BY <3>3, <3>4, AppendElements
    <3> QED
      BY <3>1, <3>2, <3>5
  <2> QED
    BY <2>2, <2>4, ChainsKept
       DEF SearchInvariant, KeyedBySubject, config, Tip
<1>13. CASE FindIntermediates
  BY <1>13, ChainsKept
     DEF FindIntermediates, SearchInvariant, KeyedBySubject, config, Tip
<1>14. CASE PushIntermediate
  <2>1. PICK i \in NextCandidates :
          /\ ShouldSkipAddingCertificate(candidates[i]) = "Add"
          /\ stack' = Append(stack, Append(partial_chain, candidates[i]))
    BY <1>14 DEF PushIntermediate
  <2>2. /\ UNCHANGED <<config, request>>
        /\ UNCHANGED <<pc, policy_failures, partial_chain, candidates, result>>
        /\ pc = "intermediates"
    BY <1>14 DEF PushIntermediate
  <2>3. Partial(Append(partial_chain, candidates[i]))
    BY <2>1, <2>2, CandidateExtends
  <2>4. \A k \in DOMAIN stack' : Partial(stack'[k])
    <3>1. stack \in Seq(Seq(Cert) \ {<<>>})
      BY DEF TypeOK
    <3> QED
      BY <2>1, <2>3, <3>1 DEF SearchInvariant
  <2> QED
    BY <2>2, <2>4, ChainsKept
       DEF SearchInvariant, KeyedBySubject, config, Tip
<1>15. CASE FinishPartialChain
  BY <1>15, ChainsKept
     DEF FinishPartialChain, SearchInvariant, KeyedBySubject, config
<1>16. CASE GiveUp
  BY <1>16, ReturnSearchInvariant DEF GiveUp
<1>17. CASE UNCHANGED vars
  BY <1>17, ChainsKept
     DEF vars, locals, SearchInvariant, KeyedBySubject, config, Tip
<1> QED
  BY <1>1, <1>2, <1>3, <1>4, <1>5, <1>6, <1>7, <1>8, <1>9, <1>10, <1>11,
     <1>12, <1>13, <1>14, <1>15, <1>16, <1>17 DEF Next, Caller, Call

\* A step leaves no result, or is one of the five that return: everything that
\* is claimed of results need only be shown of those.
LEMMA ResultSteps ==
  ASSUME TypeOK, SearchInvariant, [Next]_vars
  PROVE  \/ result'.tag = "None"
         \/ RejectLeaf \/ AcceptTrustedLeaf \/ BackendPanics
         \/ AcceptChain \/ GiveUp
         \/ UNCHANGED vars
<1>1. NoResult.tag = "None"
  BY DEF NoResult
<1>2. pc # "idle" => result.tag = "None"
  BY <1>1 DEF SearchInvariant
<1>3. ASSUME NEW c \in RootInput, AppendRoot(c)
      PROVE  result'.tag = "None"
  BY <1>2, <1>3 DEF AppendRoot
<1>4. ASSUME NEW c \in IntermediateInput, AppendIntermediate(c)
      PROVE  result'.tag = "None"
  BY <1>1, <1>4 DEF AppendIntermediate
<1>5. WithPolicyAndBackend => result'.tag = "None"
  BY <1>2 DEF WithPolicyAndBackend
<1>6. ASSUME NEW c \in Leaf, NEW callback \in DiagnosticModes,
             Validate(c, callback)
      PROVE  result'.tag = "None"
  BY <1>1, <1>6 DEF Validate
<1>7. BeginSearch \/ PopPartialChain \/ SkipCandidate \/ RejectChain
        \/ FindIntermediates \/ PushIntermediate \/ FinishPartialChain
        => result'.tag = "None"
  BY <1>2 DEF BeginSearch, PopPartialChain, SkipCandidate, RejectChain,
              FindIntermediates, PushIntermediate, FinishPartialChain
<1> QED
  BY <1>3, <1>4, <1>5, <1>6, <1>7 DEF Next, Caller, Call

LEMMA NextSound ==
  ASSUME TypeOK, SearchInvariant, [Next]_vars, Sound
  PROVE  Sound'
<1>1. CASE result'.tag = "None"
  BY <1>1 DEF Sound
<1>2. CASE RejectLeaf
  BY <1>2 DEF RejectLeaf, Return, Err, Sound
<1>3. CASE AcceptTrustedLeaf
  <2>1. result' = Ok(<<leaf>>) /\ UNCHANGED <<config, request>>
    BY <1>3 DEF AcceptTrustedLeaf, Return
  <2>2. Linked(policy, crypto, leaf, <<leaf>>)
    BY <1>3 DEF AcceptTrustedLeaf, LeafIsAdmissible, Linked, NoRepeatedIdentity
  <2>3. Candidate(<<leaf>>) /\ MeetsPolicy(<<leaf>>)
    BY <1>3, <2>2
       DEF AcceptTrustedLeaf, LeafIsTrusted, Candidate, CandidateChain
  <2>4. result'.chain = <<leaf>>
    BY <2>1 DEF Ok
  <2> QED
    BY <2>1, <2>3, <2>4, ChainsKept DEF Sound
<1>4. CASE BackendPanics
  BY <1>4 DEF BackendPanics, Return, Panic, Sound
<1>5. CASE AcceptChain
  <2>1. PICK i \in NextCandidates :
          LET chain == Append(partial_chain, candidates[i])
          IN  /\ ShouldSkipAddingCertificate(candidates[i]) = "Add"
              /\ MeetsPolicy(chain)
              /\ Return(Ok(chain))
    BY <1>5 DEF AcceptChain
  <2> DEFINE chain == Append(partial_chain, candidates[i])
  <2>2. Candidate(chain) /\ MeetsPolicy(chain)
    BY <1>5, <2>1, CandidateExtends DEF AcceptChain
  <2>3. result'.chain = chain /\ UNCHANGED <<config, request>>
    BY <2>1 DEF Return, Ok
  <2> QED
    BY <2>2, <2>3, ChainsKept DEF Sound
<1>6. CASE GiveUp
  BY <1>6 DEF GiveUp, Return, Err, Sound
<1>7. CASE UNCHANGED vars
  BY <1>7, ChainsKept DEF vars, Sound
<1> QED
  BY <1>1, <1>2, <1>3, <1>4, <1>5, <1>6, <1>7, ResultSteps

LEMMA NextRejectionsJustified ==
  ASSUME TypeOK, SearchInvariant, [Next]_vars, RejectionsJustified
  PROVE  RejectionsJustified'
<1>1. CASE result'.tag = "None"
  BY <1>1 DEF RejectionsJustified
<1>2. CASE RejectLeaf
  <2>1. /\ result'.failures = <<PolicyFailure(<<leaf>>, "critical")>>
        /\ UNCHANGED <<config, request>>
        /\ ~LeafIsAdmissible
    BY <1>2 DEF RejectLeaf, Return, Err
  <2>2. leaf' = leaf
    BY <2>1 DEF request
  <2> QED
    BY <2>1, <2>2, ChainsKept DEF RejectionsJustified, PolicyFailure
<1>3. CASE AcceptTrustedLeaf
  BY <1>3 DEF AcceptTrustedLeaf, Return, Ok, RejectionsJustified
<1>4. CASE BackendPanics
  BY <1>4 DEF BackendPanics, Return, Panic, RejectionsJustified
<1>5. CASE AcceptChain
  BY <1>5 DEF AcceptChain, Return, Ok, RejectionsJustified
<1>6. CASE GiveUp
  <2>1. /\ result'.failures = policy_failures
        /\ UNCHANGED <<config, request>>
        /\ pc = "search"
    BY <1>6 DEF GiveUp, Return, Err
  <2>2. LeafIsAdmissible
    BY <2>1 DEF SearchInvariant
  <2> QED
    BY <2>1, <2>2, ChainsKept DEF SearchInvariant, RejectionsJustified
<1>7. CASE UNCHANGED vars
  <2>1. UNCHANGED <<config, request>> /\ result' = result
    BY <1>7 DEF vars
  <2>2. leaf' = leaf
    BY <2>1 DEF request
  <2> QED
    BY <2>1, <2>2, ChainsKept DEF RejectionsJustified, PolicyFailure
<1> QED
  BY <1>1, <1>2, <1>3, <1>4, <1>5, <1>6, <1>7, ResultSteps

\* The invariant of the search holds throughout.
THEOREM SearchInvariantHolds == Spec => [](TypeOK /\ SearchInvariant)
BY InitTypeOK, NextTypeOK, InitSearchInvariant, NextSearchInvariant, PTL DEF Spec

\* Whatever validate returns as a chain is one, and the policy accepts it.
THEOREM Soundness == Spec => []Sound
<1>1. Init => Sound
  BY DEF Init, Sound, NoResult
<1>2. TypeOK /\ SearchInvariant /\ Sound /\ [Next]_vars => Sound'
  BY NextSound
<1> QED
  BY <1>1, <1>2, SearchInvariantHolds, PTL DEF Spec

\* Every entry of an error is a chain that was built and rejected.
THEOREM Justification == Spec => []RejectionsJustified
<1>1. Init => RejectionsJustified
  BY DEF Init, RejectionsJustified, NoResult
<1>2. TypeOK /\ SearchInvariant /\ RejectionsJustified /\ [Next]_vars
        => RejectionsJustified'
  BY NextRejectionsJustified
<1> QED
  BY <1>1, <1>2, SearchInvariantHolds, PTL DEF Spec

-----------------------------------------------------------------------------
(* Completeness.                                                           *)

\* The certificate with which a candidate chain goes on from a prefix of it:
\* one offered for the prefix, and one that passes the checks.
LEMMA NextLink ==
  ASSUME NEW chain \in Seq(Cert), Candidate(chain),
         NEW prefix \in Seq(Cert) \ {<<>>}, Extends(chain, prefix)
  PROVE  LET n == Len(prefix) + 1
             c == chain[n]
             below == prefix[Len(prefix)]
         IN  /\ n \in 1..Len(chain)
             /\ c \in Cert /\ below \in Cert
             /\ c.subject = below.issuer
             /\ Issues(policy, crypto, c, below)
             /\ \A i \in DOMAIN prefix : ~HasSameIdentityAs(prefix[i], c)
             /\ n = Len(chain) => Contains(roots, c)
             /\ n < Len(chain) => Contains(intermediates, c)
<1> DEFINE n == Len(prefix) + 1
           c == chain[n]
           below == prefix[Len(prefix)]
<1>1. Len(prefix) \in Nat /\ Len(prefix) >= 1 /\ Len(chain) \in Nat
  OBVIOUS
<1>2. n \in 2..Len(chain) /\ n - 1 = Len(prefix)
  BY <1>1 DEF Extends
<1>3. c \in Cert /\ below \in Cert /\ below = chain[n - 1]
  BY <1>1, <1>2 DEF Extends
<1>4. Linked(policy, crypto, leaf, chain)
  BY DEF Candidate, CandidateChain
<1>5. Issues(policy, crypto, c, below)
  BY <1>2, <1>3, <1>4 DEF Linked
<1>6. ASSUME NEW i \in DOMAIN prefix
      PROVE  ~HasSameIdentityAs(prefix[i], c)
  <2>1. i \in DOMAIN chain /\ n \in DOMAIN chain /\ i # n /\ prefix[i] = chain[i]
    BY <1>1, <1>2 DEF Extends
  <2> QED
    BY <1>4, <2>1 DEF Linked, NoRepeatedIdentity
<1>7. n = Len(chain) => Contains(roots, c)
  BY DEF Candidate, CandidateChain
<1>8. n < Len(chain) => Contains(intermediates, c)
  BY <1>1, <1>2 DEF Candidate, CandidateChain
<1> QED
  BY <1>2, <1>3, <1>5, <1>6, <1>7, <1>8 DEF Issues

\* So such a certificate is never skipped.
LEMMA NextLinkIsAdded ==
  ASSUME TypeOK, pc \in {"roots", "intermediates"},
         NEW chain \in Seq(Cert), Candidate(chain),
         Extends(chain, partial_chain)
  PROVE  ShouldSkipAddingCertificate(chain[Len(partial_chain) + 1]) = "Add"
<1> DEFINE c == chain[Len(partial_chain) + 1]
<1>1. partial_chain \in Seq(Cert) \ {<<>>}
  BY DEF TypeOK
<1>2. Issues(policy, crypto, c, Tip)
  BY <1>1, NextLink DEF Tip
<1>3. ~AlreadyInTheChain(c)
  BY <1>1, NextLink DEF AlreadyInTheChain
<1> QED
  BY <1>2, <1>3 DEF Issues, ShouldSkipAddingCertificate

\* A candidate chain one longer than the prefix is the prefix and its last
\* certificate.
LEMMA ExtendsByOne ==
  ASSUME NEW chain \in Seq(Cert), NEW prefix \in Seq(Cert),
         Extends(chain, prefix), Len(chain) = Len(prefix) + 1
  PROVE  chain = Append(prefix, chain[Len(chain)])
BY DEF Extends

LEMMA ExtendsOneMore ==
  ASSUME NEW chain \in Seq(Cert), NEW prefix \in Seq(Cert),
         Extends(chain, prefix), Len(chain) > Len(prefix) + 1
  PROVE  Extends(chain, Append(prefix, chain[Len(prefix) + 1]))
BY DEF Extends

Recorded(chain) ==
  \E i \in DOMAIN policy_failures : policy_failures[i].chain = chain

LEMMA NextCoverage ==
  ASSUME TypeOK, SearchInvariant, CoverageInvariant, [Next]_vars
  PROVE  CoverageInvariant'
<1> SUFFICES ASSUME pc' \in {"search", "roots", "intermediates"},
                    NEW chain \in Chains, Candidate(chain)'
             PROVE  Recorded(chain)' \/ Pending(chain)'
  BY DEF CoverageInvariant, Recorded
<1>0. chain \in Seq(Cert)
  BY InputAssumption
<1>a. /\ stack \in Seq(Seq(Cert) \ {<<>>})
      /\ policy_failures \in Failures
      /\ partial_chain \in Seq(Cert)
  BY DEF TypeOK
<1>b. ASSUME UNCHANGED <<config, request>>
      PROVE  Candidate(chain)
  BY <1>b, ChainsKept
<1>c. pc \in {"search", "roots", "intermediates"} /\ Candidate(chain)
        => Recorded(chain) \/ Pending(chain)
  BY DEF CoverageInvariant, Recorded
<1>1. CASE BeginSearch
  <2>1. Candidate(chain)
    BY <1>1, <1>b DEF BeginSearch
  <2>2. chain # <<>> /\ chain[1] = leaf
    BY <2>1 DEF Candidate, CandidateChain, Linked
  <2>3. CASE Len(chain) = 1
    <3>1. chain = <<leaf>>
      BY <1>0, <2>2, <2>3
    <3>2. LeafIsTrusted
      BY <2>1, <2>3, <3>1 DEF Candidate, CandidateChain, LeafIsTrusted
    <3>3. policy_failures' = <<PolicyFailure(<<leaf>>, "policy")>>
      BY <1>1, <3>2 DEF BeginSearch
    <3> QED
      BY <3>1, <3>3 DEF Recorded, PolicyFailure
  <2>4. CASE Len(chain) # 1
    <3>1. Extends(chain, <<leaf>>)
      BY <1>0, <2>2, <2>4 DEF Extends
    <3>2. stack' = <<<<leaf>>>>
      BY <1>1 DEF BeginSearch
    <3> QED
      BY <3>1, <3>2 DEF Pending
  <2> QED
    BY <2>3, <2>4
<1>2. CASE PopPartialChain
  <2> DEFINE top == stack[Len(stack)]
             found == FindBySubject(roots, top[Len(top)].issuer)
  <2>1. /\ UNCHANGED <<config, request>> /\ policy_failures' = policy_failures
        /\ pc = "search" /\ pc' = "roots"
        /\ stack # <<>>
        /\ stack' = SubSeq(stack, 1, Len(stack) - 1)
        /\ partial_chain' = top
        /\ candidates' = found
        /\ todo' = DOMAIN found
    BY <1>2 DEF PopPartialChain
  <2>2. Candidate(chain)
    BY <2>1, <1>b
  <2>3. CASE Recorded(chain)
    BY <2>1, <2>3 DEF Recorded
  <2>4. CASE ~Recorded(chain)
    <3>1. PICK i \in DOMAIN stack : Extends(chain, stack[i])
      BY <1>c, <2>1, <2>2, <2>4 DEF Pending
    <3>2. CASE i # Len(stack)
      <4>1. i \in DOMAIN stack' /\ stack'[i] = stack[i]
        BY <1>a, <2>1, <3>2
      <4> QED
        BY <3>1, <4>1 DEF Pending
    <3>3. CASE i = Len(stack)
      <4>1. top \in Seq(Cert) \ {<<>>} /\ Extends(chain, top)
        BY <1>a, <3>1, <3>3
      <4>2. ASSUME Len(chain) = Len(top) + 1
            PROVE  \E j \in DOMAIN found : found[j] = chain[Len(chain)]
        <5>1. /\ chain[Len(chain)].subject = top[Len(top)].issuer
              /\ Contains(roots, chain[Len(chain)])
          BY <1>0, <2>2, <4>1, <4>2, NextLink
        <5> QED
          BY <5>1 DEF Contains
      <4> QED
        BY <2>1, <4>1, <4>2 DEF Pending
    <3> QED
      BY <3>2, <3>3
  <2> QED
    BY <2>3, <2>4
<1>3. CASE SkipCandidate
  <2>1. /\ UNCHANGED <<config, request>>
        /\ UNCHANGED <<pc, policy_failures, stack, partial_chain, candidates>>
        /\ pc \in {"roots", "intermediates"}
    BY <1>3 DEF SkipCandidate
  <2>2. PICK i \in NextCandidates :
          /\ ShouldSkipAddingCertificate(candidates[i]) # "Add"
          /\ todo' = todo \ {i}
    BY <1>3 DEF SkipCandidate
  <2>3. Candidate(chain)
    BY <2>1, <1>b
  <2>4. ASSUME Extends(chain, partial_chain)
        PROVE  \A j \in todo : candidates[j] = chain[Len(partial_chain) + 1]
                 => j \in todo'
    <3>1. ShouldSkipAddingCertificate(chain[Len(partial_chain) + 1]) = "Add"
      BY <1>0, <2>1, <2>3, <2>4, NextLinkIsAdded
    <3> QED
      BY <2>2, <3>1
  <2> QED
    BY <1>c, <2>1, <2>3, <2>4 DEF Recorded, Pending
<1>4. CASE RejectChain
  <2>1. /\ UNCHANGED <<config, request>>
        /\ UNCHANGED <<pc, stack, partial_chain, candidates>>
        /\ pc = "roots"
    BY <1>4 DEF RejectChain
  <2>2. PICK i \in NextCandidates :
          /\ todo' = todo \ {i}
          /\ policy_failures' =
               Append(policy_failures,
                      PolicyFailure(Append(partial_chain, candidates[i]), "policy"))
    BY <1>4 DEF RejectChain
  <2>3. Candidate(chain)
    BY <2>1, <1>b
  <2>4. Recorded(chain) => Recorded(chain)'
    <3>1. \A k \in DOMAIN policy_failures :
            k \in DOMAIN policy_failures' /\ policy_failures'[k] = policy_failures[k]
      BY <1>a, <2>2 DEF Failures
    <3> QED
      BY <3>1 DEF Recorded
  <2>5. chain = Append(partial_chain, candidates[i]) => Recorded(chain)'
    <3>1. /\ Len(policy_failures) + 1 \in DOMAIN policy_failures'
          /\ policy_failures'[Len(policy_failures) + 1] =
               PolicyFailure(Append(partial_chain, candidates[i]), "policy")
      BY <1>a, <2>2 DEF Failures
    <3> QED
      BY <3>1 DEF Recorded, PolicyFailure
  <2>6. CASE Pending(chain)
    <3>1. CASE \E j \in DOMAIN stack : Extends(chain, stack[j])
      BY <2>1, <3>1 DEF Pending
    <3>2. CASE /\ Extends(chain, partial_chain)
               /\ Len(chain) = Len(partial_chain) + 1
               /\ candidates[i] = chain[Len(chain)]
      BY <1>0, <1>a, <2>5, <3>2, ExtendsByOne
    <3>3. CASE /\ Extends(chain, partial_chain)
               /\ Len(chain) = Len(partial_chain) + 1
                    => /\ \E j \in todo : candidates[j] = chain[Len(chain)]
                       /\ candidates[i] # chain[Len(chain)]
      BY <2>1, <2>2, <3>3 DEF Pending
    <3> QED
      BY <2>1, <2>6, <3>1, <3>2, <3>3 DEF Pending
  <2> QED
    BY <1>c, <2>1, <2>3, <2>4, <2>6
<1>5. CASE FindIntermediates
  <2> DEFINE found == FindBySubject(intermediates, Tip.issuer)
  <2>1. /\ UNCHANGED <<config, request>>
        /\ UNCHANGED <<policy_failures, stack, partial_chain>>
        /\ pc = "roots" /\ todo = {} /\ pc' = "intermediates"
        /\ candidates' = found
        /\ todo' = DOMAIN found
    BY <1>5 DEF FindIntermediates
  <2>2. Candidate(chain)
    BY <2>1, <1>b
  <2>3. CASE Recorded(chain)
    BY <2>1, <2>3 DEF Recorded
  <2>4. CASE \E j \in DOMAIN stack : Extends(chain, stack[j])
    BY <2>1, <2>4 DEF Pending
  <2>5. CASE Extends(chain, partial_chain) /\ Len(chain) # Len(partial_chain) + 1
    <3>1. Len(chain) > Len(partial_chain) + 1
      BY <1>0, <1>a, <2>5 DEF Extends
    <3>2. partial_chain \in Seq(Cert) \ {<<>>}
      BY <2>1 DEF TypeOK
    <3>3. /\ chain[Len(partial_chain) + 1].subject = Tip.issuer
          /\ Contains(intermediates, chain[Len(partial_chain) + 1])
      BY <1>0, <2>2, <2>5, <3>1, <3>2, NextLink DEF Tip
    <3>4. \E j \in DOMAIN found : found[j] = chain[Len(partial_chain) + 1]
      BY <3>3 DEF Contains
    <3> QED
      BY <2>1, <2>5, <3>1, <3>4 DEF Pending
  <2> QED
    BY <1>c, <2>1, <2>2, <2>3, <2>4, <2>5 DEF Pending
<1>6. CASE PushIntermediate
  <2>1. /\ UNCHANGED <<config, request>>
        /\ UNCHANGED <<pc, policy_failures, partial_chain, candidates>>
        /\ pc = "intermediates"
    BY <1>6 DEF PushIntermediate
  <2>2. PICK i \in NextCandidates :
          /\ todo' = todo \ {i}
          /\ stack' = Append(stack, Append(partial_chain, candidates[i]))
    BY <1>6 DEF PushIntermediate
  <2>3. Candidate(chain)
    BY <2>1, <1>b
  <2>4. CASE Recorded(chain)
    BY <2>1, <2>4 DEF Recorded
  <2>5. CASE \E j \in DOMAIN stack : Extends(chain, stack[j])
    <3>1. PICK j \in DOMAIN stack : Extends(chain, stack[j])
      BY <2>5
    <3>2. j \in DOMAIN stack' /\ stack'[j] = stack[j]
      <4>1. candidates[i] \in Cert
        BY DEF NextCandidates, TypeOK
      <4>2. Append(partial_chain, candidates[i]) \in Seq(Cert) \ {<<>>}
        BY <1>a, <4>1
      <4> QED
        BY <1>a, <2>2, <4>2
    <3> QED
      BY <3>1, <3>2 DEF Pending
  <2>6. CASE /\ Extends(chain, partial_chain)
             /\ Len(chain) > Len(partial_chain) + 1
             /\ candidates[i] = chain[Len(partial_chain) + 1]
    <3>1. Extends(chain, Append(partial_chain, candidates[i]))
      BY <1>0, <1>a, <2>6, ExtendsOneMore
    <3>2. /\ Len(stack) + 1 \in DOMAIN stack'
          /\ stack'[Len(stack) + 1] = Append(partial_chain, candidates[i])
      BY <1>a, <2>2
    <3> QED
      BY <3>1, <3>2 DEF Pending
  <2>7. CASE /\ Extends(chain, partial_chain)
             /\ Len(chain) > Len(partial_chain) + 1
             /\ \E j \in todo : candidates[j] = chain[Len(partial_chain) + 1]
             /\ candidates[i] # chain[Len(partial_chain) + 1]
    BY <2>1, <2>2, <2>7 DEF Pending
  <2> QED
    BY <1>c, <2>1, <2>3, <2>4, <2>5, <2>6, <2>7 DEF Pending
<1>7. CASE FinishPartialChain
  <2>1. /\ UNCHANGED <<config, request>>
        /\ UNCHANGED <<policy_failures, stack>>
        /\ pc = "intermediates" /\ todo = {}
    BY <1>7 DEF FinishPartialChain
  <2> QED
    BY <1>b, <1>c, <2>1 DEF Recorded, Pending
<1>8. CASE UNCHANGED vars
  <2>1. /\ UNCHANGED <<config, request>>
        /\ UNCHANGED <<pc, policy_failures, stack, partial_chain, candidates, todo>>
    BY <1>8 DEF vars, locals
  <2> QED
    BY <1>b, <1>c, <2>1 DEF Recorded, Pending
<1>9. CASE RejectLeaf \/ AcceptTrustedLeaf \/ BackendPanics \/ AcceptChain \/ GiveUp
  BY <1>9 DEF RejectLeaf, AcceptTrustedLeaf, BackendPanics, AcceptChain,
              GiveUp, Return
<1>10. CASE Caller
  BY <1>10 DEF Caller, AppendRoot, AppendIntermediate, WithPolicyAndBackend,
               Validate
<1> QED
  BY <1>1, <1>2, <1>3, <1>4, <1>5, <1>6, <1>7, <1>8, <1>9, <1>10
     DEF Next, Call

\* What the search gives up with is everything there was.
LEMMA NextComplete ==
  ASSUME TypeOK, SearchInvariant, CoverageInvariant, [Next]_vars, Complete
  PROVE  Complete'
<1>1. CASE result'.tag = "None"
  BY <1>1 DEF Complete
<1>2. CASE RejectLeaf
  <2>1. /\ UNCHANGED <<config, request>>
        /\ HasUnhandledCriticalExtensions(policy, leaf)
    BY <1>2 DEF RejectLeaf, Return, LeafIsAdmissible
  <2>2. \A chain \in Chains : ~Candidate(chain)
    BY <2>1 DEF Candidate, CandidateChain, Linked
  <2> QED
    BY <2>1, <2>2, ChainsKept DEF Complete
<1>3. CASE AcceptTrustedLeaf
  BY <1>3 DEF AcceptTrustedLeaf, Return, Ok, Complete
<1>4. CASE BackendPanics
  BY <1>4 DEF BackendPanics, Return, Panic, Complete
<1>5. CASE AcceptChain
  BY <1>5 DEF AcceptChain, Return, Ok, Complete
<1>6. CASE GiveUp
  <2>1. result'.failures = policy_failures /\ UNCHANGED <<config, request>>
    BY <1>6 DEF GiveUp, Return, Err
  <2>2. pc = "search" /\ stack = <<>>
    BY <1>6 DEF GiveUp
  <2>3. ASSUME NEW chain \in Chains, Candidate(chain)
        PROVE  Recorded(chain)
    <3>1. ~Pending(chain)
      BY <2>2 DEF Pending
    <3> QED
      BY <2>2, <2>3, <3>1 DEF CoverageInvariant, Recorded
  <2>4. \A chain \in Chains : Recorded(chain) => ~MeetsPolicy(chain)
    BY DEF SearchInvariant, Recorded
  <2> QED
    BY <2>1, <2>3, <2>4, ChainsKept DEF Complete, Recorded
<1>7. CASE UNCHANGED vars
  BY <1>7, ChainsKept DEF vars, Complete
<1> QED
  BY <1>1, <1>2, <1>3, <1>4, <1>5, <1>6, <1>7, ResultSteps

\* No chain from the leaf to a root escapes the search.
THEOREM Coverage == Spec => []CoverageInvariant
<1>1. Init => CoverageInvariant
  BY DEF Init, CoverageInvariant
<1>2. TypeOK /\ SearchInvariant /\ CoverageInvariant /\ [Next]_vars
        => CoverageInvariant'
  BY NextCoverage
<1> QED
  BY <1>1, <1>2, SearchInvariantHolds, PTL DEF Spec

\* validate fails only if the policy rejects every chain there is, and then
\* its error names all of them.
THEOREM Completeness == Spec => []Complete
<1>1. Init => Complete
  BY DEF Init, Complete, NoResult
<1>2. TypeOK /\ SearchInvariant /\ CoverageInvariant /\ Complete /\ [Next]_vars
        => Complete'
  BY NextComplete
<1> QED
  BY <1>1, <1>2, SearchInvariantHolds, Coverage, PTL DEF Spec

-----------------------------------------------------------------------------
(* The search implements the service.                                      *)

\* The service's own copies of the definitions of a chain say the same.
LEMMA ServiceStore ==
  /\ Service!New = New
  /\ \A store, c : Service!AppendCertificate(store, c) = AppendCertificate(store, c)
  /\ \A store, n : Service!FindBySubject(store, n) = FindBySubject(store, n)
  /\ \A store, c : Service!Contains(store, c) <=> Contains(store, c)
BY DEF Service!New, New, Service!AppendCertificate, AppendCertificate,
       Service!FindBySubject, FindBySubject, Service!Contains, Contains

LEMMA ServiceChain ==
  /\ \A p, c : Service!HasUnhandledCriticalExtensions(p, c)
                 <=> HasUnhandledCriticalExtensions(p, c)
  /\ \A chain : Service!Candidate(chain) <=> Candidate(chain)
  /\ \A chain : Service!Acceptable(chain)
                  <=> Candidate(chain) /\ MeetsPolicy(chain)
<1>1. \A p, c : Service!HasUnhandledCriticalExtensions(p, c)
                 <=> HasUnhandledCriticalExtensions(p, c)
  BY DEF Service!HasUnhandledCriticalExtensions, HasUnhandledCriticalExtensions
<1>2. \A c, d : Service!HasSameIdentityAs(c, d) <=> HasSameIdentityAs(c, d)
  BY DEF Service!HasSameIdentityAs, HasSameIdentityAs,
         Service!SubjectAlternativeNames, SubjectAlternativeNames
<1>3. \A p, b, c, d : Service!Issues(p, b, c, d) <=> Issues(p, b, c, d)
  BY <1>1 DEF Service!Issues, Issues
<1>4. \A p, b, l, chain : Service!Linked(p, b, l, chain) <=> Linked(p, b, l, chain)
  BY <1>1, <1>2, <1>3
     DEF Service!Linked, Linked, Service!NoRepeatedIdentity, NoRepeatedIdentity
<1>5. \A chain : Service!Candidate(chain) <=> Candidate(chain)
  BY <1>4, ServiceStore
     DEF Service!Candidate, Candidate, Service!CandidateChain, CandidateChain
<1> QED
  BY <1>1, <1>5 DEF Service!Acceptable, MeetsPolicy

\* A return is an answer of the service, given what is known of results.
LEMMA ReturnAnswers ==
  ASSUME TypeOK, ServiceStatus = "busy", NEW r, Return(r),
         r.tag \in {"Ok", "Err", "Panic"},
         r.tag = "Panic" =>
           r = Panic /\ \E c, d \in Cert : VerifySignature(crypto, c, d) = "panic",
         Sound', Complete', RejectionsJustified'
  PROVE  Service!Answer
<1>1. /\ UNCHANGED <<config, request>> /\ result' = r /\ pc' = "idle"
      /\ UNCHANGED <<roots, intermediates, policy, crypto, leaf>>
  BY DEF Return, config, request
<1>2. ServiceStatus' = "idle"
  BY <1>1 DEF ServiceStatus
<1>3. CASE r.tag = "Ok"
  <2>1. ServiceAnswer' = r
    BY <1>1, <1>3 DEF ServiceAnswer
  <2>2. Candidate(r.chain) /\ MeetsPolicy(r.chain)
    BY <1>1, <1>3, ChainsKept DEF Sound
  <2> QED
    BY <1>1, <1>2, <1>3, <2>1, <2>2, ServiceChain DEF Service!Answer
<1>4. CASE r.tag = "Err"
  <2> DEFINE rejected == {r.failures[i].chain : i \in DOMAIN r.failures}
  <2>1. ServiceAnswer' = [tag |-> "Err", rejected |-> rejected]
    BY <1>1, <1>4 DEF ServiceAnswer
  <2>2. \A chain \in Chains : Candidate(chain) =>
          ~MeetsPolicy(chain) /\ chain \in rejected
    BY <1>1, <1>4, ChainsKept DEF Complete
  <2>4. CASE ~HasUnhandledCriticalExtensions(policy, leaf)
    <3>1. \A chain \in rejected : Candidate(chain)
      BY <1>1, <1>4, <2>4, ChainsKept DEF RejectionsJustified, LeafIsAdmissible
    <3>2. Service!Rejected(rejected)
      BY <2>2, <2>4, <3>1, ServiceChain DEF Service!Rejected
    <3> QED
      BY <1>1, <1>2, <2>1, <2>2, <3>2, ServiceChain DEF Service!Answer
  <2>5. CASE HasUnhandledCriticalExtensions(policy, leaf)
    <3>1. \A chain : ~Candidate(chain)
      BY <2>5 DEF Candidate, CandidateChain, Linked
    <3>2. r.failures = <<PolicyFailure(<<leaf>>, "critical")>>
      BY <1>1, <1>4, <2>5 DEF RejectionsJustified, LeafIsAdmissible, PolicyFailure
    <3>3. rejected = {<<leaf>>}
      BY <3>2 DEF PolicyFailure
    <3>4. Service!Rejected(rejected)
      BY <2>5, <3>3, ServiceChain DEF Service!Rejected
    <3> QED
      BY <1>1, <1>2, <2>1, <3>1, <3>4, ServiceChain DEF Service!Answer
  <2> QED
    BY <2>4, <2>5
<1>5. CASE r.tag = "Panic"
  <2>1. ServiceAnswer' = r
    BY <1>1, <1>5 DEF ServiceAnswer
  <2> QED
    BY <1>1, <1>2, <1>5, <2>1 DEF Service!Answer
<1> QED
  BY <1>3, <1>4, <1>5

\* Every step of the search is a step of the service or invisible to it.
LEMMA StepRefines ==
  ASSUME TypeOK, SearchInvariant, [Next]_vars,
         Sound', Complete', RejectionsJustified'
  PROVE  [Service!Next]_(Service!serviceVars)
<1>0. NoResult.tag # "Err" /\ (pc # "idle" => result = NoResult)
  BY DEF NoResult, SearchInvariant
<1>1. ASSUME NEW c \in RootInput, AppendRoot(c)
      PROVE  Service!Next
  <2>1. ServiceStatus = "configuring" /\ UNCHANGED <<ServiceStatus, ServiceAnswer>>
    BY <1>1 DEF AppendRoot, ServiceStatus, ServiceAnswer
  <2>2. Service!Trust(c)
    BY <1>1, <2>1, ServiceStore DEF AppendRoot, Service!Trust, request
  <2> QED
    BY <2>2 DEF Service!Next
<1>2. ASSUME NEW c \in IntermediateInput, AppendIntermediate(c)
      PROVE  Service!Next
  <2>1. /\ ServiceStatus = "idle" /\ ServiceStatus' = "idle"
        /\ ServiceAnswer' = NoResult
    BY <1>0, <1>2 DEF AppendIntermediate, ServiceStatus, ServiceAnswer
  <2>2. Service!Supply(c)
    BY <1>2, <2>1, ServiceStore
       DEF AppendIntermediate, Service!Supply, Service!NoAnswer, NoResult, request
  <2> QED
    BY <2>2 DEF Service!Next
<1>3. CASE WithPolicyAndBackend
  <2>1. /\ ServiceStatus = "configuring" /\ ServiceStatus' = "idle"
        /\ UNCHANGED ServiceAnswer
    BY <1>3 DEF WithPolicyAndBackend, ServiceStatus, ServiceAnswer
  <2>2. Service!Open
    BY <1>3, <2>1 DEF WithPolicyAndBackend, Service!Open, config, request
  <2> QED
    BY <2>2 DEF Service!Next
<1>4. ASSUME NEW c \in Leaf, NEW callback \in DiagnosticModes,
             Validate(c, callback)
      PROVE  Service!Next
  <2>1. /\ ServiceStatus = "idle" /\ ServiceStatus' = "busy"
        /\ ServiceAnswer' = NoResult
    BY <1>0, <1>4 DEF Validate, ServiceStatus, ServiceAnswer
  <2>2. Service!Ask(c)
    BY <1>4, <2>1
       DEF Validate, Service!Ask, Service!NoAnswer, NoResult, config
  <2> QED
    BY <2>2 DEF Service!Next
<1>5. CASE RejectLeaf
  <2>1. ServiceStatus = "busy"
    BY <1>5 DEF RejectLeaf, ServiceStatus
  <2>2. Service!Answer
    BY <1>5, <2>1, ReturnAnswers DEF RejectLeaf, Err
  <2> QED
    BY <2>2 DEF Service!Next
<1>6. CASE AcceptTrustedLeaf
  <2>1. ServiceStatus = "busy"
    BY <1>6 DEF AcceptTrustedLeaf, ServiceStatus
  <2>2. Service!Answer
    BY <1>6, <2>1, ReturnAnswers DEF AcceptTrustedLeaf, Ok
  <2> QED
    BY <2>2 DEF Service!Next
<1>7. CASE BackendPanics
  <2>1. ServiceStatus = "busy"
    BY <1>7 DEF BackendPanics, ServiceStatus
  <2>2. \E c, d \in Cert : VerifySignature(crypto, c, d) = "panic"
    <3>1. PICK i \in NextCandidates :
            ShouldSkipAddingCertificate(candidates[i]) = "panic"
      BY <1>7 DEF BackendPanics
    <3>2. VerifySignature(crypto, Tip, candidates[i]) = "panic"
      BY <3>1 DEF ShouldSkipAddingCertificate
    <3>3. Tip \in Cert /\ candidates[i] \in Cert
      BY <1>7 DEF BackendPanics, Tip, NextCandidates, TypeOK
    <3> QED
      BY <3>2, <3>3
  <2>3. Service!Answer
    BY <1>7, <2>1, <2>2, ReturnAnswers DEF BackendPanics, Panic
  <2> QED
    BY <2>3 DEF Service!Next
<1>8. CASE AcceptChain
  <2>1. ServiceStatus = "busy"
    BY <1>8 DEF AcceptChain, ServiceStatus
  <2>2. Service!Answer
    BY <1>8, <2>1, ReturnAnswers DEF AcceptChain, Ok
  <2> QED
    BY <2>2 DEF Service!Next
<1>9. CASE GiveUp
  <2>1. ServiceStatus = "busy"
    BY <1>9 DEF GiveUp, ServiceStatus
  <2>2. Service!Answer
    BY <1>9, <2>1, ReturnAnswers DEF GiveUp, Err
  <2> QED
    BY <2>2 DEF Service!Next
<1>10. CASE \/ BeginSearch \/ PopPartialChain \/ SkipCandidate \/ RejectChain
            \/ FindIntermediates \/ PushIntermediate \/ FinishPartialChain
            \/ UNCHANGED vars
  <2>1. UNCHANGED <<roots, intermediates, policy, crypto, leaf, result>>
    BY <1>10 DEF BeginSearch, PopPartialChain, SkipCandidate, RejectChain,
         FindIntermediates, PushIntermediate, FinishPartialChain, vars,
         config, request
  <2>2. UNCHANGED ServiceStatus
    BY <1>10 DEF BeginSearch, PopPartialChain, SkipCandidate, RejectChain,
         FindIntermediates, PushIntermediate, FinishPartialChain, vars,
         ServiceStatus
  <2>3. UNCHANGED ServiceAnswer
    BY <2>1 DEF ServiceAnswer
  <2> QED
    BY <2>1, <2>2, <2>3 DEF Service!serviceVars
<1> QED
  BY <1>1, <1>2, <1>3, <1>4, <1>5, <1>6, <1>7, <1>8, <1>9, <1>10
     DEF Next, Caller, Call

\* Seen from outside, validate is the service: one answer to each request,
\* either an acceptable chain or proof that there is none.
THEOREM Refinement == Spec => ImplementsService
<1>1. Init => Service!Init
  BY ServiceStore
     DEF Init, Service!Init, ServiceStatus, ServiceAnswer, NoResult, Service!NoAnswer
<1>2. /\ TypeOK /\ SearchInvariant /\ [Next]_vars
      /\ Sound' /\ Complete' /\ RejectionsJustified'
      => [Service!Next]_(Service!serviceVars)
  BY StepRefines
<1> QED
  BY <1>1, <1>2, SearchInvariantHolds, Soundness, Completeness, Justification, PTL
     DEF Spec, ImplementsService, Service!Spec
=============================================================================
