-------------------------- MODULE ValidationService --------------------------
(***************************************************************************)
(* What a validator promises its caller, with no word about how it         *)
(* searches: asked about a leaf, it answers with some chain from the leaf  *)
(* to a root that the policy accepts, or, when there is no such chain,     *)
(* with the chains the policy rejected.                                    *)
(***************************************************************************)
EXTENDS TrustChain

CONSTANTS Leaf, RootInput, IntermediateInput, MaxPerSubject, Chains

VARIABLES
  roots, intermediates, policy, crypto,   \* as the validator's
  leaf,                                   \* the certificate asked about
  status,                                 \* "configuring", "idle" or "busy"
  answer                                  \* the last answer

serviceVars == <<roots, intermediates, policy, crypto, leaf, status, answer>>

NoAnswer == [tag |-> "None"]

Candidate(chain) ==
  CandidateChain(policy, crypto, leaf, roots, intermediates, chain)

Acceptable(chain) ==
  Candidate(chain) /\ ChainMeetsPolicyRequirements(policy, chain)

Init ==
  /\ roots = New
  /\ intermediates = New
  /\ policy \in Policy
  /\ crypto \in Backend
  /\ leaf \in Leaf
  /\ status = "configuring"
  /\ answer = NoAnswer

Trust(c) ==
  /\ status = "configuring"
  /\ Len(FindBySubject(roots, c.subject)) < MaxPerSubject
  /\ roots' = AppendCertificate(roots, c)
  /\ UNCHANGED <<intermediates, policy, crypto, leaf, status, answer>>

Open ==
  /\ status = "configuring"
  /\ status' = "idle"
  /\ UNCHANGED <<roots, intermediates, policy, crypto, leaf, answer>>

Supply(c) ==
  /\ status = "idle"
  /\ Len(FindBySubject(intermediates, c.subject)) < MaxPerSubject
  /\ intermediates' = AppendCertificate(intermediates, c)
  /\ answer' = NoAnswer
  /\ UNCHANGED <<roots, policy, crypto, leaf, status>>

Ask(c) ==
  /\ status = "idle"
  /\ status' = "busy"
  /\ leaf' = c
  /\ answer' = NoAnswer
  /\ UNCHANGED <<roots, intermediates, policy, crypto>>

\* An inadmissible leaf is itself the one rejected chain.
Rejected(chains) ==
  IF HasUnhandledCriticalExtensions(policy, leaf)
    THEN chains = {<<leaf>>}
    ELSE /\ \A chain \in chains : Candidate(chain)
         /\ \A chain \in Chains : Candidate(chain) => chain \in chains

Answer ==
  /\ status = "busy"
  /\ status' = "idle"
  /\ UNCHANGED <<roots, intermediates, policy, crypto, leaf>>
  /\ \/ answer'.tag = "Ok" /\ Acceptable(answer'.chain)
     \/ /\ answer'.tag = "Err"
        /\ \A chain \in Chains : ~Acceptable(chain)
        /\ Rejected(answer'.rejected)
     \/ /\ answer'.tag = "Panic"
        /\ \E c, d \in Cert : VerifySignature(crypto, c, d) = "panic"

Next ==
  \/ \E c \in RootInput : Trust(c)
  \/ Open
  \/ \E c \in IntermediateInput : Supply(c)
  \/ \E c \in Leaf : Ask(c)
  \/ Answer

Spec == Init /\ [][Next]_serviceVars
=============================================================================
