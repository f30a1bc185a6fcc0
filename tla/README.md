# A TLA+ verification of x509-validator

x509-validator is a Rust library that decides whether a certificate is to be
trusted. A caller gives it root certificates, a policy and a cryptographic
backend, and asks about leaves, with a store of intermediates for each question.
The library searches for a chain of certificates from the leaf to a root, checks
each link, and lets the policy accept or reject each complete chain.

Everything here is translated from `x509-validator/src/`. TLC checks the models
on small instances; TLAPS proves the main theorems for all instances.

## The system

### Components

| Component | Source | State | Operations |
|---|---|---|---|
| Certificate store | `store.rs` | subject → list of certificates | `new`, `append`, `find_by_subject` |
| Certificate accessors | `certificate.rs` | none | key identifiers, subject alternative names, `has_same_identity_as` |
| Chain building | `validator.rs` | roots, policy, backend; per call a stack of partial chains, the chain at hand, the recorded failures | `with_policy_and_backend`, `validate`, `validate_with_diagnostics` |
| Chain types | `unverified_chain.rs`, `validated_chain.rs` | a non-empty, leaf-first list | access by index |
| Diagnostics | `diagnostic.rs` | none; passed to the caller's callback | one constructor per event |
| Policies | `policy.rs` | none | `verifying_critical_extensions`, `chain_meets_policy_requirements` |
| Policy composition | `policy_builder.rs`, `all_of_policies.rs`, `one_of_policies.rs`, `any_policy.rs` | the composed value | `policy!`, `one_of!`, wrappers |
| RFC 5280 policy | `rfc5280/mod.rs` with `version_policy.rs`, `expiry_policy.rs`, `basic_constraints_policy.rs`, `name_constraints_policy.rs` | a validation time; per call loop variables and a count | evaluation of a chain |
| Name matching | `rfc5280/dns_names.rs`, `uri_constraints.rs`, `ip_constraints.rs` | none; per call a buffer, a label count and two iterators | is a DNS name, URI or IP address in a subtree? |
| EKU policy | `rfc5280/eku_policy.rs` | required purposes | evaluation of a chain |
| Server identity policy | `server_identity_policy.rs` | host name, IP address | evaluation of a chain |
| Backends | `crypto/`, `x509-validator-fuzzing-provider` | none; which exist is decided by build features | `default_provider`, `verify_signature` |

### Interactions

The validator calls the policy twice over: `verifying_critical_extensions`
decides which critical extensions of a certificate are tolerated while chains
are built, `chain_meets_policy_requirements` judges each complete chain. Nothing
in the types ties the two answers together. It calls the backend for each
candidate link. It calls the caller's diagnostics callback at a dozen places.
Composed policies call their parts; the RFC 5280 policy calls four sub-policies
in a fixed order, and the name constraints policy calls the matchers.

There are no threads, messages or files. What is hard here is of another sort:

* the search: cross-certified authorities make circles and many paths; sorted
  lists are reversed, pushed and popped, so that a slip in the order or in the
  loop check still looks right on simple PKIs;
* the order of checks and early returns: in the search, in the composed policies
  and in the scans of name constraints;
* two accounts of the same events (result and diagnostics) and two answers of
  the same policy (claims and verdict) that have to agree;
* tables that are kept apart and have to fit: from identifiers to algorithms, from
  algorithms to three libraries, with limits on keys that each of them sets
  elsewhere;
* boundaries: path lengths, validity periods, self-issued and version 1
  certificates, lone roots, undecodable extensions; leading and trailing periods,
  the longest name and label, masks that end between octets;
* long sequences of legal calls: stores filled in any order, with duplicates,
  and extended between calls.

`PROJECT.json` lists these hazards, each with its line and the properties that
would catch it.

### What makes each part correct

* Chain building: only sound chains are returned; a chain is found if there is
  one; among several, the preferred one; an error lists exactly the rejected
  chains, in order; diagnostics tell the same story; every call returns.
* Policy composition: verdicts follow the expression; a claimed extension is
  enforced by a policy whose acceptance counted; reasons are complete.
* RFC 5280 policy: the loops compute the declarative requirements.
* Key usage policy: exactly the certificates of the role are judged, and an
  unreadable extension does not count as an absent one.
* Server identity policy: the leaf is accepted for the names it carries and no
  others; comparing names never panics.
* Name matching: the loops and cuts find what the declarative definition of a
  subtree says, and they end for every input.
* Backends: a signature verifies only as what the certificate declares it to be,
  genuine ones verify but for known gaps, backends differ only in one direction,
  but for RSA keys a few bits short of the least size.

## The modules

    CertificateStore          certificates as chain building reads them; the store
      TrustChain              links, chains and preference, declaratively
        ValidationService     what a validator promises (abstract)
        Validator             the search (detailed); implements ValidationService
          ValidatorProofs     theorems: soundness, completeness, refinement
            SearchProofs      theorems: order, diagnostics, length
          MCValidator         instances: cross, odd, pathological

    PolicyBuilder             policy!, one_of!, wrappers
      PolicyBuilderProofs     theorems
      MCPolicyBuilder         instance: composed

    CertificationPath         the RFC 5280 requirements, declaratively
      RFC5280Policy           the four loops
        RFC5280PolicyProofs   theorems
        MCRFC5280Policy       instances: rfc5280, hostless; compares names as
                              NameSubtrees defines it

    NameSubtrees              which names a constraint covers, declaratively
      UriConstraints          the host of a URI
      IpConstraints           addresses under a mask
        NameMatching          the comparisons, loop by loop (extends both)
          NameMatchingProofs  theorems
          MCNameMatching      instances: matching, host

    EkuPolicy                 roles and key purposes
      EkuPolicyProofs         theorem
      MCEkuPolicy             instances: purposes, claim

    HostNames                 comparing host names, as code and declaratively
      ServerIdentityPolicy    the loop over alternative names, the fallback
        ServerIdentityPolicyProofs  theorems
        MCServerIdentityPolicy  instance: identity

    SignatureBackends         features, tables of algorithms, four providers
      SignatureBackendsProofs  theorems
      MCSignatureBackends     instance: signatures

Operators under a comment that begins with "Slip:" are plausible
mistakes in the definition that follows them. They are no part of a
specification: each is what some property is there to exclude, and TLC finds the
property violated when the definition is replaced by the slip.

### Validator

One action is one step of `validate_inner`; `pc` says where the call is.

| Action | Code |
|---|---|
| `AppendRoot`, `AppendIntermediate` | the caller's `CertificateStore::append` |
| `WithPolicyAndBackend` | the constructor |
| `Validate` | a call of `validate` or `validate_with_diagnostics` |
| `RejectLeaf` | the leaf has a critical extension the policy does not enforce |
| `AcceptTrustedLeaf`, `BeginSearch` | the leaf is a root and the policy accepts it; else the search starts, with a recorded failure if the leaf was a root |
| `PopPartialChain` | pop, look up and sort root candidates |
| `SkipCandidate` | `should_skip_adding_certificate` returns true |
| `BackendPanics` | the undetermined backend is asked |
| `AcceptChain`, `RejectChain` | a root completes the chain and the policy decides |
| `FindIntermediates`, `PushIntermediate`, `FinishPartialChain` | the second loop |
| `GiveUp` | the stack is empty |

The stable sort by `rank` is modelled by the position it gives each candidate
(`SortsNoLater`), so the two loops take the smallest (roots) or the largest
(intermediates, which the code reverses before pushing) of the positions left.
A repeated or undecodable key identifier extension reads as absent, an absent or
undecodable subjectAltName as no names: both as in `certificate.rs`. Signatures,
policies and DER contents are data: a backend is a relation between
certificates, a policy a set of extensions and a verdict on chains. Texts of
reasons and diagnostics are left out. That policies and backends are functions of
their arguments is an assumption of the model; a policy that consults the clock
or the network is outside it.

### PolicyBuilder

The macros expand to nested constructor calls; the stack holds the operands that
are built and not used yet, and each constructor is an action. A policy value is
what the two trait methods would answer: a set of claims and a verdict for every
chain. It carries one thing more, `ways`, which the code does not have: the sets
of base policies of which one must accept in full. It is computed from the form of
the expression alone, and the verdicts, with their short-circuits, are compared
with it.

### RFC5280Policy

One action is one iteration of a loop of a sub-policy. `CertificationPath` says
the same thing without loops: path lengths with the cardinality of a set
instead of a running count, validity as an interval, name constraints without
order or early exits. How a name is compared with a constraint of its kind is
the parameter `NameMatches`, so that the proofs hold for every way; the instance
that TLC checks gives it the definitions of `NameSubtrees`, which `matching` shows
to be what the code computes. An absent list of subtrees is modelled as an empty
one, which the code treats alike.

### EkuPolicy

The builder methods are actions, so a policy can be narrowed several times in any
order before it is asked; then one action is one certificate. The positions in a
chain that a role stands for are a set, with which `covers` is compared.

### ServerIdentityPolicy and HostNames

`New` is the constructor, then one action is one alternative name. Names are
sequences of characters here, and only here, because the comparison of
characters is what there is to check: indices taken in one buffer and used in
another, slices for prefix and suffix. `Denotes` says what a match is without
any of that: replace the asterisk in the first label by one or more characters
other than a period and get the host name. It differs from label-by-label
matching in one place, on purpose: `split_around_index` gives an empty rest both
for a name without a period and for one whose only period is its last character
(after the stripping of one trailing period), so the wildcard `*` matches the
host name `a..`; `FirstLabelOnly` says so.

### NameMatching

| Action | Code |
|---|---|
| `MatchDnsName`, `MatchUri`, `MatchIpAddress` | the three comparisons; a URI goes on as its host |
| `BeginValidation`, `ValidateLabel`, `RejectWildcard` | `is_valid_dns_name`, one label at a time, first for the name |
| `NameIsValid`, `ConstraintIsValid` | what `dns_name_matches_constraint` does after each validation |
| `WalkLabels` | one iteration of its loop, with both `ReverseDnsLabels` iterators |

Names are sequences of ASCII codes and octets are sequences of bits, because what
there is to check are cuts, cursors, masks and shifts. An iterator is what remains
of its name, or nothing. `NameSubtrees` says the same by positions and suffixes.
`case_insensitive_ascii_match` clears a bit in every byte and so confuses bytes
that are no letters; no such byte comes through the validation, which is why
`MatchCorrect` holds. Two things in the code decide nothing: names are Rust
strings, so the UTF-8 check always succeeds and is left out, and a host that
`is_ip_address` recognises would fail as a DNS name as well (`NoAddressIsName`). The limits on labels
and names are constants.

### SignatureBackends

A state holds one build (a set of features) and one call. Every provider the build
has is asked about it, in any order: the default one, each backend, and the
fuzzing provider. `answers` keeps what each has said, so that they can be compared.
`SelectAlgorithm` is the table all share. Behind it every backend has tables of its
own, and they are modelled row by row, because a wrong row is what could be wrong:

* ring and aws-lc-rs: `backend_algorithm` with the groups of each curve
  (`RingGroups`, `AwsLcGroups`) leads to a primitive, which says what it verifies:
  scheme, hash, curve and sizes of keys. `VerifyWithKeyBytes` gives it key and
  signature together.
* RustCrypto: `RustCryptoVerify` is the match, and each `verify_*` function is one
  operator; some use the hash of the curve's own `verify` (`NativeHash`), some one
  that is computed by hand. The key is loaded first, so an unusable key is told
  from a wrong signature (`LoadKeyAndVerify`).

Keys, signatures and messages are abstract: a signature has the scheme and hash it
was made with, with RSASSA-PSS also the hash of the mask function and the length of
the salt, and whether it was made with this key for this message.

`rsa_pss_digest_bits` reads only the hash of what RSASSA-PSS declares. Mask and salt
are then the primitive's: those of the hash. So a genuine signature that declares
others is refused, which `Unsupported` lists as a gap, and one made with the
usual mask and salt passes whatever is declared, which `VerifiedAsDeclared` leaves
open in so many words.

What the libraries do is external: a primitive does what its name in ring and
aws-lc-rs says, sizes of keys included, `Verifies` has the rule for mask and salt,
and `RsaCrateMaximumBits` is the limit of the rsa crate. RustCrypto's backend rounds
the size of a modulus up to whole bytes before comparing it, so keys of 2041 to 2047
bits pass. Nothing in the repository says whether ring and aws-lc-rs do the same;
`rounding` is the set of those that do, and every set is considered.

## What TLC checks

| Run | What it shows |
|---|---|
| `cross` | two roots, one cross-certified by the other, and an issuing authority with certificates that match, mismatch or lack the key identifier: `Complete`, `RejectionsJustified`, `MostPreferred`, `FailuresInOrder`, `EveryCandidateAccountedFor`, and `ImplementsService` |
| `odd` | leaves that are roots, certificates of the same identity, unenforced extensions, a wrong key, a backend that panics: `Sound`, `DiagnosticsAgreeWithResult`, `ImplementsService` |
| `pathological` | two authorities that certify each other under five identities, chains of up to seven certificates: `Sound`, `Complete`, `MostPreferred`, `FailuresInOrder`, `ChainLengthBounded`, and `EveryCallReturns` |
| `composed` | all expressions of up to nine constructor calls: `VerdictsAsWritten`, `ClaimsEnforced`, `RejectionsExplained` |
| `rfc5280` | chains of up to four certificates with all versions, CA bits and path lengths; validity periods at all times around them; name constraints on two levels with DNS names, URIs and addresses: `VerdictCorrect` |
| `hostless` | expected violation, see below |
| `matching` | all DNS names and constraints of up to six and four bytes, all texts of up to six bytes after a URI's scheme, addresses under masks of every mix of octets: `MatchCorrect`, `EveryStepProgresses` |
| `host` | expected violation, see below |
| `signatures` | all builds, all algorithms, RSA keys at, below and between the limits, all mixes of curve and hash, usual and unusual RSASSA-PSS parameters, signatures that fit in all, some or none of their parts: `VerifiedAsDeclared`, `NoGenuineSignatureRefused`, `BackendsNested`, `DefaultDelegates` |
| `purposes` | chains of up to four certificates with readable and unreadable extensions, all roles: `PurposesCorrect` |
| `claim` | expected violation, see below |
| `identity` | all names against all host names of up to four characters; up to three alternative names of all kinds, up to two common names, addresses: `IdentityCorrect`, `SlicesInRange` |

Three runs show that a comment and the code disagree:

* `hostless`: the comment on `uri_name_matches_constraint` has certificates
  rejected whose URI has no domain name as its host, if URIs are constrained. The
  function answers that such a URI is in no subtree, which under excluded subtrees
  means acceptance.
* `host`: the same comment has a constraint without a leading period name one host.
  Hosts are compared as DNS names, so it covers every name below it, too.
* `claim`: the comment on `verifying_critical_extensions` asks that a policy claim
  an extension only if it enforces it. `EkuPolicy` claims extendedKeyUsage for the
  whole chain also when its role covers a part of it, so a critical extension of a
  certificate outside the role is tolerated and read by nobody.
  (`ServerIdentityPolicy` claims subjectAltName in the same way and reads the
  leaf's only.)

Five comments are merely too general, and have no run:

* `with_policy` says that validation panics unless exactly one backend feature is
  enabled; calls that need no signature check return normally (`odd` has both).
* `default_provider` says that the undetermined backend is reached when no backend
  is enabled; it is also reached when there are several (`DefaultDelegates`).
* `verifying_critical_extensions` says that a policy understands the union of what
  its parts understand; alternatives understand the intersection, on purpose.
* `has_valid_identity_for_service` lets the common name decide if no alternative
  name is of a kind that could match; the code lets it decide only if there is no
  alternative name at all, as a test demands.
* A test of RustCrypto's backend says that it cannot trust a chain that ring and
  aws-lc-rs reject on key size alone. For keys of 2041 to 2047 bits this depends on
  whether those libraries round as well, which is not for this repository to say;
  `BackendsNested` has it for all other keys.

### Bounds

* `MaxPerSubject`: two (three in the circular PKI) certificates of a subject in
  a store. It allows for duplicates and for two candidates of different rank;
  with three, for all variants of an authority of the circular PKI at once, in
  every order.
* `Chains`, which `Complete` and `MostPreferred` range over, is the set of all
  sequences that follow issuer names from a leaf and repeat no certificate. It
  contains every candidate chain, because a chain repeats no identity.
* `DiagnosticModes`: with a callback in `cross` and `odd`, to check what it is
  told; in `pathological` without, because the callback does not influence the
  search.
* Policies accept everything, nothing, short chains, long chains, or chains
  through a certificate with a particular name: enough to make the first, a
  middle, the last or no chain the acceptable one.
* `MaxCalls` 9 and `MaxOperands` 3: expressions with up to five operands, nested
  to the left or to the right. The three base policies differ pairwise in claims
  and verdicts, on three chains.
* RFC 5280: an authority with a path length, a self-issued one, one of version 1
  and a leaf need four certificates. Three suffice for constraints of a root and
  an intermediate on a leaf.
* Key purposes: four certificates give the end entity, the anchor and two
  intermediates. Two known purposes and an unknown one are enough for every way
  in which the accepted ones can meet the named ones.
* `MaxLength` 4: a label with prefix, asterisk and suffix, or a label with an
  asterisk, a period and a second label; two periods anywhere. Longer names are
  given one by one, for A-labels. Two letters in both cases suffice to tell
  matching from differing characters.
* Name matching: limits of 3 for a label and 7 for a name instead of 63 and 253,
  so that names of eight bytes reach and pass both; the code uses the limits in
  two comparisons only. Six bytes are three labels with their periods. Letters in
  both cases, a digit, hyphen, underscore, asterisk, and bytes that the mask
  confuses with a hyphen or with each other. `rfc5280` uses 63 and 253.
* Signatures: RSA keys of 1016 to 8193 bits: at each limit, a byte below or a bit
  above it, and the shortest and longest that reach it only when rounded up to bytes
  (1017 and 1023, 2041 and 2047). The keys named by RSASSA-PSS are there because
  RustCrypto does not read them. Of RSASSA-PSS parameters those that go by the hash,
  and for SHA-256 and SHA-512 others in the mask, in the salt, or in both.

### Fairness

`Validator!Spec` has weak fairness on the steps of a call and on nothing else: a
call is a loop in the caller's thread that waits for nobody, so it keeps
running, whereas the caller need not call again. Only `EveryCallReturns` uses it.

## What is proved

All theorems hold for every value of the constants that satisfies the named
assumptions.

**`ValidatorProofs`** (from `CertAssumption`: subjects and issuers are names;
`InputAssumption`: the caller's certificates are certificates).

* `TypeCorrect`: `TypeOK`; the chain at hand is never empty.
* `Soundness`, `Justification`: from `SearchInvariant`, which says what the
  locals mean during the search: everything on the stack is a linked chain of
  intermediates from an admissible leaf, the candidates are those the store
  holds for the issuer of the last certificate, and each recorded failure is a
  chain to a root that the policy rejects. `Sound` alone is not inductive: it
  speaks of results, which come from the locals.
* `Completeness`: from `CoverageInvariant`: each chain to a root has been
  recorded as rejected or is still pending, that is, it extends a chain on the
  stack or the chain at hand with its next certificate among the candidates
  left. Every step moves a pending chain to another place of that list or
  records it. When the stack is empty, all are recorded.
* `Refinement`: the search implements `ValidationService`: steps of the search
  are invisible, and a return is the service's answer. It follows from the two
  invariants.

**`SearchProofs`** continues with what a depth-first search adds to finding a chain
(also from `FiniteAssumption`: there are finitely many certificates).

* `Preference`: `MostPreferred`. It compares the returned chain with all others,
  so the invariant has to say where all others are: `PreferenceInvariant` says that
  what is preferred to the chain at hand is on record, and what is preferred to a
  chain on the stack is on record or turns up above it. It rests on
  `SweepInvariant`, that the root loop takes its candidates in the sorted order
  and the intermediate loop in the opposite one, which the stack reverses.
* `FailureOrder`: `FailuresInOrder`, from `RecordInvariant`: what is on record is
  in order and comes before all that is in hand or on the stack, the stack itself
  is in order from the top, and what is in hand comes before it. `Branches`, on
  which the order of the stack rests, compares the first place where two chains
  part, so it survives every extension of either.
* `LengthBound`: `ChainLengthBounded`. No chain repeats an identity, so its places
  map one to one to the identities there are.
* `Agreement`: `DiagnosticsAgreeWithResult`, from `OutcomeInvariant`: the chains
  on record are the ones reported, place by place, and no end has been announced.
* `Accounting`: `EveryCandidateAccountedFor`, from `AccountInvariant`: an issuer
  that was found and not accounted for is awaited, that is, a candidate of the
  loop or at the end of a chain on the stack. When the search fails, nothing is.

**`PolicyBuilderProofs`** (from `BuilderAssumption`: base policies claim object
identifiers and give Boolean verdicts). The invariant says that every operand is
well behaved; a lemma for each combinator shows that it makes well-behaved
policies of well-behaved ones. `ClaimsAlwaysEnforced`,
`VerdictsAlwaysAsWritten` and `RejectionsAlwaysExplained` follow for expressions of any size. The lemma on
`OneOfTuple2` is the place where intersection, not union, is needed.

**`RFC5280PolicyProofs`** (from `PathAssumption`: chains are non-empty lists,
times and path lengths are numbers). The invariant says for each loop which
requirements are established for which certificates. `CountSubCAs` relates the
running count to the cardinality in the requirement. `SubjectScan` and
`PermittedScan` show that the early exit at the first match loses nothing: the
subject's own name is compared with every base and matches none, so a base that
cannot be evaluated rejects every certificate. `PolicyCorrect` follows for
chains of any length and any way of matching names.

**`EkuPolicyProofs`** (from `EkuAssumption`: chains are non-empty lists and the
ways an extension fails are distinct). The invariant says that the certificates
in the role that the loop has passed are suitable. `CoversPositions` relates
`covers` to the set of positions, `MeetsIffSuitable` the two places where purposes
are looked up to one set. `EkuCorrect` is `PurposesCorrect` for chains of any length.

**`NameMatchingProofs`** (from `QuestionAssumption`: texts are compared as texts and
octets as octets; `LimitAssumption`: a label may have a byte; `Ipv6TextAssumption`:
every notation of an IPv6 address has a colon). `EveryStepProgresses` needs to know
that the cursors stay texts: `Inv` says it, and lemmas bound every position found
by the length of the text that is cut there, so that what is left of a loop
really shrinks.

`MatchAlwaysCorrect` shows that the loops compute what `NameSubtrees` says, for
inputs of any length. `MatchInvariant` says that the question has become one about
`dns_name`, that a name is acceptable once the second pass has begun, and where the
loops are:

* `Validating`: what is consumed ends at a label boundary, every byte of it may
  stand where it stands (`Scanned`), and the counter tells whether it was one label,
  two, or more (`Counted`: all that the wildcard rule asks of it). `AcceptableParts`
  breaks `IsAcceptable` into conditions on single bytes; `BadLabelRejected` and
  `GoodLabelPassed` are the two directions of an iteration, `ValidationEnds` is the
  exit of the loop.
* `Walking`: both iterators stand at a label boundary, at the same distance from
  the two ends, and all bytes to their right agree but for case (`Walked`). When
  one of them is exhausted, or has an empty label next, this decides `Covers`, the
  definition of a subtree by positions; the other steps extend the agreement by a
  label, which rests on `MaskFoldsOnlyCase`: the mask clears a bit in which many
  pairs of bytes differ, and is sound only for the bytes the validation let through.

For URIs, `AuthoritySpan`, `HostAndPortSpan` and `HostSpan` show that each cut of
`extract_host` is the one span of the URI that `NameSubtrees` describes;
`NoAddressIsName` that asking `is_ip_address` first changes no answer; and
`CaseOfNameIgnored` that lowering the host changes none. For addresses, `AddressMatch`
goes from octets to bits: `MaskShape` is the shape test by shifting, `CoveredBits`
the comparison under the mask. None of this needs induction: a loop's invariant
speaks of the positions behind it.

**`ServerIdentityPolicyProofs`** (from `CharacterAssumption`: letters and digits are
neither period nor asterisk nor hyphen, and lowering a letter gives one that is
lowered already; `AbsentAssumption`: None is no host name; `QuestionAssumption`: host
names, dNSNames and common names are texts, and names come in lists).
`MatchIffDenotes` is the heart of it: the comparison of the code, which cuts both
names at the first period, then the label at the asterisk, and compares the
pieces, accepts a name exactly if `Denotes` says so, where `Instantiates` asks for
some replacement of the asterisk. `FittingIsInstance` and `InstanceFits` are the two
directions, place by place in the text; the second also shows that an instance
of a pattern leaves no room for a second asterisk, an asterisk after the period
or a character the analysis refuses. `PreparedHostname` shows that the index
found before a period is stripped is the right one afterwards, `ALabel` that
looking at fewer than four characters makes no difference to the test for
A-labels. `IdentityInvariant` says what the loop over the names has established;
`IdentityAlwaysCorrect` follows. `SlicesAlwaysInRange` covers every slice that the
comparison takes of a name of the leaf, alternative or common, and of the host
name: `ComparisonSlicesWithin` shows that the two slices of the host's first
label lie within it because of the comparison of lengths just before them. No
induction is needed: where a text differs from another is a question about places.

**`SignatureBackendsProofs`** (from `BuildAssumption`: features are backends, sizes
are numbers, a genuine RSA or Ed25519 signature was made with a key of its kind).
The invariant says that each answer is `Outcome` of the provider's implementation, a
function of build and call without the steps in between. The four properties of
`signatures` are then facts about `Outcome`, for all builds, calls, key sizes and
ways of rounding:

* `AlwaysVerifiedAsDeclared`: `PrimitiveTable` and `RustCryptoTable` go through the
  tables row by row and show that each row has the scheme, hash and curve of its
  algorithm, `NamedAlgorithm` the same of the table all share.
* `GenuineNeverRefused`: the other direction. `TablesFindTheAlgorithm` shows that a
  declared signature that is in no gap has its row in every table.
* `BackendsAlwaysNested`: `RingTable` shows that ring has no row that aws-lc-rs has
  not, `EdgeOfLimit` that rounding matters only for the keys the property
  excepts, and `KeyBytesFollow` that for all others the answer carries over.
* `DefaultAlwaysDelegates`, from the cases of `default_provider`.

Every invariant of the runs is thus a theorem. Only model-checked:
`EveryCallReturns`, which is liveness under fairness and out of the prover's reach.

## Plan

The order is by how much rests on a part.

1. Chain building, its abstract specification, soundness, completeness,
   refinement: done.
2. Policy composition, with proofs: done.
3. The RFC 5280 policy without name matching, with proofs: done.
4. Name matching, on its own and within the RFC 5280 policy, with proofs: done.
5. The extended key usage policy and the server identity policy, with proofs: done.
6. The backends, with proofs: done.
7. Proofs of the order of the search, its length and its diagnostics, of the
   comparison of host names and of name matching: done.
8. A composition of `Validator` with `RFC5280Policy` and `PolicyBuilder`: no
   accepted chain has a critical extension that no policy has looked at, except
   keyUsage, which `rfc5280/mod.rs` claims and, as its comment explains, does not
   enforce.

## Not modelled

* DER parsing is an external crate; models start from parsed certificates, with
  extensions that are absent, undecodable or repeated.
* The cryptographic algorithms are external libraries; so is the parsing of IP
  addresses from text.
* Renderings for people: `Display`, the one-line certificate summaries, texts of
  reasons and diagnostics.
* Test kit, benchmarks, fuzzing harnesses, examples, administration: they
  exercise the library and add no behaviour to it.
* The number of chains the search considers: the code sets no limit to it, so
  there is nothing to check against.
