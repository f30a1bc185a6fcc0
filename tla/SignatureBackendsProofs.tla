----------------------- MODULE SignatureBackendsProofs -----------------------
(***************************************************************************)
(* Every provider answers what a pure function of build and call says, and *)
(* from that function the properties follow for all calls and builds.      *)
(***************************************************************************)
EXTENDS SignatureBackends, FiniteSetTheorems, TLAPS

\* The implementation behind a provider of the build at hand.
BackendOf(p) == IF p = "default" THEN default_provider(features) ELSE p

Implementations == Library \cup {"undetermined", "fuzzing"}

KeyBytesOutcome(b, a) ==
  IF backend_algorithm(b, a) = Absent THEN "InvalidKey"
  ELSE Verified(UnparsedPublicKeyVerifies(b, backend_algorithm(b, a), call.key, call.signature))

RustCryptoOutcome(a) ==
  IF a \in {"EcdsaP256Sha512", "EcdsaP384Sha512"} THEN "InvalidKey"
  ELSE RustCryptoVerify(a, call)

\* What an implementation answers, without the steps in between.
Outcome(b) ==
  IF b = "undetermined" THEN "panic"
  ELSE IF b = "fuzzing" THEN "Ok"
  ELSE IF verification_algorithm(call) = Absent THEN "InvalidKey"
  ELSE IF b = "rust_crypto" THEN RustCryptoOutcome(verification_algorithm(call))
  ELSE KeyBytesOutcome(b, verification_algorithm(call))

\* The invariant: a call in progress is on the way to its outcome, and all
\* answers so far are outcomes.
Inv ==
  /\ features \in Features
  /\ call \in Calls
  /\ pc \in {"idle", "asked", "selected"}
  /\ pc # "idle" => provider \in Providers /\ backend = BackendOf(provider)
  /\ pc = "selected" =>
       /\ backend \in Library
       /\ algorithm = verification_algorithm(call)
       /\ algorithm # Absent
  /\ Asked \subseteq Providers
  /\ \A p \in Asked : answers[p] = Outcome(BackendOf(p))

-----------------------------------------------------------------------------
LEMMA BackendsAreImplementations ==
  ASSUME Inv, NEW p \in Providers
  PROVE  BackendOf(p) \in Implementations
BY BuildAssumption DEF Inv, Providers, BackendOf, Implementations, default_provider, Library

\* An answer that is the outcome of the call in progress keeps the invariant.
LEMMA AnswerKeepsInv ==
  ASSUME Inv, pc # "idle", NEW r, r = Outcome(backend), Answer(r)
  PROVE  Inv'
<1>1. features' = features /\ rounding' = rounding /\ call' = call /\ pc' = "idle"
  BY DEF Answer
<1>2. Asked' = Asked \cup {provider}
  BY DEF Answer, Asked
<1>3. Providers' = Providers
  BY <1>1 DEF Providers
<1>4. ASSUME NEW p \in Asked'
      PROVE  answers'[p] = Outcome(BackendOf(p))
  <2>1. CASE p = provider
    BY <2>1, <1>2 DEF Answer, Inv
  <2>2. CASE p # provider
    BY <2>2, <1>2 DEF Answer, Inv
  <2> QED BY <2>1, <2>2
<1>5. ASSUME NEW p \in Asked'
      PROVE  answers'[p] = Outcome(BackendOf(p))'
  BY <1>1, <1>4 DEF Outcome, BackendOf, KeyBytesOutcome, RustCryptoOutcome,
                 UnparsedPublicKeyVerifies, MeasuredBits
<1> QED
  BY <1>1, <1>2, <1>3, <1>5 DEF Inv

LEMMA InvInductive == Inv /\ [Next]_vars => Inv'
<1> SUFFICES ASSUME Inv, [Next]_vars PROVE Inv'
  OBVIOUS
<1>1. ASSUME NEW p \in Providers \ Asked, VerifySignature(p)
      PROVE  Inv'
  <2>1. features' = features /\ rounding' = rounding /\ call' = call /\ answers' = answers
    BY <1>1 DEF VerifySignature
  <2>2. \A q \in Asked : Outcome(BackendOf(q))' = Outcome(BackendOf(q))
    BY <2>1 DEF Outcome, BackendOf, KeyBytesOutcome, RustCryptoOutcome,
                 UnparsedPublicKeyVerifies, MeasuredBits
  <2>3. Asked' = Asked /\ Providers' = Providers
    BY <2>1 DEF Asked, Providers
  <2>4. pc' = "asked" /\ provider' = p /\ backend' = BackendOf(p)' /\ p \in Providers'
    BY <1>1, <2>1, <2>3 DEF VerifySignature, BackendOf
  <2> QED BY <2>1, <2>2, <2>3, <2>4 DEF Inv
<1>2. CASE Panic
  <2>1. "panic" = Outcome(backend)
    BY <1>2 DEF Panic, Outcome
  <2> QED BY <1>2, <2>1, AnswerKeepsInv DEF Panic
<1>3. CASE AcceptAnything
  <2>1. "Ok" = Outcome(backend)
    BY <1>3 DEF AcceptAnything, Outcome
  <2> QED BY <1>3, <2>1, AnswerKeepsInv DEF AcceptAnything
<1>4. CASE RejectAlgorithm
  <2>1. "InvalidKey" = Outcome(backend)
    BY <1>4 DEF RejectAlgorithm, Outcome, Library
  <2> QED BY <1>4, <2>1, AnswerKeepsInv DEF RejectAlgorithm
<1>5. CASE SelectAlgorithm
  <2>1. /\ features' = features /\ rounding' = rounding /\ call' = call /\ answers' = answers
        /\ provider' = provider /\ backend' = backend /\ pc' = "selected"
        /\ backend \in Library /\ algorithm' = verification_algorithm(call)
        /\ algorithm' # Absent /\ pc = "asked"
    BY <1>5 DEF SelectAlgorithm
  <2>2. \A q \in Asked : Outcome(BackendOf(q))' = Outcome(BackendOf(q))
    BY <2>1 DEF Outcome, BackendOf, KeyBytesOutcome, RustCryptoOutcome,
                 UnparsedPublicKeyVerifies, MeasuredBits
  <2>3. Asked' = Asked /\ Providers' = Providers /\ BackendOf(provider)' = BackendOf(provider)
    BY <2>1 DEF Asked, Providers, BackendOf
  <2> QED BY <2>1, <2>2, <2>3 DEF Inv
<1>6. CASE VerifyWithKeyBytes
  <2>1. /\ algorithm = verification_algorithm(call) /\ algorithm # Absent
        /\ backend \in {"aws_lc", "ring"} /\ pc # "idle"
    BY <1>6 DEF VerifyWithKeyBytes, Inv
  <2>2. Outcome(backend) = KeyBytesOutcome(backend, algorithm)
    BY <2>1 DEF Outcome
  <2>3. Answer(KeyBytesOutcome(backend, algorithm))
    BY <1>6 DEF VerifyWithKeyBytes, KeyBytesOutcome
  <2> QED BY <2>1, <2>2, <2>3, AnswerKeepsInv
<1>7. CASE RejectDigest
  <2>1. /\ algorithm = verification_algorithm(call) /\ algorithm # Absent
        /\ backend = "rust_crypto" /\ pc # "idle"
        /\ algorithm \in {"EcdsaP256Sha512", "EcdsaP384Sha512"}
    BY <1>7 DEF RejectDigest, Inv
  <2>2. "InvalidKey" = Outcome(backend)
    BY <2>1 DEF Outcome, RustCryptoOutcome
  <2> QED BY <1>7, <2>1, <2>2, AnswerKeepsInv DEF RejectDigest
<1>8. CASE LoadKeyAndVerify
  <2>1. /\ algorithm = verification_algorithm(call) /\ algorithm # Absent
        /\ backend = "rust_crypto" /\ pc # "idle"
        /\ algorithm \notin {"EcdsaP256Sha512", "EcdsaP384Sha512"}
    BY <1>8 DEF LoadKeyAndVerify, Inv
  <2>2. Outcome(backend) = RustCryptoOutcome(algorithm)
    BY <2>1 DEF Outcome
  <2>3. Answer(RustCryptoOutcome(algorithm))
    BY <1>8, <2>1 DEF LoadKeyAndVerify, RustCryptoOutcome
  <2> QED BY <2>1, <2>2, <2>3, AnswerKeepsInv
<1>9. CASE UNCHANGED vars
  <2>1. /\ features' = features /\ rounding' = rounding /\ call' = call /\ answers' = answers /\ pc' = pc
        /\ provider' = provider /\ backend' = backend /\ algorithm' = algorithm
    BY <1>9 DEF vars
  <2>2. \A q \in Asked : Outcome(BackendOf(q))' = Outcome(BackendOf(q))
    BY <2>1 DEF Outcome, BackendOf, KeyBytesOutcome, RustCryptoOutcome,
                 UnparsedPublicKeyVerifies, MeasuredBits
  <2>3. Asked' = Asked /\ Providers' = Providers /\ BackendOf(provider)' = BackendOf(provider)
    BY <2>1 DEF Asked, Providers, BackendOf
  <2> QED BY <2>1, <2>2, <2>3 DEF Inv
<1> QED
  BY <1>1, <1>2, <1>3, <1>4, <1>5, <1>6, <1>7, <1>8, <1>9 DEF Next

LEMMA InitInv == Init => Inv
BY DEF Init, Inv, Asked

LEMMA InvHolds == Spec => []Inv
BY InitInv, InvInductive, PTL DEF Spec

-----------------------------------------------------------------------------
(* What the tables have in common.                                         *)

\* What an algorithm stands for: aws-lc-rs has a primitive for each.
Primitive(a) == backend_algorithm("aws_lc", a)

Primitives ==
  [scheme : {"pkcs1", "pss", "ecdsa", "ed25519"},
   hash   : {"sha1", "sha256", "sha384", "sha512", "none"},
   curve  : {Absent, "P256", "P384"},
   least  : {0, 1024, 2048}, most : {0, 8192}]

LEMMA PrimitiveTable ==
  /\ Primitive("RsaPkcs1Sha1") = RSA("pkcs1", 1024, 8192, "sha1")
  /\ Primitive("RsaPkcs1Sha256") = RSA("pkcs1", 2048, 8192, "sha256")
  /\ Primitive("RsaPkcs1Sha384") = RSA("pkcs1", 2048, 8192, "sha384")
  /\ Primitive("RsaPkcs1Sha512") = RSA("pkcs1", 2048, 8192, "sha512")
  /\ Primitive("RsaPssSha256") = RSA("pss", 2048, 8192, "sha256")
  /\ Primitive("RsaPssSha384") = RSA("pss", 2048, 8192, "sha384")
  /\ Primitive("RsaPssSha512") = RSA("pss", 2048, 8192, "sha512")
  /\ Primitive("EcdsaP256Sha256") = ECDSA("P256", "sha256")
  /\ Primitive("EcdsaP256Sha384") = ECDSA("P256", "sha384")
  /\ Primitive("EcdsaP256Sha512") = ECDSA("P256", "sha512")
  /\ Primitive("EcdsaP384Sha256") = ECDSA("P384", "sha256")
  /\ Primitive("EcdsaP384Sha384") = ECDSA("P384", "sha384")
  /\ Primitive("EcdsaP384Sha512") = ECDSA("P384", "sha512")
  /\ Primitive("Ed25519") = ED25519
BY DEF Primitive, backend_algorithm, AwsLcGroups, ecdsa_p256, ecdsa_p384

LEMMA PrimitiveTyped ==
  ASSUME NEW a \in VerificationAlgorithm
  PROVE  /\ Primitive(a) \in Primitives /\ Primitive(a) # Absent
         /\ IsRsa(Primitive(a)) =>
              /\ Primitive(a).most = 8192
              /\ Primitive(a).least = IF Primitive(a).hash = "sha1" THEN 1024 ELSE 2048
         /\ Primitive(a).scheme = "ecdsa" => Primitive(a).curve \in {"P256", "P384"}
         /\ Primitive(a).scheme = "pss" => Primitive(a).hash \in {"sha256", "sha384", "sha512"}
<1>1. Primitive(a) \in Primitives
  BY PrimitiveTable DEF VerificationAlgorithm, RSA, ECDSA, ED25519, Primitives
<1>2. Primitive(a) # Absent
  BY <1>1, BuildAssumption DEF Primitives
<1>3. /\ IsRsa(Primitive(a)) =>
           /\ Primitive(a).most = 8192
           /\ Primitive(a).least = IF Primitive(a).hash = "sha1" THEN 1024 ELSE 2048
      /\ Primitive(a).scheme = "ecdsa" => Primitive(a).curve \in {"P256", "P384"}
      /\ Primitive(a).scheme = "pss" => Primitive(a).hash \in {"sha256", "sha384", "sha512"}
  BY PrimitiveTable DEF VerificationAlgorithm, RSA, ECDSA, ED25519, IsRsa
<1> QED BY <1>1, <1>2, <1>3

\* ring's table agrees with that of aws-lc-rs, but for ECDSA with SHA-512.
LEMMA RingTable ==
  ASSUME NEW a \in VerificationAlgorithm
  PROVE  backend_algorithm("ring", a) =
           IF Primitive(a).scheme = "ecdsa" /\ Primitive(a).hash = "sha512"
             THEN Absent ELSE Primitive(a)
<1>1. CASE a \in {"EcdsaP256Sha512", "EcdsaP384Sha512"}
  <2>1. Primitive(a).scheme = "ecdsa" /\ Primitive(a).hash = "sha512"
    BY <1>1, PrimitiveTable DEF ECDSA
  <2>2. backend_algorithm("ring", a) = Absent
    BY <1>1 DEF backend_algorithm, RingGroups, ecdsa_p256, ecdsa_p384
  <2> QED BY <2>1, <2>2
<1>2. CASE a \notin {"EcdsaP256Sha512", "EcdsaP384Sha512"}
  <2>1. ~(Primitive(a).scheme = "ecdsa" /\ Primitive(a).hash = "sha512")
    BY <1>2, PrimitiveTable DEF VerificationAlgorithm, RSA, ECDSA, ED25519
  <2>2. backend_algorithm("ring", a) = Primitive(a)
    BY <1>2 DEF VerificationAlgorithm, Primitive, backend_algorithm, RingGroups, AwsLcGroups,
                ecdsa_p256, ecdsa_p384
  <2> QED BY <2>1, <2>2
<1> QED BY <1>1, <1>2

\* RustCrypto's way to load a key.
Loads(m) == IF IsRsa(m) THEN rsa_public_key(call.key) ELSE KeyFits(m, call.key)

\* So do RustCrypto's functions: type parameters, curves' own hashes and hashes
\* computed by hand.
LEMMA RustCryptoTable ==
  ASSUME NEW a \in VerificationAlgorithm
  PROVE  RustCryptoOutcome(a) =
           IF Primitive(a).scheme = "ecdsa" /\ Primitive(a).hash = "sha512" THEN "InvalidKey"
           ELSE IF ~Loads(Primitive(a)) THEN "InvalidKey"
           ELSE Verified(Verifies(Primitive(a).scheme, Primitive(a).hash, call.signature))
<1>1. CASE a \in {"EcdsaP256Sha512", "EcdsaP384Sha512"}
  <2>1. Primitive(a).scheme = "ecdsa" /\ Primitive(a).hash = "sha512"
    BY <1>1, PrimitiveTable DEF ECDSA
  <2> QED BY <1>1, <2>1 DEF RustCryptoOutcome
<1>2. ASSUME NEW padding \in {"pkcs1", "pss"}, NEW least, NEW most, NEW hash,
             Primitive(a) = RSA(padding, least, most, hash),
             RustCryptoOutcome(a) =
               IF rsa_public_key(call.key) THEN Verified(Verifies(padding, hash, call.signature))
               ELSE "InvalidKey"
      PROVE  RustCryptoOutcome(a) =
               IF Primitive(a).scheme = "ecdsa" /\ Primitive(a).hash = "sha512" THEN "InvalidKey"
               ELSE IF ~Loads(Primitive(a)) THEN "InvalidKey"
               ELSE Verified(Verifies(Primitive(a).scheme, Primitive(a).hash, call.signature))
  <2>1. Primitive(a).scheme = padding /\ Primitive(a).hash = hash
    BY <1>2 DEF RSA
  <2>2. Loads(Primitive(a)) <=> rsa_public_key(call.key)
    BY <2>1 DEF Loads, IsRsa
  <2> QED BY <1>2, <2>1, <2>2
<1>3. ASSUME NEW curve, NEW hash, hash # "sha512",
             Primitive(a) = ECDSA(curve, hash),
             RustCryptoOutcome(a) = VerifyEcdsa(curve, hash, call)
      PROVE  RustCryptoOutcome(a) =
               IF Primitive(a).scheme = "ecdsa" /\ Primitive(a).hash = "sha512" THEN "InvalidKey"
               ELSE IF ~Loads(Primitive(a)) THEN "InvalidKey"
               ELSE Verified(Verifies(Primitive(a).scheme, Primitive(a).hash, call.signature))
  <2>1. /\ Primitive(a).scheme = "ecdsa" /\ Primitive(a).hash = hash
        /\ Primitive(a).curve = curve
    BY <1>3 DEF ECDSA
  <2>2. Loads(Primitive(a)) <=> call.key.type = curve
    BY <2>1 DEF Loads, IsRsa, KeyFits
  <2> QED BY <1>3, <2>1, <2>2 DEF VerifyEcdsa
<1>4. CASE a \in {"RsaPkcs1Sha1", "RsaPkcs1Sha256", "RsaPkcs1Sha384", "RsaPkcs1Sha512"}
  <2>1. PICK least, most, hash :
          /\ Primitive(a) = RSA("pkcs1", least, most, hash)
          /\ RustCryptoOutcome(a) = verify_rsa_pkcs1(hash, call)
    BY <1>4, PrimitiveTable DEF RustCryptoOutcome, RustCryptoVerify
  <2> QED BY <1>2, <2>1 DEF verify_rsa_pkcs1
<1>5. CASE a \in {"RsaPssSha256", "RsaPssSha384", "RsaPssSha512"}
  <2>1. PICK least, most, hash :
          /\ Primitive(a) = RSA("pss", least, most, hash)
          /\ RustCryptoOutcome(a) = verify_rsa_pss(hash, call)
    BY <1>5, PrimitiveTable DEF RustCryptoOutcome, RustCryptoVerify
  <2> QED BY <1>2, <2>1 DEF verify_rsa_pss
<1>6. CASE a \in {"EcdsaP256Sha256", "EcdsaP256Sha384", "EcdsaP384Sha256", "EcdsaP384Sha384"}
  <2>1. PICK curve, hash : /\ hash # "sha512"
                           /\ Primitive(a) = ECDSA(curve, hash)
                           /\ RustCryptoOutcome(a) = VerifyEcdsa(curve, hash, call)
    BY <1>6, PrimitiveTable DEF RustCryptoOutcome, RustCryptoVerify, NativeHash,
         verify_ecdsa_p256_sha256, verify_ecdsa_p256_sha384,
         verify_ecdsa_p384_sha256, verify_ecdsa_p384_sha384
  <2> QED BY <1>3, <2>1
<1>7. CASE a = "Ed25519"
  <2>1. Primitive(a).scheme = "ed25519" /\ Primitive(a).hash = "none"
    BY <1>7, PrimitiveTable DEF ED25519
  <2>2. Loads(Primitive(a)) <=> call.key.type = "ed25519"
    BY <2>1 DEF Loads, IsRsa, KeyFits
  <2> QED BY <1>7, <2>1, <2>2 DEF RustCryptoOutcome, RustCryptoVerify, verify_ed25519
<1> QED BY <1>1, <1>4, <1>5, <1>6, <1>7 DEF VerificationAlgorithm

\* The algorithm that is chosen is the declared one, for the curve the key names.
LEMMA NamedAlgorithm ==
  ASSUME NEW c, verification_algorithm(c) # Absent
  PROVE  LET a == verification_algorithm(c)
         IN  /\ a \in VerificationAlgorithm
             /\ Declares(c, Primitive(a).scheme, Primitive(a).hash)
             /\ Primitive(a).scheme = "ecdsa" => Primitive(a).curve = c.key.curve
<1> DEFINE a == verification_algorithm(c)
<1>1. CASE c.oid = "rsassaPss"
  <2>1. /\ c.params \notin {Absent, Undecodable}
        /\ \/ c.params.hash = "sha256" /\ a = "RsaPssSha256"
           \/ c.params.hash = "sha384" /\ a = "RsaPssSha384"
           \/ c.params.hash = "sha512" /\ a = "RsaPssSha512"
    BY <1>1, BuildAssumption DEF verification_algorithm, rsa_pss_algorithm, rsa_pss_digest_bits
  <2>2. Primitive(a).scheme = "pss" /\ Primitive(a).hash = c.params.hash
    BY <2>1, PrimitiveTable DEF RSA
  <2> QED BY <1>1, <2>1, <2>2 DEF Declares, VerificationAlgorithm
<1>2. CASE c.oid \in {"ecdsaWithSha256", "ecdsaWithSha384", "ecdsaWithSha512"}
  <2>1. \/ a = "EcdsaP256Sha256" /\ c.key.curve = "P256" /\ c.oid = "ecdsaWithSha256"
        \/ a = "EcdsaP256Sha384" /\ c.key.curve = "P256" /\ c.oid = "ecdsaWithSha384"
        \/ a = "EcdsaP256Sha512" /\ c.key.curve = "P256" /\ c.oid = "ecdsaWithSha512"
        \/ a = "EcdsaP384Sha256" /\ c.key.curve = "P384" /\ c.oid = "ecdsaWithSha256"
        \/ a = "EcdsaP384Sha384" /\ c.key.curve = "P384" /\ c.oid = "ecdsaWithSha384"
        \/ a = "EcdsaP384Sha512" /\ c.key.curve = "P384" /\ c.oid = "ecdsaWithSha512"
    BY <1>2 DEF verification_algorithm, ecdsa_algorithm
  <2> HIDE DEF a
  <2>2. /\ a \in VerificationAlgorithm
        /\ Declares(c, Primitive(a).scheme, Primitive(a).hash)
        /\ Primitive(a).curve = c.key.curve
    BY <2>1, PrimitiveTable DEF ECDSA, Declares, VerificationAlgorithm
  <2> QED BY <2>2 DEF a
<1>3. CASE c.oid \notin {"rsassaPss", "ecdsaWithSha256", "ecdsaWithSha384", "ecdsaWithSha512"}
  <2>1. \/ a = "RsaPkcs1Sha1" /\ c.oid \in {"pkcs1Sha1WithRsa", "sha1WithRsa"}
        \/ a = "RsaPkcs1Sha256" /\ c.oid = "sha256WithRsa"
        \/ a = "RsaPkcs1Sha384" /\ c.oid = "sha384WithRsa"
        \/ a = "RsaPkcs1Sha512" /\ c.oid = "sha512WithRsa"
        \/ a = "Ed25519" /\ c.oid = "ed25519"
    BY <1>3 DEF verification_algorithm
  <2> HIDE DEF a
  <2>2. /\ a \in VerificationAlgorithm
        /\ Declares(c, Primitive(a).scheme, Primitive(a).hash)
        /\ Primitive(a).scheme # "ecdsa"
    BY <2>1, PrimitiveTable DEF RSA, ED25519, Declares, VerificationAlgorithm
  <2> QED BY <2>2 DEF a
<1> QED BY <1>1, <1>2, <1>3

\* A library that answers Ok has verified what the algorithm stands for.
LEMMA OkMeansVerified ==
  ASSUME NEW b \in Library, Outcome(b) = "Ok"
  PROVE  LET a == verification_algorithm(call)
         IN  /\ a # Absent
             /\ KeyFits(Primitive(a), call.key)
             /\ Verifies(Primitive(a).scheme, Primitive(a).hash, call.signature)
             /\ b # "aws_lc" =>
                  ~(Primitive(a).scheme = "ecdsa" /\ Primitive(a).hash = "sha512")
             /\ IsRsa(Primitive(a)) =>
                  IF b = "rust_crypto" THEN rsa_public_key(call.key)
                  ELSE /\ Primitive(a).least <= MeasuredBits(b, call.key)
                       /\ call.key.bits <= Primitive(a).most
<1> DEFINE a == verification_algorithm(call)
           m == Primitive(a)
<1>1. a # Absent
  BY DEF Outcome, Library
<1>2. a \in VerificationAlgorithm
  BY <1>1, NamedAlgorithm
<1>3. CASE b = "rust_crypto"
  <2>1. RustCryptoOutcome(a) = "Ok"
    BY <1>1, <1>3 DEF Outcome
  <2>2. /\ ~(m.scheme = "ecdsa" /\ m.hash = "sha512") /\ Loads(m)
        /\ Verifies(m.scheme, m.hash, call.signature)
    BY <1>2, <2>1, RustCryptoTable DEF Verified
  <2>3. KeyFits(m, call.key)
    BY <2>2 DEF Loads, KeyFits, rsa_public_key, from_public_key_der
  <2> QED BY <1>1, <1>3, <2>2, <2>3 DEF Loads
<1>4. CASE b # "rust_crypto"
  <2>1. KeyBytesOutcome(b, a) = "Ok" /\ b \in {"ring", "aws_lc"}
    BY <1>1, <1>4 DEF Outcome, Library
  <2>2. /\ backend_algorithm(b, a) # Absent
        /\ UnparsedPublicKeyVerifies(b, backend_algorithm(b, a), call.key, call.signature)
    BY <2>1 DEF KeyBytesOutcome, Verified
  <2>3. /\ backend_algorithm(b, a) = m
        /\ b # "aws_lc" => ~(m.scheme = "ecdsa" /\ m.hash = "sha512")
    BY <1>2, <2>1, <2>2, RingTable DEF Primitive
  <2> QED BY <1>1, <1>4, <2>2, <2>3 DEF UnparsedPublicKeyVerifies
<1> QED BY <1>3, <1>4

\* In the signature's words: an Ok from a library is VerifiedAsDeclared.
LEMMA OkAsDeclared ==
  ASSUME NEW b \in Library, Outcome(b) = "Ok"
  PROVE  /\ call.signature.genuine
         /\ Declares(call, call.signature.scheme, call.signature.hash)
         /\ call.signature.scheme = "ecdsa" => call.key.type = call.key.curve
<1> DEFINE a == verification_algorithm(call)
           m == Primitive(a)
<1>1. a # Absent /\ KeyFits(m, call.key) /\ Verifies(m.scheme, m.hash, call.signature)
  BY OkMeansVerified
<1>2. Declares(call, m.scheme, m.hash) /\ (m.scheme = "ecdsa" => m.curve = call.key.curve)
  BY <1>1, NamedAlgorithm
<1> HIDE DEF m
<1>3. m.scheme = call.signature.scheme /\ m.hash = call.signature.hash /\ call.signature.genuine
  BY <1>1 DEF Verifies
<1>4. ASSUME call.signature.scheme = "ecdsa" PROVE call.key.type = call.key.curve
  BY <1>1, <1>2, <1>3, <1>4 DEF KeyFits, IsRsa
<1> QED BY <1>2, <1>3, <1>4

\* For every build and every call: no provider but the fuzzing one answers Ok to
\* anything but a signature by this key for this message, of the declared scheme
\* and hash and with a key of the declared curve.
THEOREM AlwaysVerifiedAsDeclared == Spec => []VerifiedAsDeclared
<1>1. Inv => VerifiedAsDeclared
  <2> SUFFICES ASSUME Inv, NEW p \in Asked \ {"fuzzing"}, answers[p] = "Ok"
               PROVE  /\ call.signature.genuine
                      /\ Declares(call, call.signature.scheme, call.signature.hash)
                      /\ call.signature.scheme = "ecdsa" => call.key.type = call.key.curve
    BY DEF VerifiedAsDeclared
  <2>1. Outcome(BackendOf(p)) = "Ok" /\ p \in Providers
    BY DEF Inv
  <2>2. BackendOf(p) \in Implementations /\ BackendOf(p) # "fuzzing"
    BY <2>1, BackendsAreImplementations DEF BackendOf, default_provider
  <2>3. BackendOf(p) # "undetermined"
    BY <2>1 DEF Outcome
  <2> QED BY <2>1, <2>2, <2>3, OkAsDeclared DEF Implementations
<1> QED BY <1>1, InvHolds, PTL

-----------------------------------------------------------------------------
LEMMA ModulusBytes == MIN_RSA_MODULUS_BYTES = 256 /\ MAX_RSA_MODULUS_BYTES = 1024
BY DEF MIN_RSA_MODULUS_BYTES, MAX_RSA_MODULUS_BYTES

\* What rounding up to whole bytes does to a number of bits.
LEMMA BytesOf ==
  ASSUME NEW bits \in Nat, NEW bytes, bytes = (bits + 7) \div 8
  PROVE  /\ bytes \in Int /\ RoundedUp(bits) = 8 * bytes
         /\ bits <= 8 * bytes /\ 8 * bytes <= bits + 7
<1>1. bytes \in Int /\ bits <= 8 * bytes /\ 8 * bytes <= bits + 7
  OBVIOUS
<1>2. RoundedUp(bits) = 8 * bytes
  BY DEF RoundedUp
<1> QED BY <1>1, <1>2

\* The bounds of RustCrypto's backend on the bytes of a modulus, as bounds on bits.
LEMMA BytesInBounds ==
  ASSUME NEW bits \in Nat
  PROVE  ((bits + 7) \div 8) \in MIN_RSA_MODULUS_BYTES..MAX_RSA_MODULUS_BYTES
           <=> 2048 <= RoundedUp(bits) /\ bits <= 8192
<1> DEFINE bytes == (bits + 7) \div 8
<1>1. /\ bytes \in Int /\ RoundedUp(bits) = 8 * bytes
      /\ bits <= 8 * bytes /\ 8 * bytes <= bits + 7
  BY BytesOf
<1> HIDE DEF bytes
<1>2. bytes \in 256..1024 <=> 2048 <= RoundedUp(bits) /\ bits <= 8192
  BY <1>1
<1>3. bytes \in MIN_RSA_MODULUS_BYTES..MAX_RSA_MODULUS_BYTES
        <=> 2048 <= RoundedUp(bits) /\ bits <= 8192
  BY <1>2, ModulusBytes
<1> QED BY <1>3 DEF bytes

\* A key that RustCrypto takes reaches the least size in whole bytes.
LEMMA RustCryptoKeySize ==
  ASSUME NEW key, key.bits \in Nat
  PROVE  rsa_public_key(key) <=>
           /\ from_public_key_der(key)
           /\ 2048 <= RoundedUp(key.bits) /\ key.bits <= 8192
BY BytesInBounds DEF rsa_public_key

\* A size that reaches a limit only when rounded up is on the edge.
LEMMA EdgeOfLimit ==
  ASSUME NEW bits \in Nat, NEW least \in {1024, 2048},
         least <= RoundedUp(bits), ~(least <= bits)
  PROVE  bits \in (least - 7)..(least - 1)
<1>1. RoundedUp(bits) \in Int /\ RoundedUp(bits) <= bits + 7
  BY BytesOf
<1> QED BY <1>1

\* What one library verifies another does too, if it has the primitive and finds
\* the key large enough, or else the key is on the edge.
LEMMA KeyBytesFollow ==
  ASSUME call \in Calls, NEW b \in {"ring", "aws_lc"},
         NEW a, a = verification_algorithm(call), a # Absent,
         KeyFits(Primitive(a), call.key),
         Verifies(Primitive(a).scheme, Primitive(a).hash, call.signature),
         ~(Primitive(a).scheme = "ecdsa" /\ Primitive(a).hash = "sha512"),
         NEW size \in {call.key.bits, RoundedUp(call.key.bits)},
         IsRsa(Primitive(a)) => Primitive(a).least <= size /\ call.key.bits <= Primitive(a).most
  PROVE  \/ Outcome(b) = "Ok"
         \/ OnTheEdge(call) /\ b \notin rounding /\ size # call.key.bits
<1> DEFINE m == Primitive(a)
<1>1. a \in VerificationAlgorithm
  BY NamedAlgorithm
<1>2. backend_algorithm(b, a) = m /\ m # Absent
  BY <1>1, RingTable, PrimitiveTyped DEF Primitive
<1>3. /\ IsRsa(m) => /\ m.least = IF m.hash = "sha1" THEN 1024 ELSE 2048
                     /\ m.least <= size /\ call.key.bits <= m.most
      /\ KeyFits(m, call.key) /\ Verifies(m.scheme, m.hash, call.signature)
  BY <1>1, PrimitiveTyped
<1>4. call.key.bits \in Nat
  BY BuildAssumption
<1> HIDE DEF m
<1>5. call.key.bits <= RoundedUp(call.key.bits)
  BY <1>4 DEF RoundedUp
<1>6. CASE IsRsa(m) => m.least <= MeasuredBits(b, call.key)
  <2>1. UnparsedPublicKeyVerifies(b, m, call.key, call.signature)
    BY <1>3, <1>6 DEF UnparsedPublicKeyVerifies
  <2>2. KeyBytesOutcome(b, a) = "Ok"
    BY <1>2, <2>1 DEF KeyBytesOutcome, Verified
  <2> QED BY <2>2 DEF Outcome
<1>7. CASE IsRsa(m) /\ ~(m.least <= MeasuredBits(b, call.key))
  <2>1. m.least \in {1024, 2048} /\ m.least <= size
    BY <1>3, <1>7
  <2>2. RoundedUp(call.key.bits) \in Nat
    BY <1>4 DEF RoundedUp
  <2>3. b \notin rounding /\ size # call.key.bits /\ size = RoundedUp(call.key.bits)
    BY <1>4, <1>5, <1>7, <2>1, <2>2 DEF MeasuredBits
  <2>4. ~(m.least <= call.key.bits)
    BY <1>7, <2>3 DEF MeasuredBits
  <2>5. call.key.bits \in (m.least - 7)..(m.least - 1)
    BY <1>4, <2>1, <2>3, <2>4, EdgeOfLimit
  <2>6. m.scheme = call.signature.scheme /\ m.hash = call.signature.hash
    BY <1>3 DEF Verifies
  <2>7. OnTheEdge(call)
    BY <1>3, <1>7, <2>5, <2>6 DEF OnTheEdge, IsRsa
  <2> QED BY <2>3, <2>7
<1> QED BY <1>6, <1>7

LEMMA RustCryptoWithinOthers ==
  ASSUME call \in Calls, Outcome("rust_crypto") = "Ok", NEW b \in {"ring", "aws_lc"}
  PROVE  Outcome(b) = "Ok" \/ (OnTheEdge(call) /\ b \notin rounding)
<1> DEFINE a == verification_algorithm(call)
           m == Primitive(a)
           size == RoundedUp(call.key.bits)
<1>1. /\ a # Absent /\ KeyFits(m, call.key) /\ Verifies(m.scheme, m.hash, call.signature)
      /\ ~(m.scheme = "ecdsa" /\ m.hash = "sha512")
      /\ IsRsa(m) => rsa_public_key(call.key)
  BY OkMeansVerified DEF Library
<1>2. a \in VerificationAlgorithm
  BY <1>1, NamedAlgorithm
<1>3. IsRsa(m) => m.most = 8192 /\ m.least \in {1024, 2048}
  BY <1>2, PrimitiveTyped
<1>4. call.key.bits \in Nat /\ size \in Nat
  BY BuildAssumption DEF RoundedUp
<1> HIDE DEF m
<1>5. IsRsa(m) => m.least <= size /\ call.key.bits <= m.most
  BY <1>1, <1>3, <1>4, RustCryptoKeySize
<1> HIDE DEF a
<1> QED BY <1>1, <1>5, KeyBytesFollow DEF m, a

LEMMA RingWithinAwsLc ==
  ASSUME call \in Calls, Outcome("ring") = "Ok"
  PROVE  \/ Outcome("aws_lc") = "Ok"
         \/ OnTheEdge(call) /\ "aws_lc" \notin rounding /\ "ring" \in rounding
<1> DEFINE a == verification_algorithm(call)
           m == Primitive(a)
           size == MeasuredBits("ring", call.key)
<1>1. /\ a # Absent /\ KeyFits(m, call.key) /\ Verifies(m.scheme, m.hash, call.signature)
      /\ ~(m.scheme = "ecdsa" /\ m.hash = "sha512")
      /\ IsRsa(m) => m.least <= size /\ call.key.bits <= m.most
  BY OkMeansVerified DEF Library
<1>2. /\ size \in {call.key.bits, RoundedUp(call.key.bits)}
      /\ "ring" \notin rounding => size = call.key.bits
  BY DEF MeasuredBits
<1> HIDE DEF a, size
<1>3. \/ Outcome("aws_lc") = "Ok"
      \/ OnTheEdge(call) /\ "aws_lc" \notin rounding /\ size # call.key.bits
  BY <1>1, <1>2, KeyBytesFollow DEF a
<1> QED BY <1>2, <1>3

\* For every build and every call, with keys of any size and whichever libraries
\* round up: what RustCrypto verifies ring verifies, and what ring verifies
\* aws-lc-rs verifies, but for the RSA keys on the edge.
THEOREM BackendsAlwaysNested == Spec => []BackendsNested
<1>1. Inv => BackendsNested
  <2> SUFFICES ASSUME Inv, NEW p \in Asked, NEW q \in Asked, answers[p] = "Ok",
                      <<p, q>> \in {<<"rust_crypto", "ring">>, <<"ring", "aws_lc">>,
                                   <<"rust_crypto", "aws_lc">>}
               PROVE  \/ answers[q] = "Ok"
                      \/ /\ OnTheEdge(call) /\ q \notin rounding
                         /\ (p = "rust_crypto" \/ p \in rounding)
    BY DEF BackendsNested
  <2>1. BackendOf(p) = p /\ BackendOf(q) = q
    BY DEF BackendOf
  <2>2. answers[p] = Outcome(p) /\ answers[q] = Outcome(q) /\ call \in Calls
    BY <2>1 DEF Inv
  <2>3. CASE p = "rust_crypto"
    <3>1. q \in {"ring", "aws_lc"}
      BY <2>3
    <3> QED BY <2>2, <2>3, <3>1, RustCryptoWithinOthers
  <2>4. CASE p = "ring" /\ q = "aws_lc"
    BY <2>2, <2>4, RingWithinAwsLc
  <2> QED BY <2>3, <2>4
<1> QED BY <1>1, InvHolds, PTL

-----------------------------------------------------------------------------
LEMMA DefaultOfOne ==
  ASSUME Inv
  PROVE  /\ Cardinality(features) = 1 <=> default_provider(features) # "undetermined"
         /\ \A q \in features : Cardinality(features) = 1 => default_provider(features) = q
<1>1. features \subseteq Library
  BY BuildAssumption DEF Inv
<1>2. IsFiniteSet(features)
  <2>1. IsFiniteSet({"aws_lc"}) /\ IsFiniteSet({"ring"}) /\ IsFiniteSet({"rust_crypto"})
    BY FS_Singleton
  <2>2. IsFiniteSet({"aws_lc"} \cup {"ring"})
    BY <2>1, FS_Union
  <2>3. IsFiniteSet(({"aws_lc"} \cup {"ring"}) \cup {"rust_crypto"})
    BY <2>1, <2>2, FS_Union
  <2>4. Library = ({"aws_lc"} \cup {"ring"}) \cup {"rust_crypto"}
    BY DEF Library
  <2> QED BY <1>1, <2>3, <2>4, FS_Subset
<1>3. Cardinality(features) = 1 <=> \E x : features = {x}
  BY <1>2, FS_Singleton
<1>4. ASSUME NEW x, features = {x}
      PROVE  default_provider(features) = x /\ x \in Library
  BY <1>1, <1>4 DEF default_provider, Library
<1>5. ASSUME default_provider(features) # "undetermined"
      PROVE  \E x : features = {x}
  BY <1>5 DEF default_provider
<1>6. "undetermined" \notin Library
  BY DEF Library
<1>7. ASSUME NEW q \in features, Cardinality(features) = 1
      PROVE  default_provider(features) = q
  BY <1>3, <1>4, <1>7
<1> QED BY <1>3, <1>4, <1>5, <1>6, <1>7

LEMMA OnlyUndeterminedPanics ==
  ASSUME NEW b
  PROVE  Outcome(b) = "panic" <=> b = "undetermined"
<1>1. RustCryptoOutcome(verification_algorithm(call)) # "panic"
  BY DEF RustCryptoOutcome, RustCryptoVerify, verify_rsa_pkcs1, verify_rsa_pss, VerifyEcdsa,
         verify_ecdsa_p256_sha256, verify_ecdsa_p256_sha384,
         verify_ecdsa_p384_sha256, verify_ecdsa_p384_sha384, verify_ed25519, Verified
<1>2. KeyBytesOutcome(b, verification_algorithm(call)) # "panic"
  BY DEF KeyBytesOutcome, Verified
<1> QED BY <1>1, <1>2 DEF Outcome

\* For every build: the default provider answers like its only backend, and
\* panics exactly where there is not exactly one.
THEOREM DefaultAlwaysDelegates == Spec => []DefaultDelegates
<1>1. Inv => DefaultDelegates
  <2> SUFFICES ASSUME Inv, NEW p \in Asked
               PROVE  /\ answers[p] = "panic" <=> p = "default" /\ Cardinality(features) # 1
                      /\ p = "default" /\ features \cap Asked # {} /\ Cardinality(features) = 1
                           => \A q \in features : answers[q] = answers[p]
    BY DEF DefaultDelegates
  <2>1. p \in Providers /\ answers[p] = Outcome(BackendOf(p))
    BY DEF Inv
  <2>2. features \subseteq Library
    BY BuildAssumption DEF Inv
  <2>3. BackendOf(p) = "undetermined" <=> p = "default" /\ Cardinality(features) # 1
    BY <2>1, <2>2, DefaultOfOne DEF BackendOf, Providers, Library
  <2>4. ASSUME p = "default", features \cap Asked # {}, Cardinality(features) = 1,
               NEW q \in features
        PROVE  answers[q] = answers[p]
    <3>1. PICK r \in features : r \in Asked
      BY <2>4
    <3>2. default_provider(features) = q /\ default_provider(features) = r
      BY <2>4, <3>1, DefaultOfOne
    <3>3. BackendOf(q) = q /\ BackendOf(p) = q
      BY <2>2, <2>4, <3>2 DEF BackendOf, Library
    <3> QED BY <2>1, <3>1, <3>2, <3>3 DEF Inv
  <2> QED BY <2>1, <2>3, <2>4, OnlyUndeterminedPanics
<1> QED BY <1>1, InvHolds, PTL

-----------------------------------------------------------------------------
\* The tables find the algorithm of a genuine signature that they support.
LEMMA TablesFindTheAlgorithm ==
  ASSUME NEW c, Declares(c, c.signature.scheme, c.signature.hash),
         c.signature.scheme = "pss" => c.signature.hash \in {"sha256", "sha384", "sha512"},
         c.signature.scheme = "ecdsa" => c.key.curve \in {"P256", "P384"}
  PROVE  LET a == verification_algorithm(c)
         IN  /\ a # Absent
             /\ Primitive(a).scheme = c.signature.scheme
             /\ Primitive(a).hash = c.signature.hash
<1> DEFINE a == verification_algorithm(c)
           s == c.signature.scheme
           h == c.signature.hash
<1>1. CASE s = "pkcs1"
  <2>1. \/ a = "RsaPkcs1Sha1" /\ h = "sha1"
        \/ a = "RsaPkcs1Sha256" /\ h = "sha256"
        \/ a = "RsaPkcs1Sha384" /\ h = "sha384"
        \/ a = "RsaPkcs1Sha512" /\ h = "sha512"
    BY <1>1 DEF Declares, verification_algorithm
  <2>2. a # Absent
    BY <2>1, BuildAssumption DEF VerificationAlgorithm
  <2> HIDE DEF a
  <2>3. Primitive(a).scheme = s /\ Primitive(a).hash = h
    BY <1>1, <2>1, PrimitiveTable DEF RSA
  <2> QED BY <2>2, <2>3 DEF a
<1>2. CASE s = "pss"
  <2>1. /\ c.oid = "rsassaPss" /\ c.params \notin {Absent, Undecodable}
        /\ c.params.hash = h /\ h \in {"sha256", "sha384", "sha512"}
    BY <1>2 DEF Declares
  <2>2. a = rsa_pss_algorithm(c.params)
    BY <2>1 DEF verification_algorithm
  <2>3. \/ a = "RsaPssSha256" /\ h = "sha256"
        \/ a = "RsaPssSha384" /\ h = "sha384"
        \/ a = "RsaPssSha512" /\ h = "sha512"
    BY <2>1, <2>2 DEF rsa_pss_algorithm, rsa_pss_digest_bits
  <2>4. a # Absent
    BY <2>3, BuildAssumption DEF VerificationAlgorithm
  <2> HIDE DEF a
  <2>5. Primitive(a).scheme = s /\ Primitive(a).hash = h
    BY <1>2, <2>3, PrimitiveTable DEF RSA
  <2> QED BY <2>4, <2>5 DEF a
<1>3. CASE s = "ecdsa"
  <2>1. c.key.curve \in {"P256", "P384"}
    BY <1>3
  <2>2. \/ a \in {"EcdsaP256Sha256", "EcdsaP384Sha256"} /\ h = "sha256"
        \/ a \in {"EcdsaP256Sha384", "EcdsaP384Sha384"} /\ h = "sha384"
        \/ a \in {"EcdsaP256Sha512", "EcdsaP384Sha512"} /\ h = "sha512"
    BY <1>3, <2>1 DEF Declares, verification_algorithm, ecdsa_algorithm
  <2>3. a # Absent
    BY <2>2, BuildAssumption DEF VerificationAlgorithm
  <2> HIDE DEF a
  <2>4. Primitive(a).scheme = s /\ Primitive(a).hash = h
    BY <1>3, <2>2, PrimitiveTable DEF ECDSA
  <2> QED BY <2>3, <2>4 DEF a
<1>4. CASE s = "ed25519"
  <2>1. a = "Ed25519" /\ h = "none"
    BY <1>4 DEF Declares, verification_algorithm
  <2>2. a # Absent
    BY <2>1, BuildAssumption DEF VerificationAlgorithm
  <2> HIDE DEF a
  <2>3. Primitive(a).scheme = s /\ Primitive(a).hash = h
    BY <1>4, <2>1, PrimitiveTable DEF ED25519
  <2> QED BY <2>2, <2>3 DEF a
<1> QED BY <1>1, <1>2, <1>3, <1>4 DEF Declares

LEMMA GenuineAccepted ==
  ASSUME call \in Calls, Genuine(call), NEW b \in Library, ~Unsupported(b, call)
  PROVE  Outcome(b) = "Ok"
<1> DEFINE a == verification_algorithm(call)
           m == Primitive(a)
<1>1. /\ call.signature.scheme = "ecdsa" =>
           /\ call.key.curve \in {"P256", "P384"} /\ call.key.type = call.key.curve
           /\ b # "aws_lc" => call.signature.hash # "sha512"
      /\ call.signature.scheme = "pss" =>
           /\ call.signature.hash \in {"sha256", "sha384", "sha512"}
           /\ call.signature.mgf = call.signature.hash
           /\ call.signature.salt = HashBytes(call.signature.hash)
      /\ call.signature.scheme \in {"pkcs1", "pss"} =>
           /\ ~(call.key.bits > 8192) /\ ~(SizeSeen(b, call) < LeastSize(b, call))
           /\ b = "rust_crypto" => from_public_key_der(call.key)
  BY DEF Unsupported
<1>2. a # Absent /\ m.scheme = call.signature.scheme /\ m.hash = call.signature.hash
  BY <1>1, TablesFindTheAlgorithm DEF Genuine
<1>3. /\ a \in VerificationAlgorithm
      /\ m.scheme = "ecdsa" => m.curve = call.key.curve
  BY <1>2, NamedAlgorithm
<1>4. /\ m \in Primitives /\ m # Absent
      /\ IsRsa(m) => /\ m.most = 8192
                     /\ m.least = IF m.hash = "sha1" THEN 1024 ELSE 2048
  BY <1>3, PrimitiveTyped
<1>5. call.key.bits \in Nat /\ RoundedUp(call.key.bits) \in Nat
  BY BuildAssumption DEF RoundedUp
<1>6. /\ RustCryptoOutcome(a) =
           IF m.scheme = "ecdsa" /\ m.hash = "sha512" THEN "InvalidKey"
           ELSE IF ~Loads(m) THEN "InvalidKey"
           ELSE Verified(Verifies(m.scheme, m.hash, call.signature))
      /\ backend_algorithm("ring", a) =
           IF m.scheme = "ecdsa" /\ m.hash = "sha512" THEN Absent ELSE m
      /\ backend_algorithm("aws_lc", a) = m
  BY <1>3, RustCryptoTable, RingTable DEF Primitive
<1> HIDE DEF m
<1>7. Verifies(m.scheme, m.hash, call.signature)
  BY <1>1, <1>2 DEF Verifies, Genuine
<1>8. KeyFits(m, call.key)
  <2>1. m.scheme \in {"pkcs1", "pss", "ecdsa", "ed25519"}
    BY <1>4 DEF Primitives
  <2>2. /\ m.scheme \in {"pkcs1", "pss"} => call.key.type = "rsa"
        /\ m.scheme = "ed25519" => call.key.type = "ed25519"
    BY <1>2, BuildAssumption DEF Genuine
  <2> QED BY <1>1, <1>2, <1>3, <2>1, <2>2 DEF KeyFits, IsRsa
<1>9. CASE b = "rust_crypto"
  <2>1. ASSUME IsRsa(m) PROVE rsa_public_key(call.key)
    <3>1. call.signature.scheme \in {"pkcs1", "pss"}
      BY <1>2, <2>1 DEF IsRsa
    <3>2. from_public_key_der(call.key) /\ ~(call.key.bits > 8192)
      BY <1>1, <1>9, <3>1
    <3>3. ~(RoundedUp(call.key.bits) < 2048)
      BY <1>1, <1>9, <3>1 DEF SizeSeen, LeastSize
    <3>4. 2048 <= RoundedUp(call.key.bits) /\ call.key.bits <= 8192
      BY <1>5, <3>2, <3>3
    <3> QED BY <1>5, <3>2, <3>4, RustCryptoKeySize
  <2>2. Loads(m) /\ ~(m.scheme = "ecdsa" /\ m.hash = "sha512")
    BY <1>1, <1>2, <1>8, <1>9, <2>1 DEF Loads
  <2>3. RustCryptoOutcome(a) = "Ok"
    BY <1>6, <1>7, <2>2 DEF Verified
  <2> QED BY <1>2, <1>9, <2>3 DEF Outcome
<1>10. CASE b \in {"ring", "aws_lc"}
  <2>1. backend_algorithm(b, a) = m
    BY <1>1, <1>2, <1>6, <1>10
  <2>2. ASSUME IsRsa(m)
        PROVE  m.least <= MeasuredBits(b, call.key) /\ call.key.bits <= m.most
    <3>1. call.signature.scheme \in {"pkcs1", "pss"}
      BY <1>2, <2>2 DEF IsRsa
    <3>2. ~(call.key.bits > 8192) /\ ~(SizeSeen(b, call) < LeastSize(b, call))
      BY <1>1, <3>1
    <3>3. SizeSeen(b, call) = MeasuredBits(b, call.key) /\ LeastSize(b, call) = m.least
      BY <1>2, <1>4, <1>10, <2>2 DEF SizeSeen, MeasuredBits, LeastSize
    <3>4. MeasuredBits(b, call.key) \in Nat /\ m.least \in Nat
      BY <1>4, <1>5, <2>2 DEF MeasuredBits
    <3> QED BY <1>4, <1>5, <2>2, <3>2, <3>3, <3>4
  <2>3. UnparsedPublicKeyVerifies(b, m, call.key, call.signature)
    BY <1>7, <1>8, <2>2 DEF UnparsedPublicKeyVerifies
  <2>4. KeyBytesOutcome(b, a) = "Ok"
    BY <1>4, <2>1, <2>3 DEF KeyBytesOutcome, Verified
  <2> QED BY <1>2, <1>10, <2>4 DEF Outcome
<1> QED BY <1>9, <1>10 DEF Library

\* For every build and every call: no genuine signature is refused but for one of
\* the gaps that are listed.
THEOREM GenuineNeverRefused == Spec => []NoGenuineSignatureRefused
<1>1. Inv => NoGenuineSignatureRefused
  <2> SUFFICES ASSUME Inv, NEW p \in Asked \cap Library, Genuine(call), ~Unsupported(p, call)
               PROVE  answers[p] = "Ok"
    BY DEF NoGenuineSignatureRefused
  <2>1. BackendOf(p) = p
    BY DEF BackendOf, Library
  <2>2. answers[p] = Outcome(p) /\ call \in Calls
    BY <2>1 DEF Inv
  <2> QED BY <2>2, GenuineAccepted
<1> QED BY <1>1, InvHolds, PTL
=============================================================================
