-------------------------- MODULE SignatureBackends --------------------------
(***************************************************************************)
(* The backends that check signatures: which one the features of a build   *)
(* select, and how each gets from the algorithm a certificate names and    *)
(* the key of its issuer to the primitive of its library.  The libraries   *)
(* are external.                                                           *)
(*                                                                         *)
(* A call is a record of                                                   *)
(*   oid, params   the signature's algorithm; params is Absent, what does  *)
(*                 not parse (Undecodable) or what RSASSA-PSS declares:    *)
(*                 [hash, mgf, salt], the hash of the message, that of the *)
(*                 mask generation function, the length of the salt        *)
(*   key           the issuer's key: [oid, curve, type, bits], where oid   *)
(*                 and curve are those of the SubjectPublicKeyInfo (curve  *)
(*                 may be Absent or no object identifier, Undecodable),    *)
(*                 type is what the key itself is, bits an RSA key's size  *)
(*   signature     [scheme, hash, mgf, salt, genuine]: how it was made,    *)
(*                 mgf and salt being those of a "pss" signature, and      *)
(*                 whether it was made with this key for this message      *)
(***************************************************************************)
EXTENDS Integers, FiniteSets

CONSTANTS
  Absent,
  Undecodable,
  RsaCrateMaximumBits,   \* RustCrypto's rsa crate loads no larger key
  Features,              \* the sets of features of the builds considered
  Calls

Library == {"aws_lc", "ring", "rust_crypto"}

VARIABLES
  features,    \* of this build
  rounding,    \* the libraries that take an RSA key for as long as its bytes
  call,        \* the arguments of verify_signature
  pc,
  provider,    \* the one that is asked
  backend,     \* the implementation behind it
  algorithm,   \* the VerificationAlgorithm chosen
  answers      \* what each provider has answered

vars == <<features, rounding, call, pc, provider, backend, algorithm, answers>>

-----------------------------------------------------------------------------
(* The algorithm a certificate names.                                      *)

VerificationAlgorithm ==
  {"RsaPkcs1Sha1", "RsaPkcs1Sha256", "RsaPkcs1Sha384", "RsaPkcs1Sha512",
   "RsaPssSha256", "RsaPssSha384", "RsaPssSha512",
   "EcdsaP256Sha256", "EcdsaP256Sha384", "EcdsaP256Sha512",
   "EcdsaP384Sha256", "EcdsaP384Sha384", "EcdsaP384Sha512",
   "Ed25519"}

\* Slip: parameters that name no supported hash are read as their default.
rsa_pss_digest_bits_or_default(params) ==
  IF params \in {Absent, Undecodable} THEN 256
  ELSE IF params.hash = "sha384" THEN 384
  ELSE IF params.hash = "sha512" THEN 512
  ELSE 256

\* Of the parameters only the hash of the message is read.
rsa_pss_digest_bits(params) ==
  IF params \in {Absent, Undecodable} THEN Absent
  ELSE IF params.hash = "sha256" THEN 256
  ELSE IF params.hash = "sha384" THEN 384
  ELSE IF params.hash = "sha512" THEN 512
  ELSE Absent

rsa_pss_algorithm(params) ==
  LET bits == rsa_pss_digest_bits(params)
  IN  IF bits = 256 THEN "RsaPssSha256"
      ELSE IF bits = 384 THEN "RsaPssSha384"
      ELSE IF bits = 512 THEN "RsaPssSha512"
      ELSE Absent

ecdsa_algorithm(key, sha_len) ==
  IF key.curve = "P256"
    THEN IF sha_len = 256 THEN "EcdsaP256Sha256"
         ELSE IF sha_len = 384 THEN "EcdsaP256Sha384"
         ELSE IF sha_len = 512 THEN "EcdsaP256Sha512"
         ELSE Absent
  ELSE IF key.curve = "P384"
    THEN IF sha_len = 256 THEN "EcdsaP384Sha256"
         ELSE IF sha_len = 384 THEN "EcdsaP384Sha384"
         ELSE IF sha_len = 512 THEN "EcdsaP384Sha512"
         ELSE Absent
  ELSE Absent

verification_algorithm(c) ==
  IF c.oid \in {"pkcs1Sha1WithRsa", "sha1WithRsa"} THEN "RsaPkcs1Sha1"
  ELSE IF c.oid = "sha256WithRsa" THEN "RsaPkcs1Sha256"
  ELSE IF c.oid = "sha384WithRsa" THEN "RsaPkcs1Sha384"
  ELSE IF c.oid = "sha512WithRsa" THEN "RsaPkcs1Sha512"
  ELSE IF c.oid = "rsassaPss" THEN rsa_pss_algorithm(c.params)
  ELSE IF c.oid = "ecdsaWithSha256" THEN ecdsa_algorithm(c.key, 256)
  ELSE IF c.oid = "ecdsaWithSha384" THEN ecdsa_algorithm(c.key, 384)
  ELSE IF c.oid = "ecdsaWithSha512" THEN ecdsa_algorithm(c.key, 512)
  ELSE IF c.oid = "ed25519" THEN "Ed25519"
  ELSE Absent

-----------------------------------------------------------------------------
(* The primitives of the libraries, external.  ring and aws-lc-rs have     *)
(* statics whose names say what they verify and the sizes of RSA keys they *)
(* take.                                                                   *)

RSA(padding, least, most, hash) ==
  [scheme |-> padding, hash |-> hash, curve |-> Absent, least |-> least, most |-> most]
ECDSA(curve, hash) ==
  [scheme |-> "ecdsa", hash |-> hash, curve |-> curve, least |-> 0, most |-> 0]
ED25519 ==
  [scheme |-> "ed25519", hash |-> "none", curve |-> Absent, least |-> 0, most |-> 0]

\* Absent and Undecodable are no values, and only a key of a scheme makes genuine
\* signatures of that scheme.
ASSUME BuildAssumption ==
  /\ Absent # Undecodable /\ Absent \notin {256, 384, 512}
  /\ Absent \notin VerificationAlgorithm
  /\ Absent \notin [scheme : {"pkcs1", "pss", "ecdsa", "ed25519"},
                    hash   : {"sha1", "sha256", "sha384", "sha512", "none"},
                    curve  : {Absent, "P256", "P384"},
                    least  : {0, 1024, 2048}, most : {0, 8192}]
  /\ RsaCrateMaximumBits \in Nat
  /\ \A f \in Features : f \subseteq Library
  /\ \A c \in Calls :
       /\ c.key.bits \in Nat
       /\ c.signature.genuine \in BOOLEAN
       /\ c.signature.genuine =>
            /\ c.signature.scheme \in {"pkcs1", "pss"} => c.key.type = "rsa"
            /\ c.signature.scheme = "ed25519" => c.key.type = "ed25519"

IsRsa(primitive) == primitive.scheme \in {"pkcs1", "pss"}

HashBytes(hash) ==
  IF hash = "sha256" THEN 32 ELSE IF hash = "sha384" THEN 48 ELSE IF hash = "sha512" THEN 64 ELSE 20

\* With RSASSA-PSS the libraries take the message's hash for the mask too, and a
\* salt of its length.
Verifies(scheme, hash, signature) ==
  /\ signature.genuine
  /\ signature.scheme = scheme /\ signature.hash = hash
  /\ scheme = "pss" => signature.mgf = hash /\ signature.salt = HashBytes(hash)

\* The key is one the primitive can be used with.
KeyFits(primitive, key) ==
  \/ IsRsa(primitive) /\ key.type = "rsa"
  \/ primitive.scheme = "ecdsa" /\ key.type = primitive.curve
  \/ primitive.scheme = "ed25519" /\ key.type = "ed25519"

RoundedUp(bits) == 8 * ((bits + 7) \div 8)

\* Which size of a modulus ring and aws-lc-rs hold against the least they take
\* is theirs to say; for the most it makes no difference.
MeasuredBits(b, key) == IF b \in rounding THEN RoundedUp(key.bits) ELSE key.bits

UnparsedPublicKeyVerifies(b, primitive, key, signature) ==
  /\ KeyFits(primitive, key)
  /\ IsRsa(primitive) =>
       primitive.least <= MeasuredBits(b, key) /\ key.bits <= primitive.most
  /\ Verifies(primitive.scheme, primitive.hash, signature)

-----------------------------------------------------------------------------
(* What ring and aws-lc-rs make of an algorithm.                           *)

\* The variant that a digest size in a library's group of a curve stands for.
ecdsa_p256(sha_len) ==
  IF sha_len = 256 THEN "EcdsaP256Sha256"
  ELSE IF sha_len = 384 THEN "EcdsaP256Sha384"
  ELSE "EcdsaP256Sha512"

ecdsa_p384(sha_len) ==
  IF sha_len = 256 THEN "EcdsaP384Sha256"
  ELSE IF sha_len = 384 THEN "EcdsaP384Sha384"
  ELSE "EcdsaP384Sha512"

\* Slip: the P-256 primitive in the group of P-384.
RingGroupsCrossed(a) ==
  IF a = ecdsa_p256(256) THEN ECDSA("P256", "sha256")
  ELSE IF a = ecdsa_p256(384) THEN ECDSA("P256", "sha384")
  ELSE IF a = ecdsa_p384(256) THEN ECDSA("P256", "sha256")
  ELSE IF a = ecdsa_p384(384) THEN ECDSA("P384", "sha384")
  ELSE Absent

\* ring's groups ecdsa_p256 and ecdsa_p384.
RingGroups(a) ==
  IF a = ecdsa_p256(256) THEN ECDSA("P256", "sha256")
  ELSE IF a = ecdsa_p256(384) THEN ECDSA("P256", "sha384")
  ELSE IF a = ecdsa_p384(256) THEN ECDSA("P384", "sha256")
  ELSE IF a = ecdsa_p384(384) THEN ECDSA("P384", "sha384")
  ELSE Absent

\* The groups of aws-lc-rs.
AwsLcGroups(a) ==
  IF a = ecdsa_p256(256) THEN ECDSA("P256", "sha256")
  ELSE IF a = ecdsa_p256(384) THEN ECDSA("P256", "sha384")
  ELSE IF a = ecdsa_p256(512) THEN ECDSA("P256", "sha512")
  ELSE IF a = ecdsa_p384(256) THEN ECDSA("P384", "sha256")
  ELSE IF a = ecdsa_p384(384) THEN ECDSA("P384", "sha384")
  ELSE IF a = ecdsa_p384(512) THEN ECDSA("P384", "sha512")
  ELSE Absent

\* The primitive of ring or aws-lc-rs, if there is one.
backend_algorithm(b, a) ==
  IF a = "RsaPkcs1Sha1" THEN RSA("pkcs1", 1024, 8192, "sha1")
  ELSE IF a = "RsaPkcs1Sha256" THEN RSA("pkcs1", 2048, 8192, "sha256")
  ELSE IF a = "RsaPkcs1Sha384" THEN RSA("pkcs1", 2048, 8192, "sha384")
  ELSE IF a = "RsaPkcs1Sha512" THEN RSA("pkcs1", 2048, 8192, "sha512")
  ELSE IF a = "RsaPssSha256" THEN RSA("pss", 2048, 8192, "sha256")
  ELSE IF a = "RsaPssSha384" THEN RSA("pss", 2048, 8192, "sha384")
  ELSE IF a = "RsaPssSha512" THEN RSA("pss", 2048, 8192, "sha512")
  ELSE IF a = "Ed25519" THEN ED25519
  ELSE IF b = "ring" THEN RingGroups(a)
  ELSE AwsLcGroups(a)

-----------------------------------------------------------------------------
(* RustCrypto has a function for each kind of signature.  It loads the key *)
(* first, then reads and verifies the signature.                           *)

Verified(good) == IF good THEN "Ok" ELSE "VerificationFailed"

MIN_RSA_MODULUS_BYTES == 2048 \div 8
MAX_RSA_MODULUS_BYTES == 8192 \div 8

\* External: the rsa crate reads the whole SubjectPublicKeyInfo.
from_public_key_der(key) ==
  key.type = "rsa" /\ key.oid = "rsaEncryption" /\ key.bits <= RsaCrateMaximumBits

\* Slip: keys of any size are taken.
rsa_public_key_unbounded(key) == from_public_key_der(key)

\* The backend bounds the modulus itself, by its whole bytes.
rsa_public_key(key) ==
  /\ from_public_key_der(key)
  /\ ((key.bits + 7) \div 8) \in MIN_RSA_MODULUS_BYTES..MAX_RSA_MODULUS_BYTES

verify_rsa_pkcs1(digest, c) ==
  IF rsa_public_key(c.key) THEN Verified(Verifies("pkcs1", digest, c.signature)) ELSE "InvalidKey"

verify_rsa_pss(digest, c) ==
  IF rsa_public_key(c.key) THEN Verified(Verifies("pss", digest, c.signature)) ELSE "InvalidKey"

\* External: the hash of a curve's own verify; verify_prehash is given one.
NativeHash(curve) == IF curve = "P256" THEN "sha256" ELSE "sha384"

VerifyEcdsa(curve, hash, c) ==
  IF c.key.type = curve THEN Verified(Verifies("ecdsa", hash, c.signature)) ELSE "InvalidKey"

verify_ecdsa_p256_sha256(c) == VerifyEcdsa("P256", NativeHash("P256"), c)

\* Slip: the curve's own verify, as in the function above.
verify_ecdsa_p256_sha384_native(c) == VerifyEcdsa("P256", NativeHash("P256"), c)

verify_ecdsa_p256_sha384(c) == VerifyEcdsa("P256", "sha384", c)

verify_ecdsa_p384_sha256(c) == VerifyEcdsa("P384", "sha256", c)

verify_ecdsa_p384_sha384(c) == VerifyEcdsa("P384", NativeHash("P384"), c)

verify_ed25519(c) ==
  IF c.key.type = "ed25519" THEN Verified(Verifies("ed25519", "none", c.signature))
  ELSE "InvalidKey"

\* The function for an algorithm; there is none for ECDSA with SHA-512.
RustCryptoVerify(a, c) ==
  IF a = "RsaPkcs1Sha1" THEN verify_rsa_pkcs1("sha1", c)
  ELSE IF a = "RsaPkcs1Sha256" THEN verify_rsa_pkcs1("sha256", c)
  ELSE IF a = "RsaPkcs1Sha384" THEN verify_rsa_pkcs1("sha384", c)
  ELSE IF a = "RsaPkcs1Sha512" THEN verify_rsa_pkcs1("sha512", c)
  ELSE IF a = "RsaPssSha256" THEN verify_rsa_pss("sha256", c)
  ELSE IF a = "RsaPssSha384" THEN verify_rsa_pss("sha384", c)
  ELSE IF a = "RsaPssSha512" THEN verify_rsa_pss("sha512", c)
  ELSE IF a = "EcdsaP256Sha256" THEN verify_ecdsa_p256_sha256(c)
  ELSE IF a = "EcdsaP256Sha384" THEN verify_ecdsa_p256_sha384(c)
  ELSE IF a = "EcdsaP384Sha256" THEN verify_ecdsa_p384_sha256(c)
  ELSE IF a = "EcdsaP384Sha384" THEN verify_ecdsa_p384_sha384(c)
  ELSE verify_ed25519(c)

-----------------------------------------------------------------------------
(* The calls.                                                              *)

\* Slip: the first backend is taken where there are several.
default_provider_first(f) ==
  IF "aws_lc" \in f THEN "aws_lc"
  ELSE IF "ring" \in f THEN "ring"
  ELSE IF "rust_crypto" \in f THEN "rust_crypto"
  ELSE "undetermined"

\* A backend only if it is the only one.
default_provider(f) ==
  IF f = {"aws_lc"} THEN "aws_lc"
  ELSE IF f = {"ring"} THEN "ring"
  ELSE IF f = {"rust_crypto"} THEN "rust_crypto"
  ELSE "undetermined"

\* A validator's provider: the default, one that is compiled in, or the
\* fuzzing provider.
Providers == features \cup {"default", "fuzzing"}

Asked == DOMAIN answers

Init ==
  /\ features \in Features
  /\ rounding \in SUBSET (features \ {"rust_crypto"})
  /\ call \in Calls
  /\ pc = "idle"
  /\ provider = Absent
  /\ backend = Absent
  /\ algorithm = Absent
  /\ answers = [p \in {} |-> Absent]

VerifySignature(p) ==
  /\ pc = "idle"
  /\ provider' = p
  /\ backend' = IF p = "default" THEN default_provider(features) ELSE p
  /\ pc' = "asked"
  /\ UNCHANGED <<features, rounding, call, algorithm, answers>>

Answer(result) ==
  /\ answers' = [p \in Asked \cup {provider} |-> IF p = provider THEN result ELSE answers[p]]
  /\ pc' = "idle"
  /\ provider' = Absent
  /\ backend' = Absent
  /\ algorithm' = Absent
  /\ UNCHANGED <<features, rounding, call>>

Panic == pc = "asked" /\ backend = "undetermined" /\ Answer("panic")

AcceptAnything == pc = "asked" /\ backend = "fuzzing" /\ Answer("Ok")

RejectAlgorithm ==
  /\ pc = "asked" /\ backend \in Library
  /\ verification_algorithm(call) = Absent
  /\ Answer("InvalidKey")

SelectAlgorithm ==
  /\ pc = "asked" /\ backend \in Library
  /\ verification_algorithm(call) # Absent
  /\ algorithm' = verification_algorithm(call)
  /\ pc' = "selected"
  /\ UNCHANGED <<features, rounding, call, provider, backend, answers>>

\* ring and aws-lc-rs look at key and signature together.
VerifyWithKeyBytes ==
  /\ pc = "selected" /\ backend \in {"aws_lc", "ring"}
  /\ LET primitive == backend_algorithm(backend, algorithm)
     IN  Answer(IF primitive = Absent THEN "InvalidKey"
                ELSE Verified(UnparsedPublicKeyVerifies(backend, primitive,
                                                        call.key, call.signature)))

\* RustCrypto knows no ECDSA with SHA-512.
RejectDigest ==
  /\ pc = "selected" /\ backend = "rust_crypto"
  /\ algorithm \in {"EcdsaP256Sha512", "EcdsaP384Sha512"}
  /\ Answer("InvalidKey")

LoadKeyAndVerify ==
  /\ pc = "selected" /\ backend = "rust_crypto"
  /\ algorithm \notin {"EcdsaP256Sha512", "EcdsaP384Sha512"}
  /\ Answer(RustCryptoVerify(algorithm, call))

Next ==
  \/ \E p \in Providers \ Asked : VerifySignature(p)
  \/ Panic
  \/ AcceptAnything
  \/ RejectAlgorithm
  \/ SelectAlgorithm
  \/ VerifyWithKeyBytes
  \/ RejectDigest
  \/ LoadKeyAndVerify

Spec == Init /\ [][Next]_vars

-----------------------------------------------------------------------------
(* Properties.                                                             *)

\* What an algorithm identifier declares a signature to be.
Declares(c, scheme, hash) ==
  \/ scheme = "pkcs1" /\ hash = "sha1" /\ c.oid \in {"pkcs1Sha1WithRsa", "sha1WithRsa"}
  \/ scheme = "pkcs1" /\ hash = "sha256" /\ c.oid = "sha256WithRsa"
  \/ scheme = "pkcs1" /\ hash = "sha384" /\ c.oid = "sha384WithRsa"
  \/ scheme = "pkcs1" /\ hash = "sha512" /\ c.oid = "sha512WithRsa"
  \/ /\ scheme = "pss" /\ c.oid = "rsassaPss"
     /\ c.params \notin {Absent, Undecodable} /\ c.params.hash = hash
  \/ scheme = "ecdsa" /\ hash = "sha256" /\ c.oid = "ecdsaWithSha256"
  \/ scheme = "ecdsa" /\ hash = "sha384" /\ c.oid = "ecdsaWithSha384"
  \/ scheme = "ecdsa" /\ hash = "sha512" /\ c.oid = "ecdsaWithSha512"
  \/ scheme = "ed25519" /\ hash = "none" /\ c.oid = "ed25519"

\* A provider that answers Ok, other than the fuzzing one, has seen a signature
\* by this key for this message, of the scheme and with the hash the certificate
\* declares, and with a key of the curve its SubjectPublicKeyInfo names: tables of
\* algorithms that do not fit together, or a hash that is guessed, would show
\* here.  It says nothing of the mask function and the length of the salt that
\* RSASSA-PSS declares, which rsa_pss_digest_bits does not read.
VerifiedAsDeclared ==
  \A p \in Asked \ {"fuzzing"} :
    answers[p] = "Ok" =>
      /\ call.signature.genuine
      /\ Declares(call, call.signature.scheme, call.signature.hash)
      /\ call.signature.scheme = "ecdsa" => call.key.type = call.key.curve

\* The signature is in every respect what the certificate declares.
Genuine(c) ==
  /\ c.signature.genuine
  /\ Declares(c, c.signature.scheme, c.signature.hash)
  /\ c.signature.scheme = "pss" =>
       c.signature.mgf = c.params.mgf /\ c.signature.salt = c.params.salt

\* The size at which a library's limits apply, and the least it takes.
SizeSeen(lib, c) ==
  IF lib = "rust_crypto" \/ lib \in rounding THEN RoundedUp(c.key.bits) ELSE c.key.bits
LeastSize(lib, c) ==
  IF lib # "rust_crypto" /\ c.signature.hash = "sha1" THEN 1024 ELSE 2048

\* The gaps of a library: ECDSA with SHA-512, except for aws-lc-rs; curves other
\* than P-256 and P-384; a key that is not of the curve it names; RSASSA-PSS with
\* another hash than SHA-256, SHA-384 or SHA-512, another hash in the mask function,
\* or a salt of another length than the hash has; RSA keys that are too large or
\* too small, and those that the rsa crate does not load.
Unsupported(lib, c) ==
  \/ c.signature.scheme = "ecdsa" /\ c.signature.hash = "sha512" /\ lib # "aws_lc"
  \/ c.signature.scheme = "ecdsa" /\ c.key.curve \notin {"P256", "P384"}
  \/ c.signature.scheme = "ecdsa" /\ c.key.type # c.key.curve
  \/ /\ c.signature.scheme = "pss"
     /\ \/ c.signature.hash \notin {"sha256", "sha384", "sha512"}
        \/ c.signature.mgf # c.signature.hash
        \/ c.signature.salt # HashBytes(c.signature.hash)
  \/ /\ c.signature.scheme \in {"pkcs1", "pss"}
     /\ \/ c.key.bits > 8192
        \/ SizeSeen(lib, c) < LeastSize(lib, c)
        \/ lib = "rust_crypto" /\ ~from_public_key_der(c.key)

\* No genuine signature is refused but for one of the gaps: each row of each
\* library's table, and each function of RustCrypto, verifies what its algorithm
\* stands for, the pairs of curve and hash that are seldom seen included.
NoGenuineSignatureRefused ==
  \A p \in Asked \cap Library :
    (Genuine(call) /\ ~Unsupported(p, call)) => answers[p] = "Ok"

\* RSA keys that reach the least size only when rounded up to whole bytes.
OnTheEdge(c) ==
  /\ c.signature.scheme \in {"pkcs1", "pss"}
  /\ c.key.bits \in IF c.signature.hash = "sha1" THEN 1017..1023 ELSE 2041..2047

\* Changing the backend from RustCrypto to ring or from ring to aws-lc-rs loses
\* no signature, but for RSA keys of up to seven bits less than the least size,
\* where the one rounds up and the other does not: RustCrypto trusts no other key
\* that the other two reject for its size.
BackendsNested ==
  \A p, q \in Asked :
    (/\ answers[p] = "Ok"
     /\ <<p, q>> \in {<<"rust_crypto", "ring">>, <<"ring", "aws_lc">>, <<"rust_crypto", "aws_lc">>})
    => \/ answers[q] = "Ok"
       \/ OnTheEdge(call) /\ q \notin rounding /\ (p = "rust_crypto" \/ p \in rounding)

\* The default provider answers like the one backend of the build, and panics
\* where there is none or more than one; nothing else panics.
DefaultDelegates ==
  \A p \in Asked :
    /\ answers[p] = "panic" <=> p = "default" /\ Cardinality(features) # 1
    /\ p = "default" /\ features \cap Asked # {} /\ Cardinality(features) = 1
         => \A q \in features : answers[q] = answers[p]
=============================================================================
