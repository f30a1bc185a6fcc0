------------------------- MODULE MCSignatureBackends -------------------------
(* Certificates whose algorithm, key and signature fit together in all, some  *)
(* or none of their parts.                                                    *)
EXTENDS SignatureBackends

CONSTANTS absent, undecodable

MCFeatures == SUBSET Library

Key(oid, curve, type, bits) == [oid |-> oid, curve |-> curve, type |-> type, bits |-> bits]

RsaSizes ==
  {1016, 1017, 1023, 1024, 2040, 2041, 2047, 2048, 4096, 4097, 8192, 8193}

RsaKey(b) == Key("rsaEncryption", absent, "rsa", b)
RsaKeys == {RsaKey(b) : b \in RsaSizes} \cup {Key("rsassaPss", absent, "rsa", 2048)}
EcKeys ==
  {Key("ecPublicKey", c, t, 0) :
     c \in {absent, undecodable, "P256", "P384", "P521"}, t \in {"P256", "P384", "P521"}}
EdKey == Key("ed25519", absent, "ed25519", 0)

Sig(scheme, hash, genuine) ==
  [scheme |-> scheme, hash |-> hash, mgf |-> "none", salt |-> 0, genuine |-> genuine]
PssSig(params, genuine) ==
  [scheme |-> "pss", hash |-> params.hash, mgf |-> params.mgf, salt |-> params.salt,
   genuine |-> genuine]

Hashes == {"sha1", "sha256", "sha384", "sha512"}

\* As a rule mask and salt go by the hash; others, the defaults for SHA-1 among
\* them, may be declared with it.
Usual(h) == [hash |-> h, mgf |-> h, salt |-> HashBytes(h)]
PssParams ==
  {Usual(h) : h \in Hashes}
    \cup {[hash |-> "sha256", mgf |-> m, salt |-> n] : m \in {"sha1", "sha256"}, n \in {20, 32, 64}}
    \cup {[hash |-> "sha512", mgf |-> "sha256", salt |-> 64]}

Pkcs1Signatures == {Sig("pkcs1", h, TRUE) : h \in Hashes} \cup {Sig("pkcs1", "sha256", FALSE)}
PssSignatures == {PssSig(p, TRUE) : p \in PssParams} \cup {PssSig(Usual("sha256"), FALSE)}
EcSignatures ==
  {Sig("ecdsa", h, TRUE) : h \in {"sha256", "sha384", "sha512"}} \cup {Sig("ecdsa", "sha256", FALSE)}
EdSignatures == {Sig("ed25519", "none", g) : g \in BOOLEAN}

Call(oid, params, key, signature) ==
  [oid |-> oid, params |-> params, key |-> key, signature |-> signature]

RsaCalls ==
  {Call(o, absent, k, s) :
     o \in {"pkcs1Sha1WithRsa", "sha1WithRsa", "sha256WithRsa", "sha384WithRsa", "sha512WithRsa"},
     k \in RsaKeys, s \in Pkcs1Signatures \cup {PssSig(Usual("sha256"), TRUE)}}
PssCalls ==
  {Call("rsassaPss", p, RsaKey(2048), s) :
     p \in {absent, undecodable} \cup PssParams, s \in PssSignatures \cup Pkcs1Signatures}
    \cup {Call("rsassaPss", Usual(h), k, PssSig(Usual(h), TRUE)) : h \in Hashes, k \in RsaKeys}
EcCalls ==
  {Call(o, absent, k, s) :
     o \in {"ecdsaWithSha256", "ecdsaWithSha384", "ecdsaWithSha512"},
     k \in EcKeys, s \in EcSignatures}
OtherCalls ==
  {Call(o, absent, k, Sig("ed25519", "none", FALSE)) :
     o \in {"ed25519", "ed448", "sha256WithRsa", "ecdsaWithSha256"},
     k \in {EdKey, RsaKey(2048), Key("ecPublicKey", "P256", "P256", 0)}}
    \cup {Call(o, absent, EdKey, s) : o \in {"ed25519", "ed448"}, s \in EdSignatures}

MCCalls == RsaCalls \cup PssCalls \cup EcCalls \cup OtherCalls
=============================================================================
