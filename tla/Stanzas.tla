------------------------------ MODULE Stanzas ------------------------------
(***************************************************************************)
(* The stanzas of wrapper/passargon2id.rs, x25519.rs, mlkem768_x25519.rs   *)
(* and threshold.rs: how a key is sealed for one recipient and opened.     *)
(*                                                                         *)
(* A stanza is a sequence of cells, one for each field.  Keys, secrets and *)
(* ciphertexts are terms: a public key names its secret key, an agreed     *)
(* secret the two secrets it comes from, a derived key all it is derived   *)
(* from.  A key pair belongs to an owner; random values are drawn, no two  *)
(* alike.                                                                  *)
(***************************************************************************)
EXTENDS Integers, Sequences, SequencesExt

(* Long-term and random values.                                            *)
Owned(owner)     == [owner |-> owner]
Drawn(rng, what) == [rng |-> rng, what |-> what]

(* X25519 and ML-KEM (x25519_dalek, ml_kem).  Decapsulating a ciphertext   *)
(* made for another key gives no error but a secret nobody else has.       *)
Public(secret)         == [public |-> secret]
Agreed(secret, public) == {secret, public.public}
Encapsulated(ek, rng)  == [to |-> ek, coins |-> rng]
Shared(ct)             == [shared |-> ct]
Decapsulated(dk, ct)   == IF ct.to = Public(dk) THEN Shared(ct) ELSE [rejected |-> ct, by |-> dk]

(* wrap_key and unwrap_key: the nonce is stored beside the wrapped key.    *)
Wrapped(kek, key, nonce, aad) == [kek |-> kek, key |-> key, nonce |-> nonce, aad |-> aad]
Unwrapped(kek, wrapped, nonce, aad) ==
  IF wrapped = Wrapped(kek, wrapped.key, nonce, aad) THEN {wrapped.key} ELSE {}

StanzaVersion == 1
ArgonVersion  == 19

-----------------------------------------------------------------------------
(* PASS-ARGON2ID: version, Argon2 version, memory, time, parallelism,      *)
(* salt, nonce, wrapped key.                                               *)

(* Argon2Profile, and what argon2::Params::new admits.                     *)
MemoryKib == [interactive |-> 65536, balanced |-> 262144, paranoid |-> 1048576]
ParamsValid(memory, time, lanes) == lanes >= 1 /\ memory >= 8 * lanes /\ time >= 1

(* derive_kek_from_passphrase.                                             *)
PassKek(pass, memory, time, lanes, salt) ==
  [pass |-> pass, memory |-> memory, time |-> time, lanes |-> lanes, salt |-> salt]

SealPass(key, profile, pass, rng, aad) ==
  LET salt  == Drawn(rng, "salt")
      nonce == Drawn(rng, "nonce")
      kek   == PassKek(pass, MemoryKib[profile], 3, 1, salt)
  IN  <<StanzaVersion, ArgonVersion, MemoryKib[profile], 3, 1, salt, nonce,
        Wrapped(kek, key, nonce, aad)>>

PassParses(s) ==
  /\ Len(s) = 8
  /\ s[1] = StanzaVersion
  /\ s[2] = ArgonVersion
  /\ ParamsValid(s[3], s[4], s[5])

OpenPass(s, pass, aad) == Unwrapped(PassKek(pass, s[3], s[4], s[5], s[6]), s[8], s[7], aad)

-----------------------------------------------------------------------------
(* X25519: version, ephemeral public key, nonce, wrapped key.              *)

(* derive_x25519_kek; the salt is both public keys.                        *)
X25519Kek(agreed, eph, recipient) == [agreed |-> agreed, salt |-> <<eph, recipient>>]

SealX25519(key, recipient, rng, aad) ==
  LET eph   == Drawn(rng, "eph")
      nonce == Drawn(rng, "nonce")
      kek   == X25519Kek(Agreed(eph, recipient), Public(eph), recipient)
  IN  <<StanzaVersion, Public(eph), nonce, Wrapped(kek, key, nonce, aad)>>

X25519Parses(s) == Len(s) = 4 /\ s[1] = StanzaVersion

OpenX25519(s, secret, aad) ==
  Unwrapped(X25519Kek(Agreed(secret, s[2]), s[2], Public(secret)), s[4], s[3], aad)

-----------------------------------------------------------------------------
(* ML-KEM-768 and X25519: version, ephemeral public key, ML-KEM            *)
(* ciphertext, nonce, wrapped key.  A public key is [x, ek], a secret key  *)
(* [x, dk].                                                                *)

HybridPublic(secret) == [x |-> Public(secret.x), ek |-> Public(secret.dk)]

(* derive_hybrid_kek.  (The variant derives from the agreed secret alone.) *)
AgreedKek(agreed, shared, eph, recipient) ==
  [agreed |-> agreed, salt |-> <<eph, recipient>>]
HybridKek(agreed, shared, eph, recipient) ==
  [agreed |-> agreed, shared |-> shared, salt |-> <<eph, recipient>>]

SealHybrid(key, recipient, rng, aad) ==
  LET eph   == Drawn(rng, "eph")
      nonce == Drawn(rng, "nonce")
      ct    == Encapsulated(recipient.ek, Drawn(rng, "coins"))
      kek   == HybridKek(Agreed(eph, recipient.x), Shared(ct), Public(eph), recipient.x)
  IN  <<StanzaVersion, Public(eph), ct, nonce, Wrapped(kek, key, nonce, aad)>>

HybridParses(s) == Len(s) = 5 /\ s[1] = StanzaVersion

OpenHybrid(s, secret, aad) ==
  Unwrapped(HybridKek(Agreed(secret.x, s[2]), Decapsulated(secret.dk, s[3]),
                      s[2], Public(secret.x)),
            s[5], s[4], aad)

-----------------------------------------------------------------------------
(* The three of them by wrapper type.  An owner has a passphrase or a      *)
(* secret key of the type.                                                 *)
HybridSecret(owner) == [x |-> Owned(owner), dk |-> [seed |-> owner]]

SealStanza(type, key, owner, profile, rng, aad) ==
  CASE type = "pass"   -> SealPass(key, profile, Owned(owner), rng, aad)
    [] type = "x25519" -> SealX25519(key, Public(Owned(owner)), rng, aad)
    [] type = "mlkem"  -> SealHybrid(key, HybridPublic(HybridSecret(owner)), rng, aad)

StanzaParses(type, s) ==
  CASE type = "pass"   -> PassParses(s)
    [] type = "x25519" -> X25519Parses(s)
    [] type = "mlkem"  -> HybridParses(s)

(* The keys a stanza gives: none or one.                                   *)
OpenStanza(type, s, owner, aad) ==
  IF ~StanzaParses(type, s) THEN {}
  ELSE CASE type = "pass"   -> OpenPass(s, Owned(owner), aad)
         [] type = "x25519" -> OpenX25519(s, Owned(owner), aad)
         [] type = "mlkem"  -> OpenHybrid(s, HybridSecret(owner), aad)

=============================================================================
