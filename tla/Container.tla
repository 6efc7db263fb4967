----------------------------- MODULE Container -----------------------------
(***************************************************************************)
(* A HydraLock container and the pure operations on it: ops/encrypt.rs,    *)
(* ops/decrypt.rs, ops/rewrap.rs and the recipient handling of api/mod.rs. *)
(*                                                                         *)
(* Cryptography is symbolic.  A ciphertext is a record of what it was      *)
(* sealed with; it opens under exactly that key and associated data.  A    *)
(* hash is the value hashed.  Subkeys are named by the pair they are       *)
(* derived from, (fmk, file_uuid), and by the place they are used in.      *)
(***************************************************************************)
EXTENDS Integers, Sequences, FiniteSets, SequencesExt, MetadataPlaintext, Stanzas

CONSTANTS
  Keys,           \* the passphrases and key pairs of the people involved
  KeyType,        \* which kind of wrapper each of them takes
  InvalidKeys,    \* those whose ML-KEM public key is none
  MaxPlaintext    \* 64 GiB

WrapperTypes == {"pass", "x25519", "mlkem"}

ASSUME KeysAssumption ==
  /\ KeyType \in [Keys -> WrapperTypes]
  /\ InvalidKeys \subseteq {key \in Keys : KeyType[key] = "mlkem"}

ASSUME LimitAssumption == MaxPlaintext \in Nat

(* Byte lengths that enter the fixed header.                               *)
FixedHeaderLen   == 70
PolicySectionLen == 8
WrapsHeaderLen   == 4
EntryHeaderLen   == 8
UuidLen          == 16
StanzaLen        == [pass |-> 110, x25519 |-> 94, mlkem |-> 1182]
SealOverhead     == 28     \* nonce and tag around the metadata
MaxWrapperIdLen  == 65535

-----------------------------------------------------------------------------
(* Recipients.  A recipient is [key, profile, label]; label is <<>> when   *)
(* omitted and <<l>> when given, l being [name, len]; the profile is that  *)
(* of a passphrase.                                                        *)

(* "pass{idx}" or "rcpt{idx}"; fewer than ten recipients, so 5 bytes.      *)
DefaultLabel(type, idx) ==
  [name |-> <<IF type = "pass" THEN "pass" ELSE "rcpt", idx>>, len |-> 5]

Label(r, i) == IF r.label = <<>> THEN DefaultLabel(KeyType[r.key], i - 1) ELSE r.label[1]

(* The label length with omitted labels taken for empty, and as it is.     *)
GivenLabelLen(r, i) == IF r.label = <<>> THEN 0 ELSE r.label[1].len
LabelLen(r, i)      == Label(r, i).len

(* compute_entry_sizes: (wrapper_id_len, stanza_len) of each new entry.    *)
EntrySizes(recipients) ==
  [i \in DOMAIN recipients |->
     [id |-> UuidLen + LabelLen(recipients[i], i),
      stanza |-> StanzaLen[KeyType[recipients[i].key]]]]

(* compute_wraps_section_len.                                              *)
WrapsSectionLen(sizes) ==
  WrapsHeaderLen + Total([i \in DOMAIN sizes |-> EntryHeaderLen + sizes[i].id + sizes[i].stanza])

(* The length of an encoded wraps section.                                 *)
EncodedWrapsLen(wraps) ==
  WrapsSectionLen([i \in DOMAIN wraps |->
                     [id |-> UuidLen + wraps[i].label.len, stanza |-> StanzaLen[wraps[i].type]]])

-----------------------------------------------------------------------------
(* The fixed header: every section length, and where the payload begins.   *)
Header(wrapsLen, metadataLen) ==
  [policyLen     |-> PolicySectionLen,
   wrapsLen      |-> wrapsLen,
   metadataLen   |-> metadataLen,
   payloadOffset |-> FixedHeaderLen + PolicySectionLen + wrapsLen + metadataLen]

(* build_new_fixed_header: only what depends on the new entries changes.   *)
(* (The variant carries wraps_len over with the other fields.)             *)
OldHeader(old, sizes) == Header(old.wrapsLen, old.metadataLen)
NewHeader(old, sizes) == Header(WrapsSectionLen(sizes), old.metadataLen)

(* WrapperAadInput, and the index each wrapper is sealed with: its place   *)
(* counted from 0.  (The variant counts from 1.)                           *)
IndexFromOne(i) == i
SealIndex(i)    == i - 1

WrapperAad(index, uuid, header) == [index |-> index, uuid |-> uuid, header |-> header]

(* Seal the file key for each recipient.  "seal" is the randomness of the  *)
(* operation: two sealings never give the same bytes.                      *)
SealWrappers(recipients, fmk, uuid, header, seal) ==
  [i \in DOMAIN recipients |->
     [uuid  |-> uuid,
      label |-> Label(recipients[i], i),
      type  |-> KeyType[recipients[i].key],
      stanza |-> SealStanza(KeyType[recipients[i].key], fmk, recipients[i].key,
                            recipients[i].profile, <<seal, i>>,
                            WrapperAad(SealIndex(i), uuid, header))]]

(* Sealing for an ML-KEM public key fails unless the key is one.           *)
CanSeal(recipients) == \A i \in DOMAIN recipients : recipients[i].key \notin InvalidKeys

(* WrapsSection::encode: a wrapper_id has a length of 16 bits.             *)
IdFits(label)  == UuidLen + label.len <= MaxWrapperIdLen
IdsFit(wraps)  == \A i \in DOMAIN wraps : IdFits(wraps[i].label)

(* WrapsSection::encode and WrapsSection::parse: no wrapper_id twice.      *)
DistinctIds(wraps) ==
  \A i, j \in DOMAIN wraps :
    wraps[i].uuid = wraps[j].uuid /\ wraps[i].label.name = wraps[j].label.name => i = j

(* PolicySection::encode and PolicySection::parse.                         *)
PolicyValid(policy) ==
  /\ policy.total # 0
  /\ policy.threshold # 0
  /\ policy.threshold <= policy.total
  /\ policy.count >= policy.total

(* encrypt_metadata and decrypt_metadata: the associated data binds the    *)
(* file and the hash of the fixed header.                                  *)
SealMetadata(fmk, uuid, header, plain) ==
  [fmk |-> fmk, uuid |-> uuid, header |-> header, plain |-> plain]

MetadataOpens(m, fmk, uuid, header) == m.fmk = fmk /\ m.uuid = uuid /\ m.header = header

(* The length of the sealed metadata.                                      *)
MetadataLen(plain) == SealOverhead + CborLen(plain)

(* The payload section as the payload modules model it: sealed chunks of   *)
(* one plaintext, with a root over their ciphertexts.                      *)
SealPayload(fmk, uuid, text)     == [fmk |-> fmk, uuid |-> uuid, text |-> text]
ManifestRoot(fmk, uuid, payload) == [fmk |-> fmk, uuid |-> uuid, over |-> payload]

(* What the footer tag is computed over: every byte before it.            *)
Covered(h, p, w, m, y) == <<h, p, w, m, y>>

FooterTag(fmk, uuid, h, p, w, m, y) ==
  [fmk |-> fmk, uuid |-> uuid, over |-> Covered(h, p, w, m, y)]

(* build_footer after the sections are assembled.                          *)
Assemble(fmk, uuid, h, p, w, m, y, root) ==
  [header |-> h, policy |-> p, wraps |-> w, metadata |-> m, payload |-> y,
   footer |-> [root |-> root, tag |-> FooterTag(fmk, uuid, h, p, w, m, y)]]

-----------------------------------------------------------------------------
(* Opening.                                                                *)

(* The sections lie where the header says.  Sections of other lengths are  *)
(* sliced elsewhere and fail to parse, which error depending on the bytes. *)
LayoutHolds(c) ==
  /\ c.header.payloadOffset = FixedHeaderLen + c.header.policyLen
                                + c.header.wrapsLen + c.header.metadataLen
  /\ c.header.policyLen = PolicySectionLen
  /\ c.header.wrapsLen = EncodedWrapsLen(c.wraps)
  /\ c.header.metadataLen = MetadataLen(c.metadata.plain)

Parses(c) == LayoutHolds(c) /\ PolicyValid(c.policy) /\ DistinctIds(c.wraps)

(* extract_file_uuid: the prefix of the first wrapper_id.                  *)
FileUuid(c) == c.wraps[1].uuid

(* What key gets from the stanza in place i: only one of the key's type is *)
(* tried, under the associated data of its place in the section.           *)
StanzaGives(c, i, key) ==
  IF c.wraps[i].type # KeyType[key] THEN {}
  ELSE OpenStanza(c.wraps[i].type, c.wraps[i].stanza, key,
                  WrapperAad(i - 1, FileUuid(c), c.header))

(* try_unwrap_fmk: {} when no wrapper matches, else the key of the first.  *)
UnwrappedFmk(c, key) ==
  UNION {StanzaGives(c, i, key) :
           i \in {j \in DOMAIN c.wraps : \A k \in 1 .. j - 1 : StanzaGives(c, k, key) = {}}}

(* verify_container_no_decrypt.  (The variant checks the manifest root and *)
(* forgets the footer tag.)                                                *)
VerifiesRootOnly(c, fmk, uuid) == c.footer.root = ManifestRoot(fmk, uuid, c.payload)

Verifies(c, fmk, uuid) ==
  c.footer.tag = FooterTag(fmk, uuid, c.header, c.policy, c.wraps, c.metadata, c.payload)

Failed(error)          == [status |-> error, text |-> "", metadata |-> <<>>]
Opened(text, metadata) == [status |-> "ok", text |-> text, metadata |-> <<metadata>>]

(* What decrypt does with the recovered key.                               *)
DecryptWith(c, fmk, uuid) ==
  IF ~Verifies(c, fmk, uuid) THEN Failed("VerifyFailed")
  ELSE IF ~MetadataOpens(c.metadata, fmk, uuid, c.header) \/ ~MetadataParses(c.metadata.plain)
       THEN Failed("MetadataDecrypt")
  ELSE IF MetadataOf(c.metadata.plain).size > MaxPlaintext
       THEN Failed("PlaintextSizeLimitExceeded")
  ELSE IF c.payload.fmk # fmk \/ c.payload.uuid # uuid THEN Failed("PayloadDecrypt")
  ELSE IF c.footer.root # ManifestRoot(fmk, uuid, c.payload) THEN Failed("VerifyFailed")
  ELSE Opened(c.payload.text, MetadataOf(c.metadata.plain))

(* ops::decrypt::decrypt.                                                  *)
Decrypt(c, key) ==
  LET fmks == UnwrappedFmk(c, key)
  IN  IF ~Parses(c) THEN Failed("ParseFailed")
      ELSE IF fmks = {} THEN Failed("NoMatchingWrapper")
      ELSE DecryptWith(c, CHOOSE fmk \in fmks : TRUE, FileUuid(c))

-----------------------------------------------------------------------------
(* Making containers.  Each returns [status, container].                   *)

NoContainer      == <<>>
Refused(error)   == [status |-> error, container |-> NoContainer]
Produced(c)      == [status |-> "ok", container |-> c]

(* The policy encrypt writes: any one wrapper opens.                       *)
OneOfOne(recipients) == [threshold |-> 1, total |-> 1, count |-> Len(recipients)]

(* What encrypt says of its input [text, size, name, mime, created,        *)
(* chunkSize, epochSize, padding]: all but the text, the manifest root and *)
(* payload mode 0.                                                         *)
Described(input, root) ==
  [size |-> input.size, name |-> input.name, mime |-> input.mime, created |-> input.created,
   chunkSize |-> input.chunkSize, epochSize |-> input.epochSize, root |-> root, mode |-> 0,
   padding |-> input.padding]

(* The container encrypt assembles for a fresh key and file_uuid.  The     *)
(* header is made with a root of zeros in the metadata, as long as any.    *)
Encrypted(input, recipients, fmk, uuid, seal) ==
  LET payload == SealPayload(fmk, uuid, input.text)
      root    == ManifestRoot(fmk, uuid, payload)
      header  == Header(WrapsSectionLen(EntrySizes(recipients)),
                        MetadataLen(EncodeMetadata(Described(input, 0))))
  IN  Assemble(fmk, uuid, header, OneOfOne(recipients),
               SealWrappers(recipients, fmk, uuid, header, seal),
               SealMetadata(fmk, uuid, header, EncodeMetadata(Described(input, root))),
               payload, root)

(* api::encrypt and ops::encrypt::encrypt, in the order of their checks.   *)
Encrypt(input, recipients, fmk, uuid, seal) ==
  LET c == Encrypted(input, recipients, fmk, uuid, seal)
  IN  IF recipients = <<>> THEN Refused("EmptyRecipients")
      ELSE IF ~IdsFit(c.wraps) THEN Refused("WrapperIdTooLong")
      ELSE IF input.chunkSize = 0 THEN Refused("InvalidChunkSize")
      ELSE IF input.epochSize = 0 THEN Refused("InvalidEpochSize")
      ELSE IF input.size = 0 THEN Refused("ZeroPlaintextSize")
      ELSE IF ~CanSeal(recipients) THEN Refused("WrapperSealFailed")
      ELSE IF ~DistinctIds(c.wraps) THEN Refused("WrapsEncode")
      ELSE Produced(c)

(* The metadata of a rewrapped container: the old bytes, as api/mod.rs     *)
(* says, and sealed again under the new header, as it is.                  *)
KeptMetadata(c, fmk, uuid, header)     == c.metadata
ResealedMetadata(c, fmk, uuid, header) ==
  SealMetadata(fmk, uuid, header, EncodeMetadata(MetadataOf(c.metadata.plain)))

(* The container rewrap_container assembles.                               *)
Rewrapped(c, fmk, uuid, policy, wraps) ==
  LET sizes  == [i \in DOMAIN wraps |-> [id |-> UuidLen + wraps[i].label.len,
                                         stanza |-> StanzaLen[wraps[i].type]]]
      header == NewHeader(c.header, sizes)
  IN  Assemble(fmk, uuid, header, policy, wraps,
               ResealedMetadata(c, fmk, uuid, header), c.payload, c.footer.root)

(* Its check of the container it is given: the footer tag, which does not  *)
(* cover the manifest root beside it.  (The variant trusts the caller.)    *)
Untested(c, fmk, uuid)         == TRUE
OriginalVerifies(c, fmk, uuid) == Verifies(c, fmk, uuid)

(* ops::rewrap::rewrap_container, in the order of its checks.              *)
RewrapContainer(c, fmk, uuid, policy, wraps) ==
  IF Len(wraps) < policy.total THEN Refused("PolicyMismatch")
  ELSE IF ~OriginalVerifies(c, fmk, uuid) THEN Refused("InvalidOriginalContainer")
  ELSE IF ~DistinctIds(wraps) \/ ~IdsFit(wraps) THEN Refused("WrapsEncodeFailed")
  ELSE IF ~PolicyValid(policy) THEN Refused("PolicyEncodeFailed")
  ELSE IF \/ ~MetadataOpens(c.metadata, fmk, uuid, c.header)
          \/ ~MetadataParses(c.metadata.plain)
       THEN Refused("MetadataReencryptFailed")
  ELSE Produced(Rewrapped(c, fmk, uuid, policy, wraps))

(* The policy of a rewrap: threshold and total from the caller.            *)
RewrapPolicy(choice, recipients) ==
  [threshold |-> choice.threshold, total |-> choice.total, count |-> Len(recipients)]

(* The first step of a rewrap: recover the file key and seal it for the    *)
(* new recipients under the header the rewrapped container will have.      *)
RewrapWrappers(c, fmk, recipients, seal) ==
  SealWrappers(recipients, fmk, FileUuid(c),
               NewHeader(c.header, EntrySizes(recipients)), seal)

=============================================================================
