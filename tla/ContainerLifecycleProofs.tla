---------------------- MODULE ContainerLifecycleProofs ----------------------
(***************************************************************************)
(* What the life of encrypted files never does, for every value of the     *)
(* constants of ContainerLifecycle.  The first part is about the operators *)
(* of Container: a stanza opens for its owner at its place and for nobody  *)
(* else, metadata are read as they were written, a header computed before  *)
(* its sections exist fits them.  The inductive invariant of the second    *)
(* part says of every container made how it is put together, and of        *)
(* prepared recipients what they were sealed for.                          *)
(***************************************************************************)
EXTENDS ContainerLifecycle, Recursion

-----------------------------------------------------------------------------
(* Terms.                                                                  *)

LEMMA TermsDiffer ==
  /\ \A a, b : Owned(a) = Owned(b) => a = b
  /\ \A a, b : Public(a) = Public(b) => a = b
  /\ \A a, b, r, s : Encapsulated(a, r) = Encapsulated(b, s) => a = b
  /\ \A k1, k2, f1, f2, n1, n2, a1, a2 :
       Wrapped(k1, f1, n1, a1) = Wrapped(k2, f2, n2, a2) => k1 = k2 /\ f1 = f2 /\ n1 = n2 /\ a1 = a2
  /\ \A p1, p2, m1, m2, t1, t2, l1, l2, s1, s2 :
       PassKek(p1, m1, t1, l1, s1) = PassKek(p2, m2, t2, l2, s2)
         => p1 = p2 /\ m1 = m2 /\ t1 = t2 /\ l1 = l2 /\ s1 = s2
  /\ \A a1, a2, e1, e2, r1, r2 :
       X25519Kek(a1, e1, r1) = X25519Kek(a2, e2, r2) => a1 = a2 /\ e1 = e2 /\ r1 = r2
  /\ \A a1, a2, h1, h2, e1, e2, r1, r2 :
       HybridKek(a1, h1, e1, r1) = HybridKek(a2, h2, e2, r2)
         => a1 = a2 /\ h1 = h2 /\ e1 = e2 /\ r1 = r2
<1>1. /\ \A a, b : Owned(a) = Owned(b) => a = b
      /\ \A a, b : Public(a) = Public(b) => a = b
      /\ \A a, b, r, s : Encapsulated(a, r) = Encapsulated(b, s) => a = b
  BY DEF Owned, Public, Encapsulated
<1>2. \A k1, k2, f1, f2, n1, n2, a1, a2 :
        Wrapped(k1, f1, n1, a1) = Wrapped(k2, f2, n2, a2) => k1 = k2 /\ f1 = f2 /\ n1 = n2 /\ a1 = a2
  BY DEF Wrapped
<1>3. \A p1, p2, m1, m2, t1, t2, l1, l2, s1, s2 :
        PassKek(p1, m1, t1, l1, s1) = PassKek(p2, m2, t2, l2, s2)
          => p1 = p2 /\ m1 = m2 /\ t1 = t2 /\ l1 = l2 /\ s1 = s2
  BY DEF PassKek
<1>4. \A a1, a2, e1, e2, r1, r2 :
        X25519Kek(a1, e1, r1) = X25519Kek(a2, e2, r2) => a1 = a2 /\ e1 = e2 /\ r1 = r2
  BY DEF X25519Kek
<1>5. \A a1, a2, h1, h2, e1, e2, r1, r2 :
        HybridKek(a1, h1, e1, r1) = HybridKek(a2, h2, e2, r2)
          => a1 = a2 /\ h1 = h2 /\ e1 = e2 /\ r1 = r2
  BY DEF HybridKek
<1> QED BY <1>1, <1>2, <1>3, <1>4, <1>5

(* A wrapped key comes out under the very key, nonce and associated data.  *)
LEMMA UnwrapsOwn ==
  ASSUME NEW kek, NEW key, NEW nonce, NEW aad, NEW kek2, NEW nonce2, NEW aad2
  PROVE  Unwrapped(kek2, Wrapped(kek, key, nonce, aad), nonce2, aad2)
           = IF kek2 = kek /\ nonce2 = nonce /\ aad2 = aad THEN {key} ELSE {}
<1>1. Wrapped(kek, key, nonce, aad).key = key
  BY DEF Wrapped
<1>2. Wrapped(kek, key, nonce, aad) = Wrapped(kek2, key, nonce2, aad2)
        <=> kek2 = kek /\ nonce2 = nonce /\ aad2 = aad
  BY TermsDiffer
<1> QED BY <1>1, <1>2 DEF Unwrapped

(* The three kinds of stanzas.                                             *)
LEMMA PassOpens ==
  ASSUME NEW key, NEW profile \in DOMAIN MemoryKib, NEW pass, NEW rng, NEW aad, NEW pass2, NEW aad2
  PROVE  LET s == SealPass(key, profile, pass, rng, aad)
         IN  /\ PassParses(s)
             /\ OpenPass(s, pass2, aad2) = IF pass2 = pass /\ aad2 = aad THEN {key} ELSE {}
<1> DEFINE s == SealPass(key, profile, pass, rng, aad)
           memory == MemoryKib[profile]
           kek == PassKek(pass, memory, 3, 1, Drawn(rng, "salt"))
           nonce == Drawn(rng, "nonce")
<1>1. memory \in {65536, 262144, 1048576}
  BY DEF MemoryKib
<1>2. /\ Len(s) = 8 /\ s[1] = StanzaVersion /\ s[2] = ArgonVersion /\ s[3] = memory /\ s[4] = 3
      /\ s[5] = 1 /\ s[6] = Drawn(rng, "salt") /\ s[7] = nonce /\ s[8] = Wrapped(kek, key, nonce, aad)
  BY DEF SealPass
<1> HIDE DEF memory, s
<1>3. PassParses(s)
  BY <1>1, <1>2 DEF PassParses, ParamsValid
<1>4. OpenPass(s, pass2, aad2)
        = Unwrapped(PassKek(pass2, memory, 3, 1, Drawn(rng, "salt")),
                    Wrapped(kek, key, nonce, aad), nonce, aad2)
  BY <1>2 DEF OpenPass
<1>5. PassKek(pass2, memory, 3, 1, Drawn(rng, "salt")) = kek <=> pass2 = pass
  BY TermsDiffer
<1>6. OpenPass(s, pass2, aad2) = IF pass2 = pass /\ aad2 = aad THEN {key} ELSE {}
  BY <1>4, <1>5, UnwrapsOwn
<1> QED BY <1>3, <1>6 DEF s

LEMMA X25519Opens ==
  ASSUME NEW key, NEW secret, NEW rng, NEW aad, NEW secret2, NEW aad2
  PROVE  LET s == SealX25519(key, Public(secret), rng, aad)
         IN  /\ X25519Parses(s)
             /\ OpenX25519(s, secret2, aad2) = IF secret2 = secret /\ aad2 = aad THEN {key} ELSE {}
<1> DEFINE s == SealX25519(key, Public(secret), rng, aad)
           eph == Drawn(rng, "eph")
           kek == X25519Kek(Agreed(eph, Public(secret)), Public(eph), Public(secret))
           kek2 == X25519Kek(Agreed(secret2, Public(eph)), Public(eph), Public(secret2))
           nonce == Drawn(rng, "nonce")
<1>1. /\ Len(s) = 4 /\ s[1] = StanzaVersion /\ s[2] = Public(eph) /\ s[3] = nonce
      /\ s[4] = Wrapped(kek, key, nonce, aad)
  BY DEF SealX25519
<1> HIDE DEF s
<1>2. X25519Parses(s)
  BY <1>1 DEF X25519Parses
<1>3. OpenX25519(s, secret2, aad2) = Unwrapped(kek2, Wrapped(kek, key, nonce, aad), nonce, aad2)
  BY <1>1 DEF OpenX25519
<1>4. Agreed(eph, Public(secret)) = Agreed(secret, Public(eph))
  BY DEF Agreed, Public
<1>5. kek2 = kek <=> secret2 = secret
  BY <1>4, TermsDiffer
<1> HIDE DEF kek, kek2
<1>6. OpenX25519(s, secret2, aad2) = IF secret2 = secret /\ aad2 = aad THEN {key} ELSE {}
  BY <1>3, <1>5, UnwrapsOwn
<1> QED BY <1>2, <1>6 DEF s

LEMMA HybridOpens ==
  ASSUME NEW key, NEW owner, NEW rng, NEW aad, NEW owner2, NEW aad2
  PROVE  LET s == SealHybrid(key, HybridPublic(HybridSecret(owner)), rng, aad)
         IN  /\ HybridParses(s)
             /\ OpenHybrid(s, HybridSecret(owner2), aad2)
                  = IF owner2 = owner /\ aad2 = aad THEN {key} ELSE {}
<1> DEFINE secret == HybridSecret(owner)
           secret2 == HybridSecret(owner2)
           public == HybridPublic(secret)
           s == SealHybrid(key, public, rng, aad)
           eph == Drawn(rng, "eph")
           ct == Encapsulated(public.ek, Drawn(rng, "coins"))
           kek == HybridKek(Agreed(eph, public.x), Shared(ct), Public(eph), public.x)
           kek2 == HybridKek(Agreed(secret2.x, Public(eph)), Decapsulated(secret2.dk, ct), Public(eph),
                             Public(secret2.x))
           nonce == Drawn(rng, "nonce")
<1>1. /\ Len(s) = 5 /\ s[1] = StanzaVersion /\ s[2] = Public(eph) /\ s[3] = ct /\ s[4] = nonce
      /\ s[5] = Wrapped(kek, key, nonce, aad)
  BY DEF SealHybrid
<1>2. /\ secret.x = Owned(owner) /\ secret2.x = Owned(owner2)
      /\ public.x = Public(secret.x) /\ public.ek = Public(secret.dk)
  BY DEF HybridSecret, HybridPublic
<1>3. ct.to = public.ek
  BY DEF Encapsulated
<1> HIDE DEF s, ct, public
<1>4. HybridParses(s)
  BY <1>1 DEF HybridParses
<1>5. OpenHybrid(s, secret2, aad2) = Unwrapped(kek2, Wrapped(kek, key, nonce, aad), nonce, aad2)
  BY <1>1 DEF OpenHybrid
<1>6. kek2 = kek => owner2 = owner
  BY <1>2, TermsDiffer
<1>7. ASSUME owner2 = owner PROVE kek2 = kek
  <2>1. secret2 = secret
    BY <1>7
  <2>2. Decapsulated(secret2.dk, ct) = Shared(ct)
    BY <1>2, <1>3, <2>1 DEF Decapsulated
  <2>3. Agreed(eph, public.x) = Agreed(secret.x, Public(eph))
    BY <1>2 DEF Agreed, Public
  <2> QED BY <1>2, <2>1, <2>2, <2>3
<1> HIDE DEF kek, kek2
<1>8. OpenHybrid(s, secret2, aad2) = IF owner2 = owner /\ aad2 = aad THEN {key} ELSE {}
  BY <1>5, <1>6, <1>7, UnwrapsOwn
<1> QED BY <1>4, <1>8 DEF s, public

(* A stanza gives the key to its owner, under its associated data, and to  *)
(* nobody else.                                                            *)
LEMMA StanzaOpens ==
  ASSUME NEW type \in WrapperTypes, NEW key, NEW owner, NEW profile \in DOMAIN MemoryKib, NEW rng, NEW aad,
         NEW owner2, NEW aad2
  PROVE  OpenStanza(type, SealStanza(type, key, owner, profile, rng, aad), owner2, aad2)
           = IF owner2 = owner /\ aad2 = aad THEN {key} ELSE {}
<1>1. Owned(owner2) = Owned(owner) <=> owner2 = owner
  BY TermsDiffer
<1>2. CASE type = "pass"
  <2>1. PassParses(SealPass(key, profile, Owned(owner), rng, aad))
    BY PassOpens
  <2>2. OpenPass(SealPass(key, profile, Owned(owner), rng, aad), Owned(owner2), aad2)
          = IF owner2 = owner /\ aad2 = aad THEN {key} ELSE {}
    BY <1>1, PassOpens
  <2> QED BY <1>2, <2>1, <2>2 DEF OpenStanza, SealStanza, StanzaParses
<1>3. CASE type = "x25519"
  <2>1. X25519Parses(SealX25519(key, Public(Owned(owner)), rng, aad))
    BY X25519Opens
  <2>2. OpenX25519(SealX25519(key, Public(Owned(owner)), rng, aad), Owned(owner2), aad2)
          = IF owner2 = owner /\ aad2 = aad THEN {key} ELSE {}
    BY <1>1, X25519Opens
  <2> QED BY <1>3, <2>1, <2>2 DEF OpenStanza, SealStanza, StanzaParses
<1>4. CASE type = "mlkem"
  <2>1. /\ HybridParses(SealHybrid(key, HybridPublic(HybridSecret(owner)), rng, aad))
        /\ OpenHybrid(SealHybrid(key, HybridPublic(HybridSecret(owner)), rng, aad), HybridSecret(owner2), aad2)
             = IF owner2 = owner /\ aad2 = aad THEN {key} ELSE {}
    BY HybridOpens
  <2> QED BY <1>4, <2>1 DEF OpenStanza, SealStanza, StanzaParses
<1> QED BY <1>2, <1>3, <1>4 DEF WrapperTypes

-----------------------------------------------------------------------------
(* Wrappers.                                                               *)

(* What a caller gives for a recipient; the label enters no key.           *)
IsRecipients(recipients) ==
  /\ Len(recipients) \in Nat
  /\ DOMAIN recipients = 1 .. Len(recipients)
  /\ \A i \in DOMAIN recipients :
       recipients[i].key \in Keys /\ recipients[i].profile \in DOMAIN MemoryKib

(* The wrapper in place i of a section sealed under header h, read in a    *)
(* container with another header, perhaps: it gives the file key to the    *)
(* recipient of that place, when the header is h.                          *)
LEMMA WrapperGives ==
  ASSUME NEW c, NEW recipients, NEW fmk, NEW uuid, NEW h, NEW seal, NEW key \in Keys,
         IsRecipients(recipients),
         c.wraps = SealWrappers(recipients, fmk, uuid, h, seal),
         NEW i \in DOMAIN recipients
  PROVE  StanzaGives(c, i, key)
           = IF recipients[i].key = key /\ c.header = h THEN {fmk} ELSE {}
<1> DEFINE r == recipients[i]
           aad == WrapperAad(SealIndex(i), uuid, h)
           aad2 == WrapperAad(i - 1, FileUuid(c), c.header)
<1>1. /\ 1 \in DOMAIN recipients
      /\ r.key \in Keys
      /\ r.profile \in DOMAIN MemoryKib
  BY DEF IsRecipients
<1>2. /\ c.wraps[1].uuid = uuid
      /\ c.wraps[i].type = KeyType[r.key]
      /\ c.wraps[i].stanza = SealStanza(KeyType[r.key], fmk, r.key, r.profile, <<seal, i>>, aad)
  BY <1>1 DEF SealWrappers
<1>3. KeyType[r.key] \in WrapperTypes
  BY <1>1, KeysAssumption
<1>4. aad2 = aad <=> c.header = h
  <2>1. FileUuid(c) = uuid
    BY <1>2 DEF FileUuid
  <2>2. SealIndex(i) = i - 1
    BY DEF SealIndex
  <2> QED BY <2>1, <2>2 DEF WrapperAad
<1> HIDE DEF r, aad, aad2
<1>5. OpenStanza(KeyType[r.key], c.wraps[i].stanza, key, aad2)
        = IF key = r.key /\ aad2 = aad THEN {fmk} ELSE {}
  <2> DEFINE type == KeyType[r.key]
             owner == r.key
             profile == r.profile
             rng == <<seal, i>>
  <2>1. type \in WrapperTypes /\ profile \in DOMAIN MemoryKib
    BY <1>1, <1>3
  <2>2. c.wraps[i].stanza = SealStanza(type, fmk, owner, profile, rng, aad)
    BY <1>2
  <2> HIDE DEF type, owner, profile, rng
  <2>3. OpenStanza(type, SealStanza(type, fmk, owner, profile, rng, aad), key, aad2)
          = IF key = owner /\ aad2 = aad THEN {fmk} ELSE {}
    BY <2>1, StanzaOpens
  <2> QED BY <2>2, <2>3 DEF type, owner
<1>6. StanzaGives(c, i, key)
        = IF KeyType[r.key] # KeyType[key] THEN {}
          ELSE OpenStanza(KeyType[r.key], c.wraps[i].stanza, key, aad2)
  BY <1>2 DEF StanzaGives, aad2
<1>7. StanzaGives(c, i, key) = IF r.key = key /\ c.header = h THEN {fmk} ELSE {}
  BY <1>4, <1>5, <1>6
<1> QED BY <1>7 DEF r

(* try_unwrap_fmk: a section sealed under the container's header gives the *)
(* file key to everyone it was sealed for, and to nobody else; one sealed  *)
(* under another header gives nothing to anybody.                          *)
LEMMA SectionGives ==
  ASSUME NEW c, NEW recipients, NEW fmk, NEW uuid, NEW h, NEW seal, NEW key \in Keys,
         IsRecipients(recipients),
         c.wraps = SealWrappers(recipients, fmk, uuid, h, seal)
  PROVE  UnwrappedFmk(c, key)
           = IF (\E i \in DOMAIN recipients : recipients[i].key = key) /\ c.header = h
             THEN {fmk} ELSE {}
<1> DEFINE G(i) == StanzaGives(c, i, key)
           F == {i \in DOMAIN recipients : recipients[i].key = key /\ c.header = h}
<1>1. DOMAIN c.wraps = DOMAIN recipients
  BY DEF SealWrappers
<1>2. \A i \in DOMAIN recipients : G(i) = IF i \in F THEN {fmk} ELSE {}
  BY WrapperGives
<1>3. UnwrappedFmk(c, key)
        = UNION {G(i) : i \in {j \in DOMAIN recipients : \A k \in 1 .. j - 1 : G(k) = {}}}
  BY <1>1 DEF UnwrappedFmk
<1>4. F \subseteq DOMAIN recipients /\ F \in SUBSET Nat
  BY DEF IsRecipients
<1> HIDE DEF G, F
<1>5. UnwrappedFmk(c, key) \subseteq {fmk}
  BY <1>2, <1>3
<1>6. F # {} => fmk \in UnwrappedFmk(c, key)
  <2> SUFFICES ASSUME F # {} PROVE fmk \in UnwrappedFmk(c, key)
    OBVIOUS
  <2>1. PICK m \in F : \A n \in F : m <= n
    BY <1>4, LeastElement
  <2>2. \A k \in 1 .. m - 1 : k \in DOMAIN recipients /\ k \notin F
    BY <1>4, <2>1 DEF IsRecipients
  <2>3. \A k \in 1 .. m - 1 : G(k) = {}
    BY <1>2, <2>2
  <2>4. fmk \in G(m)
    BY <1>2, <1>4, <2>1
  <2> QED BY <1>3, <1>4, <2>1, <2>3, <2>4
<1>7. F = {} => UnwrappedFmk(c, key) = {}
  BY <1>2, <1>3
<1>8. F # {} <=> (\E i \in DOMAIN recipients : recipients[i].key = key) /\ c.header = h
  BY DEF F
<1> QED BY <1>5, <1>6, <1>7, <1>8

-----------------------------------------------------------------------------
(* Metadata.                                                               *)

(* What a caller may say of a file; a text that parses is short.           *)
IsInput(input) ==
  /\ {input.size, input.chunkSize, input.epochSize} \subseteq Nat
  /\ IsOption(input.name) /\ IsOption(input.mime) /\ IsOption(input.created)
  /\ IsPadding(input.padding)

IsShortText(option) == option # <<>> => option[1].len <= MaxText
TextsShort(input)   == IsShortText(input.name) /\ IsShortText(input.mime)

LEMMA ItemsDiffer ==
  /\ \A v : Integer(v)[1] = "int" /\ Integer(v)[2] = v /\ Integer(v) # Null
  /\ \A t : Text(t)[1] = "text" /\ Text(t)[2] = t /\ Text(t) # Null
  /\ \A b, n : Bytes(b, n)[1] = "bytes" /\ Bytes(b, n)[2] = b /\ Bytes(b, n)[3] = n
  /\ \A x : Array(x)[1] = "array" /\ Array(x)[2] = x
  /\ Null[1] = "null"
BY DEF Integer, Text, Bytes, Array, Null

(* An option is read as it was written.                                    *)
LEMMA OptionRead ==
  ASSUME NEW option, IsOption(option)
  PROVE  /\ OptionOf(Optional(Text, option)) = option
         /\ OptionOf(Optional(Integer, option)) = option
         /\ IsOptional(Optional(Text, option), "text")
         /\ IsOptional(Optional(Integer, option), "int")
         /\ IsShortText(option) => IsShort(Optional(Text, option))
<1>1. CASE option = <<>>
  BY <1>1, ItemsDiffer DEF Optional, OptionOf, IsOptional, IsShort
<1>2. CASE option # <<>>
  <2>1. option = <<option[1]>>
    BY <1>2 DEF IsOption
  <2>2. Optional(Text, option) = Text(option[1]) /\ Optional(Integer, option) = Integer(option[1])
    BY <1>2 DEF Optional
  <2> QED BY <1>2, <2>1, <2>2, ItemsDiffer DEF OptionOf, IsOptional, IsShort, IsShortText
<1> QED BY <1>1, <1>2

(* So is a padding.                                                        *)
LEMMA PaddingRead ==
  ASSUME NEW p, IsPadding(p)
  PROVE  PaddingOf(PaddingItems(p)) = p /\ PaddingParses(PaddingItems(p))
<1>1. /\ PaddingType["none"] = 0 /\ PaddingType["power_of_2"] = 1 /\ PaddingType["custom"] = 2
      /\ Integer(0) # Integer(1) /\ Integer(0) # Integer(2) /\ Integer(1) # Integer(2)
  BY ItemsDiffer DEF PaddingType
<1>2. CASE p = [kind |-> "none"]
  <2>1. PaddingItems(p) = <<Integer(0)>>
    BY <1>1, <1>2 DEF PaddingItems
  <2> QED BY <1>2, <2>1, ItemsDiffer DEF PaddingOf, PaddingParses, IsByte, IsInt, MaxByte
<1>3. CASE p = [kind |-> "power_of_2", value |-> p.value] /\ p.value \in 0 .. MaxByte
  <2>1. p.kind = "power_of_2" /\ p.kind # "none"
    BY <1>3
  <2>2. PaddingItems(p) = <<Integer(1), Integer(p.value)>>
    BY <1>1, <2>1 DEF PaddingItems
  <2>3. PaddingOf(PaddingItems(p)) = [kind |-> "power_of_2", value |-> p.value]
    BY <1>1, <2>2, ItemsDiffer DEF PaddingOf
  <2>4. PaddingParses(PaddingItems(p))
    BY <1>3, <2>2, ItemsDiffer DEF PaddingParses, IsByte, IsInt, MaxByte
  <2> QED BY <1>3, <2>3, <2>4
<1>4. CASE p = [kind |-> "custom", value |-> p.value] /\ p.value \in Nat
  <2>1. p.kind = "custom" /\ p.kind # "none"
    BY <1>4
  <2>2. PaddingItems(p) = <<Integer(2), Integer(p.value)>>
    BY <1>1, <2>1 DEF PaddingItems
  <2>3. PaddingOf(PaddingItems(p)) = [kind |-> "custom", value |-> p.value]
    BY <1>1, <2>2, ItemsDiffer DEF PaddingOf
  <2>4. PaddingParses(PaddingItems(p))
    BY <1>4, <2>2, ItemsDiffer DEF PaddingParses, IsByte, IsInt, MaxByte
  <2> QED BY <1>4, <2>3, <2>4
<1> QED BY <1>2, <1>3, <1>4 DEF IsPadding

(* The ten items of what encrypt says of its input.                        *)
HasItems(items, input, root) ==
  /\ DOMAIN items = 1 .. 10 /\ Len(items) = 10
  /\ items[1] = Integer(input.size)
  /\ items[2] = Optional(Text, input.name)
  /\ items[3] = Optional(Text, input.mime)
  /\ items[4] = Optional(Integer, input.created)
  /\ items[5] = Integer(input.chunkSize)
  /\ items[6] = Integer(input.epochSize)
  /\ items[7] = Bytes(root, RootLen)
  /\ items[8] = Integer(0)
  /\ items[9] = Array(PaddingItems(input.padding))
  /\ items[10] = Reserved

LEMMA DescribedItems ==
  ASSUME NEW input, NEW root
  PROVE  HasItems(EncodeMetadata(Described(input, root)), input, root)
BY DEF HasItems, EncodeMetadata, Described

(* MetadataPlaintext::parse gives back what encode was given.              *)
LEMMA MetadataRead ==
  ASSUME NEW input, NEW root, IsInput(input)
  PROVE  MetadataOf(EncodeMetadata(Described(input, root))) = Described(input, root)
<1> DEFINE items == EncodeMetadata(Described(input, root))
<1>0. HasItems(items, input, root)
  BY DescribedItems
<1> HIDE DEF items
<1>1. /\ items[1][2] = input.size
      /\ items[5][2] = input.chunkSize
      /\ items[6][2] = input.epochSize
      /\ items[7][2] = root
      /\ items[8][2] = 0
  BY <1>0, ItemsDiffer DEF HasItems
<1>2. /\ OptionOf(items[2]) = input.name
      /\ OptionOf(items[3]) = input.mime
      /\ OptionOf(items[4]) = input.created
  BY <1>0, OptionRead DEF IsInput, HasItems
<1>3. PaddingOf(items[9][2]) = input.padding
  BY <1>0, ItemsDiffer, PaddingRead DEF IsInput, HasItems
<1>4. MetadataOf(items) = Described(input, root)
  BY <1>1, <1>2, <1>3 DEF MetadataOf, Described
<1> QED BY <1>4 DEF items

(* It accepts what encode wrote when the texts are short; encrypt refuses  *)
(* chunks and epochs of no size.                                           *)
LEMMA MetadataAccepted ==
  ASSUME NEW input, NEW root, IsInput(input), TextsShort(input),
         input.chunkSize # 0, input.epochSize # 0
  PROVE  MetadataParses(EncodeMetadata(Described(input, root)))
<1> DEFINE items == EncodeMetadata(Described(input, root))
<1>0. HasItems(items, input, root)
  BY DescribedItems
<1> HIDE DEF items
<1>1. /\ IsInt(items[1], 0) /\ IsInt(items[5], 1) /\ IsInt(items[6], 1) /\ IsByte(items[8])
  BY <1>0, ItemsDiffer DEF IsInput, IsInt, IsByte, MaxByte, HasItems
<1>2. /\ IsOptional(items[2], "text") /\ IsShort(items[2])
      /\ IsOptional(items[3], "text") /\ IsShort(items[3])
      /\ IsOptional(items[4], "int")
  BY <1>0, OptionRead DEF IsInput, TextsShort, HasItems
<1>3. items[7][1] = "bytes" /\ items[7][3] = RootLen
  BY <1>0, ItemsDiffer DEF HasItems
<1>4. items[9][1] = "array" /\ PaddingParses(items[9][2])
  BY <1>0, ItemsDiffer, PaddingRead DEF IsInput, HasItems
<1>5. Len(items) = 10 /\ items[10] = Reserved
  BY <1>0 DEF HasItems
<1>6. MetadataParses(items)
  BY <1>1, <1>2, <1>3, <1>4, <1>5 DEF MetadataParses
<1> QED BY <1>6 DEF items

(* The root is as long as any other: the header is computed before it is   *)
(* known.                                                                  *)
LEMMA RootKeepsLength ==
  ASSUME NEW input, NEW root, NEW root2
  PROVE  MetadataLen(EncodeMetadata(Described(input, root)))
           = MetadataLen(EncodeMetadata(Described(input, root2)))
<1> DEFINE s == EncodeMetadata(Described(input, root))
           t == EncodeMetadata(Described(input, root2))
<1>1. HasItems(s, input, root) /\ HasItems(t, input, root2)
  BY DescribedItems
<1> HIDE DEF s, t
<1>2. ItemLen(s[7]) = ItemLen(t[7])
  <2>1. ItemLen(Bytes(root, RootLen)) = HeadLen(RootLen) + RootLen
    BY ItemsDiffer DEF ItemLen, ScalarLen
  <2>2. ItemLen(Bytes(root2, RootLen)) = HeadLen(RootLen) + RootLen
    BY ItemsDiffer DEF ItemLen, ScalarLen
  <2> QED BY <1>1, <2>1, <2>2 DEF HasItems
<1>3. \A i \in 1 .. 10 : i # 7 => s[i] = t[i]
  <2> TAKE i \in 1 .. 10
  <2> HAVE i # 7
  <2>1. i \in {1, 2, 3, 4, 5, 6, 8, 9, 10}
    OBVIOUS
  <2> QED BY <1>1, <2>1 DEF HasItems
<1>4. \A i \in 1 .. 10 : ItemLen(s[i]) = ItemLen(t[i])
  BY <1>2, <1>3
<1>5. [i \in DOMAIN s |-> ItemLen(s[i])] = [i \in DOMAIN t |-> ItemLen(t[i])]
  BY <1>1, <1>4 DEF HasItems
<1>6. CborLen(s) = CborLen(t)
  BY <1>1, <1>5 DEF CborLen, HasItems
<1> QED BY <1>6 DEF MetadataLen, s, t

(* compute_entry_sizes tells the length the wraps section will have.       *)
LEMMA SizesFitWrappers ==
  ASSUME NEW recipients, NEW fmk, NEW uuid, NEW h, NEW seal
  PROVE  LET wraps == SealWrappers(recipients, fmk, uuid, h, seal)
         IN  /\ [i \in DOMAIN wraps |-> [id |-> UuidLen + wraps[i].label.len,
                                         stanza |-> StanzaLen[wraps[i].type]]]
                  = EntrySizes(recipients)
             /\ EncodedWrapsLen(wraps) = WrapsSectionLen(EntrySizes(recipients))
<1> DEFINE wraps == SealWrappers(recipients, fmk, uuid, h, seal)
           sizes == [i \in DOMAIN wraps |-> [id |-> UuidLen + wraps[i].label.len,
                                             stanza |-> StanzaLen[wraps[i].type]]]
<1>1. DOMAIN wraps = DOMAIN recipients
  BY DEF SealWrappers
<1>2. \A i \in DOMAIN recipients :
        wraps[i].label = Label(recipients[i], i) /\ wraps[i].type = KeyType[recipients[i].key]
  BY DEF SealWrappers
<1> HIDE DEF wraps
<1>3. sizes = EntrySizes(recipients)
  BY <1>1, <1>2 DEF EntrySizes, LabelLen
<1>4. EncodedWrapsLen(wraps) = WrapsSectionLen(sizes)
  BY DEF EncodedWrapsLen
<1> QED BY <1>3, <1>4 DEF wraps

-----------------------------------------------------------------------------
(* Containers.  One of file f, about input, for recipients: every section  *)
(* is what encrypt or rewrap makes it, all under the one key and file_uuid *)
(* (fmk and file_uuid are drawn together, and f stands for both), and the  *)
(* lengths in the header are those of the sections.                        *)
WellSealed(c, f, input, recipients, seal) ==
  /\ IsInput(input) /\ input.chunkSize # 0 /\ input.epochSize # 0
  /\ IsRecipients(recipients) /\ Len(recipients) > 0
  /\ c = Assemble(f, f, c.header, c.policy,
                  SealWrappers(recipients, f, f, c.header, seal),
                  SealMetadata(f, f, c.header, EncodeMetadata(Described(input, c.footer.root))),
                  SealPayload(f, f, input.text), c.footer.root)
  /\ c.footer.root = ManifestRoot(f, f, c.payload)
  /\ Parses(c)

(* The sections of such a container.                                       *)
LEMMA SealedSections ==
  ASSUME NEW c, NEW f, NEW input, NEW recipients, NEW seal,
         WellSealed(c, f, input, recipients, seal)
  PROVE  /\ c.wraps = SealWrappers(recipients, f, f, c.header, seal)
         /\ c.metadata = SealMetadata(f, f, c.header,
                                      EncodeMetadata(Described(input, c.footer.root)))
         /\ c.payload = SealPayload(f, f, input.text)
         /\ c.footer.tag = FooterTag(f, f, c.header, c.policy, c.wraps, c.metadata, c.payload)
         /\ c.footer.root = ManifestRoot(f, f, c.payload)
         /\ FileUuid(c) = f
<1> DEFINE w == SealWrappers(recipients, f, f, c.header, seal)
           m == SealMetadata(f, f, c.header, EncodeMetadata(Described(input, c.footer.root)))
           y == SealPayload(f, f, input.text)
           h == c.header
           p == c.policy
           root == c.footer.root
           tag == FooterTag(f, f, h, p, w, m, y)
<1>1. c = Assemble(f, f, h, p, w, m, y, root)
  BY DEF WellSealed
<1>2. w[1].uuid = f
  BY DEF SealWrappers, WellSealed, IsRecipients
<1> HIDE DEF w, m, y, h, p, root, tag
<1>3. c = [header |-> h, policy |-> p, wraps |-> w, metadata |-> m, payload |-> y,
           footer |-> [root |-> root, tag |-> tag]]
  BY <1>1 DEF Assemble, tag
<1>4. /\ c.header = h /\ c.policy = p /\ c.wraps = w /\ c.metadata = m /\ c.payload = y
      /\ c.footer = [root |-> root, tag |-> tag]
  BY <1>3
<1>5. c.footer.root = root /\ c.footer.tag = tag
  BY <1>4
<1>6. c.footer.tag = FooterTag(f, f, c.header, c.policy, c.wraps, c.metadata, c.payload)
  BY <1>4, <1>5 DEF tag
<1>7. FileUuid(c) = f
  BY <1>2, <1>4 DEF FileUuid
<1>8. c.footer.root = ManifestRoot(f, f, c.payload)
  BY DEF WellSealed
<1> QED BY <1>4, <1>6, <1>7, <1>8 DEF w, m, y

(* It has these sections and no other.                                     *)
LEMMA SealedWhole ==
  ASSUME NEW c, NEW f, NEW input, NEW recipients, NEW seal,
         WellSealed(c, f, input, recipients, seal)
  PROVE  /\ c = [header |-> c.header, policy |-> c.policy, wraps |-> c.wraps,
                 metadata |-> c.metadata, payload |-> c.payload, footer |-> c.footer]
         /\ c.footer = [root |-> c.footer.root, tag |-> c.footer.tag]
<1> DEFINE w == SealWrappers(recipients, f, f, c.header, seal)
           m == SealMetadata(f, f, c.header, EncodeMetadata(Described(input, c.footer.root)))
           y == SealPayload(f, f, input.text)
           h == c.header
           p == c.policy
           root == c.footer.root
           tag == FooterTag(f, f, h, p, w, m, y)
<1>1. c = Assemble(f, f, h, p, w, m, y, root)
  BY DEF WellSealed
<1> HIDE DEF w, m, y, h, p, root, tag
<1>2. c = [header |-> h, policy |-> p, wraps |-> w, metadata |-> m, payload |-> y,
           footer |-> [root |-> root, tag |-> tag]]
  BY <1>1 DEF Assemble, tag
<1>3. /\ c.header = h /\ c.policy = p /\ c.wraps = w /\ c.metadata = m /\ c.payload = y
      /\ c.footer = [root |-> root, tag |-> tag]
  BY <1>2
<1> QED BY <1>2, <1>3

(* ops::decrypt::decrypt on it.                                            *)
LEMMA SealedDecrypts ==
  ASSUME NEW c, NEW f, NEW input, NEW recipients, NEW seal, NEW key \in Keys,
         WellSealed(c, f, input, recipients, seal), TextsShort(input)
  PROVE  Decrypt(c, key)
           = IF ~ \E i \in DOMAIN recipients : recipients[i].key = key
             THEN Failed("NoMatchingWrapper")
             ELSE IF input.size > MaxPlaintext THEN Failed("PlaintextSizeLimitExceeded")
             ELSE Opened(input.text, Described(input, c.footer.root))
<1> DEFINE reads == \E i \in DOMAIN recipients : recipients[i].key = key
           said == Described(input, c.footer.root)
<1>0. /\ c.wraps = SealWrappers(recipients, f, f, c.header, seal)
      /\ c.metadata = SealMetadata(f, f, c.header, EncodeMetadata(said))
      /\ c.payload = SealPayload(f, f, input.text)
  BY SealedSections
<1>1. UnwrappedFmk(c, key) = IF reads THEN {f} ELSE {}
  <2>1. IsRecipients(recipients)
    BY DEF WellSealed
  <2> QED BY <1>0, <2>1, SectionGives
<1>2. Parses(c)
  BY DEF WellSealed
<1>3. Verifies(c, f, f) /\ c.footer.root = ManifestRoot(f, f, c.payload)
  BY SealedSections DEF Verifies
<1>4. /\ MetadataOpens(c.metadata, f, f, c.header)
      /\ c.metadata.plain = EncodeMetadata(said)
      /\ c.payload.fmk = f /\ c.payload.uuid = f /\ c.payload.text = input.text
  BY <1>0 DEF MetadataOpens, SealMetadata, SealPayload
<1>5. MetadataParses(c.metadata.plain) /\ MetadataOf(c.metadata.plain) = said
  BY <1>4, MetadataAccepted, MetadataRead DEF WellSealed
<1>6. said.size = input.size
  BY DEF Described
<1>7. FileUuid(c) = f
  BY SealedSections
<1> HIDE DEF reads, said
<1>8. DecryptWith(c, f, f) = IF input.size > MaxPlaintext THEN Failed("PlaintextSizeLimitExceeded")
                             ELSE Opened(input.text, said)
  BY <1>3, <1>4, <1>5, <1>6 DEF DecryptWith
<1>9. Decrypt(c, key) = IF ~reads THEN Failed("NoMatchingWrapper") ELSE DecryptWith(c, f, f)
  <2>1. CASE reads
    <3>1. UnwrappedFmk(c, key) = {f} /\ {f} # {} /\ (CHOOSE fmk \in {f} : TRUE) = f
      BY <1>1, <2>1
    <3> QED BY <1>2, <1>7, <2>1, <3>1 DEF Decrypt
  <2>2. CASE ~reads
    BY <1>1, <1>2, <2>2 DEF Decrypt
  <2> QED BY <2>1, <2>2
<1> QED BY <1>8, <1>9 DEF reads, said

(* ops::encrypt::encrypt produces such a container.                        *)
LEMMA EncryptSeals ==
  ASSUME NEW input, NEW recipients, NEW f, NEW seal,
         IsInput(input), IsRecipients(recipients), Len(recipients) > 0,
         Encrypt(input, recipients, f, f, seal).status = "ok"
  PROVE  WellSealed(Encrypt(input, recipients, f, f, seal).container, f, input, recipients, seal)
<1> DEFINE c == Encrypted(input, recipients, f, f, seal)
           payload == SealPayload(f, f, input.text)
           root == ManifestRoot(f, f, payload)
           header == Header(WrapsSectionLen(EntrySizes(recipients)),
                            MetadataLen(EncodeMetadata(Described(input, 0))))
           policy == OneOfOne(recipients)
           wraps == SealWrappers(recipients, f, f, header, seal)
           metadata == SealMetadata(f, f, header, EncodeMetadata(Described(input, root)))
<1>1. /\ Encrypt(input, recipients, f, f, seal).container = c
      /\ input.chunkSize # 0 /\ input.epochSize # 0
      /\ DistinctIds(c.wraps)
  BY DEF Encrypt, Refused, Produced
<1>2. c = Assemble(f, f, header, policy, wraps, metadata, payload, root)
  BY DEF Encrypted
<1>3. /\ header.payloadOffset = FixedHeaderLen + header.policyLen + header.wrapsLen + header.metadataLen
      /\ header.policyLen = PolicySectionLen
      /\ header.wrapsLen = WrapsSectionLen(EntrySizes(recipients))
      /\ header.metadataLen = MetadataLen(EncodeMetadata(Described(input, 0)))
  BY DEF Header
<1>4. header.wrapsLen = EncodedWrapsLen(wraps)
  BY <1>3, SizesFitWrappers
<1>5. header.metadataLen = MetadataLen(metadata.plain)
  BY <1>3, RootKeepsLength DEF SealMetadata
<1>6. PolicyValid(policy)
  BY DEF PolicyValid, OneOfOne, IsRecipients
<1> HIDE DEF c, header, policy, wraps, metadata, payload, root
<1>7. /\ c.header = header /\ c.policy = policy /\ c.wraps = wraps /\ c.metadata = metadata
      /\ c.payload = payload /\ c.footer.root = root
  BY <1>2 DEF Assemble
<1>8. Parses(c)
  BY <1>1, <1>3, <1>4, <1>5, <1>6, <1>7 DEF Parses, LayoutHolds
<1>9. c.footer.root = ManifestRoot(f, f, c.payload)
  BY <1>7 DEF root
<1>10. c = Assemble(f, f, c.header, c.policy,
                    SealWrappers(recipients, f, f, c.header, seal),
                    SealMetadata(f, f, c.header, EncodeMetadata(Described(input, c.footer.root))),
                    SealPayload(f, f, input.text), c.footer.root)
  BY <1>2, <1>7 DEF wraps, metadata, payload
<1> QED BY <1>1, <1>8, <1>9, <1>10 DEF WellSealed

(* As many wrappers as recipients.                                         *)
LEMMA WrappersCount ==
  ASSUME NEW recipients, NEW fmk, NEW uuid, NEW h, NEW seal, IsRecipients(recipients)
  PROVE  Len(SealWrappers(recipients, fmk, uuid, h, seal)) = Len(recipients)
<1> DEFINE wraps == SealWrappers(recipients, fmk, uuid, h, seal)
<1>1. DOMAIN wraps = 1 .. Len(recipients) /\ Len(recipients) \in Nat
  BY DEF SealWrappers, IsRecipients
<1>2. wraps = [i \in 1 .. Len(recipients) |-> wraps[i]]
  BY <1>1 DEF SealWrappers
<1> HIDE DEF wraps
<1>3. Len(wraps) = Len(recipients)
  BY <1>1, <1>2
<1> QED BY <1>3 DEF wraps

(* ops::rewrap::rewrap_container, given recipients sealed for the header   *)
(* it will write, produces a container of the same file about the same     *)
(* input, for these recipients.                                            *)
LEMMA RewrapSeals ==
  ASSUME NEW c, NEW f, NEW input, NEW old, NEW oldSeal, NEW recipients, NEW seal, NEW policy,
         NEW wraps,
         WellSealed(c, f, input, old, oldSeal),
         IsRecipients(recipients), policy.total \in Nat,
         wraps = SealWrappers(recipients, f, f, NewHeader(c.header, EntrySizes(recipients)), seal),
         RewrapContainer(c, f, f, policy, wraps).status = "ok"
  PROVE  WellSealed(RewrapContainer(c, f, f, policy, wraps).container, f, input, recipients, seal)
<1> DEFINE x == RewrapContainer(c, f, f, policy, wraps).container
           header == NewHeader(c.header, EntrySizes(recipients))
           root == c.footer.root
           metadata == SealMetadata(f, f, header, EncodeMetadata(Described(input, root)))
<1>1. /\ x = Rewrapped(c, f, f, policy, wraps)
      /\ ~(Len(wraps) < policy.total)
      /\ PolicyValid(policy) /\ DistinctIds(wraps)
  BY DEF RewrapContainer, Refused, Produced
<1>2. c.metadata.plain = EncodeMetadata(Described(input, root)) /\ root = ManifestRoot(f, f, c.payload)
  <2>1. c.metadata = SealMetadata(f, f, c.header, EncodeMetadata(Described(input, root)))
    BY SealedSections
  <2>2. root = ManifestRoot(f, f, c.payload)
    BY DEF WellSealed
  <2> QED BY <2>1, <2>2 DEF SealMetadata
<1>3. c.payload = SealPayload(f, f, input.text)
  BY SealedSections
<1>4. ResealedMetadata(c, f, f, header) = metadata
  BY <1>2, MetadataRead DEF ResealedMetadata, WellSealed
<1>5. /\ [i \in DOMAIN wraps |-> [id |-> UuidLen + wraps[i].label.len,
                                  stanza |-> StanzaLen[wraps[i].type]]] = EntrySizes(recipients)
      /\ EncodedWrapsLen(wraps) = WrapsSectionLen(EntrySizes(recipients))
  BY SizesFitWrappers
<1>6. x = Assemble(f, f, header, policy, wraps, metadata, c.payload, root)
  BY <1>1, <1>4, <1>5 DEF Rewrapped
<1>7. /\ header.payloadOffset = FixedHeaderLen + header.policyLen + header.wrapsLen + header.metadataLen
      /\ header.policyLen = PolicySectionLen
      /\ header.wrapsLen = WrapsSectionLen(EntrySizes(recipients))
      /\ header.metadataLen = c.header.metadataLen
  BY DEF NewHeader, Header
<1>8. c.header.metadataLen = MetadataLen(c.metadata.plain)
  BY DEF WellSealed, Parses, LayoutHolds
<1>9. header.metadataLen = MetadataLen(metadata.plain)
  BY <1>2, <1>7, <1>8 DEF SealMetadata
<1>10. Len(recipients) > 0
  <2>1. Len(wraps) = Len(recipients)
    BY WrappersCount
  <2>2. policy.total # 0
    BY <1>1 DEF PolicyValid
  <2> QED BY <1>1, <2>1, <2>2 DEF IsRecipients
<1> HIDE DEF x, header, metadata, root
<1>11. /\ x.header = header /\ x.policy = policy /\ x.wraps = wraps /\ x.metadata = metadata
       /\ x.payload = c.payload /\ x.footer.root = root
  BY <1>6 DEF Assemble
<1>12. Parses(x)
  BY <1>1, <1>5, <1>7, <1>9, <1>11 DEF Parses, LayoutHolds
<1>13. x = Assemble(f, f, x.header, x.policy,
                    SealWrappers(recipients, f, f, x.header, seal),
                    SealMetadata(f, f, x.header, EncodeMetadata(Described(input, x.footer.root))),
                    SealPayload(f, f, input.text), x.footer.root)
  BY <1>3, <1>6, <1>11 DEF metadata, header
<1>14. x.footer.root = ManifestRoot(f, f, x.payload)
  BY <1>2, <1>11
<1>15. WellSealed(x, f, input, recipients, seal)
  BY <1>10, <1>12, <1>13, <1>14 DEF WellSealed
<1> QED BY <1>15 DEF x

(* It refuses what was prepared for another file, ...                      *)
LEMMA RewrapRefusesOthers ==
  ASSUME NEW c, NEW f, NEW input, NEW old, NEW oldSeal, NEW fmk, NEW uuid, NEW policy, NEW wraps,
         WellSealed(c, f, input, old, oldSeal), fmk # f \/ uuid # f
  PROVE  RewrapContainer(c, fmk, uuid, policy, wraps).status # "ok"
<1>1. c.footer.tag = FooterTag(f, f, c.header, c.policy, c.wraps, c.metadata, c.payload)
  BY SealedSections
<1>2. ~Verifies(c, fmk, uuid)
  BY <1>1 DEF Verifies, FooterTag
<1> QED BY <1>2 DEF RewrapContainer, OriginalVerifies, Refused

(* ... and succeeds for its own with what the encoders take.               *)
LEMMA RewrapSucceeds ==
  ASSUME NEW c, NEW f, NEW input, NEW old, NEW oldSeal, NEW policy, NEW wraps,
         WellSealed(c, f, input, old, oldSeal), TextsShort(input),
         ~(Len(wraps) < policy.total), PolicyValid(policy), DistinctIds(wraps), IdsFit(wraps)
  PROVE  RewrapContainer(c, f, f, policy, wraps).status = "ok"
<1>1. Verifies(c, f, f)
  BY SealedSections DEF Verifies
<1>2. c.metadata = SealMetadata(f, f, c.header, EncodeMetadata(Described(input, c.footer.root)))
  BY SealedSections
<1>3. MetadataOpens(c.metadata, f, f, c.header)
  BY <1>2 DEF MetadataOpens, SealMetadata
<1>4. MetadataParses(c.metadata.plain)
  BY <1>2, MetadataAccepted DEF SealMetadata, WellSealed
<1> QED BY <1>1, <1>3, <1>4 DEF RewrapContainer, OriginalVerifies, Produced

-----------------------------------------------------------------------------
(* The fields of a stanza are bound to the wrapped key in its last cell.   *)

LEMMA UnwrapsOnlyOwn ==
  ASSUME NEW kek, NEW key, NEW nonce, NEW aad, NEW kek2, NEW nonce2, NEW aad2,
         Unwrapped(kek2, Wrapped(kek, key, nonce, aad), nonce2, aad2) # {}
  PROVE  kek2 = kek /\ nonce2 = nonce
BY UnwrapsOwn

(* A stanza that opens and has the last cell of a sealed one is that one.  *)
LEMMA PassFixed ==
  ASSUME NEW key, NEW profile \in DOMAIN MemoryKib, NEW pass, NEW rng, NEW aad,
         NEW x, NEW pass2, NEW aad2,
         LET s == SealPass(key, profile, pass, rng, aad)
         IN  x = [n \in DOMAIN s |-> x[n]] /\ x[8] = s[8],
         PassParses(x), OpenPass(x, pass2, aad2) # {}
  PROVE  x = SealPass(key, profile, pass, rng, aad)
<1> DEFINE s == SealPass(key, profile, pass, rng, aad)
           memory == MemoryKib[profile]
           salt == Drawn(rng, "salt")
           nonce == Drawn(rng, "nonce")
           kek == PassKek(pass, memory, 3, 1, salt)
           kek2 == PassKek(pass2, x[3], x[4], x[5], x[6])
<1>1. /\ DOMAIN s = 1 .. 8 /\ s[1] = StanzaVersion /\ s[2] = ArgonVersion /\ s[3] = memory /\ s[4] = 3
      /\ s[5] = 1 /\ s[6] = salt /\ s[7] = nonce /\ s[8] = Wrapped(kek, key, nonce, aad)
      /\ s = [n \in DOMAIN s |-> s[n]]
  BY DEF SealPass
<1>2. x[1] = StanzaVersion /\ x[2] = ArgonVersion
  BY DEF PassParses
<1> HIDE DEF s, memory, salt, nonce
<1>3. x = [n \in DOMAIN s |-> x[n]] /\ x[8] = s[8]
  BY DEF s
<1>4. Unwrapped(kek2, Wrapped(kek, key, nonce, aad), x[7], aad2) # {}
  BY <1>1, <1>3 DEF OpenPass
<1>5. kek2 = kek /\ x[7] = nonce
  <2> HIDE DEF kek, kek2
  <2> QED BY <1>4, UnwrapsOnlyOwn
<1>6. x[3] = memory /\ x[4] = 3 /\ x[5] = 1 /\ x[6] = salt
  BY <1>5, TermsDiffer
<1>7. \A n \in 1 .. 8 : x[n] = s[n]
  <2> TAKE n \in 1 .. 8
  <2>1. n \in {1, 2, 3, 4, 5, 6, 7, 8}
    OBVIOUS
  <2> QED BY <1>1, <1>2, <1>3, <1>5, <1>6, <2>1
<1>8. x = s
  BY <1>1, <1>3, <1>7
<1> QED BY <1>8 DEF s

LEMMA X25519Fixed ==
  ASSUME NEW key, NEW secret, NEW rng, NEW aad, NEW x, NEW secret2, NEW aad2,
         LET s == SealX25519(key, Public(secret), rng, aad)
         IN  x = [n \in DOMAIN s |-> x[n]] /\ x[4] = s[4],
         X25519Parses(x), OpenX25519(x, secret2, aad2) # {}
  PROVE  x = SealX25519(key, Public(secret), rng, aad)
<1> DEFINE s == SealX25519(key, Public(secret), rng, aad)
           eph == Drawn(rng, "eph")
           nonce == Drawn(rng, "nonce")
           kek == X25519Kek(Agreed(eph, Public(secret)), Public(eph), Public(secret))
           kek2 == X25519Kek(Agreed(secret2, x[2]), x[2], Public(secret2))
<1>1. /\ DOMAIN s = 1 .. 4 /\ s[1] = StanzaVersion /\ s[2] = Public(eph) /\ s[3] = nonce
      /\ s[4] = Wrapped(kek, key, nonce, aad)
      /\ s = [n \in DOMAIN s |-> s[n]]
  BY DEF SealX25519
<1>2. x[1] = StanzaVersion
  BY DEF X25519Parses
<1> HIDE DEF s, eph, nonce
<1>3. x = [n \in DOMAIN s |-> x[n]] /\ x[4] = s[4]
  BY DEF s
<1>4. Unwrapped(kek2, Wrapped(kek, key, nonce, aad), x[3], aad2) # {}
  BY <1>1, <1>3 DEF OpenX25519
<1>5. kek2 = kek /\ x[3] = nonce
  <2> HIDE DEF kek, kek2
  <2> QED BY <1>4, UnwrapsOnlyOwn
<1>6. x[2] = Public(eph)
  BY <1>5, TermsDiffer
<1>7. \A n \in 1 .. 4 : x[n] = s[n]
  <2> TAKE n \in 1 .. 4
  <2>1. n \in {1, 2, 3, 4}
    OBVIOUS
  <2> QED BY <1>1, <1>2, <1>3, <1>5, <1>6, <2>1
<1>8. x = s
  BY <1>1, <1>3, <1>7
<1> QED BY <1>8 DEF s

LEMMA HybridFixed ==
  ASSUME NEW key, NEW recipient, NEW rng, NEW aad, NEW x, NEW secret2, NEW aad2,
         LET s == SealHybrid(key, recipient, rng, aad)
         IN  x = [n \in DOMAIN s |-> x[n]] /\ x[5] = s[5],
         HybridParses(x), OpenHybrid(x, secret2, aad2) # {}
  PROVE  x = SealHybrid(key, recipient, rng, aad)
<1> DEFINE s == SealHybrid(key, recipient, rng, aad)
           eph == Drawn(rng, "eph")
           nonce == Drawn(rng, "nonce")
           ct == Encapsulated(recipient.ek, Drawn(rng, "coins"))
           shared2 == Decapsulated(secret2.dk, x[3])
           kek == HybridKek(Agreed(eph, recipient.x), Shared(ct), Public(eph), recipient.x)
           kek2 == HybridKek(Agreed(secret2.x, x[2]), shared2, x[2], Public(secret2.x))
<1>1. /\ DOMAIN s = 1 .. 5 /\ s[1] = StanzaVersion /\ s[2] = Public(eph) /\ s[3] = ct /\ s[4] = nonce
      /\ s[5] = Wrapped(kek, key, nonce, aad)
      /\ s = [n \in DOMAIN s |-> s[n]]
  BY DEF SealHybrid
<1>2. x[1] = StanzaVersion
  BY DEF HybridParses
<1> HIDE DEF s, eph, nonce, ct
<1>3. x = [n \in DOMAIN s |-> x[n]] /\ x[5] = s[5]
  BY DEF s
<1>4. Unwrapped(kek2, Wrapped(kek, key, nonce, aad), x[4], aad2) # {}
  BY <1>1, <1>3 DEF OpenHybrid
<1>5. kek2 = kek /\ x[4] = nonce
  <2> HIDE DEF kek, kek2
  <2> QED BY <1>4, UnwrapsOnlyOwn
<1>6. x[2] = Public(eph) /\ shared2 = Shared(ct)
  <2> HIDE DEF shared2
  <2> QED BY <1>5, TermsDiffer
<1>7. x[3] = ct
  <2>1. \A a, b, r : Shared(a) = Shared(b) => a = b
    BY DEF Shared
  <2>2. ASSUME NEW a, NEW b, NEW r PROVE [rejected |-> a, by |-> b] # Shared(r)
    <3>1. "by" \in DOMAIN [rejected |-> a, by |-> b] /\ "by" \notin DOMAIN Shared(r)
      BY DEF Shared
    <3> QED BY <3>1
  <2> QED BY <1>6, <2>1, <2>2 DEF Decapsulated
<1>8. \A n \in 1 .. 5 : x[n] = s[n]
  <2> TAKE n \in 1 .. 5
  <2>1. n \in {1, 2, 3, 4, 5}
    OBVIOUS
  <2> QED BY <1>1, <1>2, <1>3, <1>5, <1>6, <1>7, <2>1
<1>9. x = s
  BY <1>1, <1>3, <1>8
<1> QED BY <1>9 DEF s

(* The place of the wrapped key.                                           *)
LastCell == [pass |-> 8, x25519 |-> 4, mlkem |-> 5]

LEMMA StanzaFixed ==
  ASSUME NEW type \in WrapperTypes, NEW key, NEW owner, NEW profile \in DOMAIN MemoryKib, NEW rng,
         NEW aad, NEW x, NEW owner2, NEW aad2,
         LET s == SealStanza(type, key, owner, profile, rng, aad)
         IN  x = [n \in DOMAIN s |-> x[n]] /\ x[LastCell[type]] = s[LastCell[type]],
         OpenStanza(type, x, owner2, aad2) # {}
  PROVE  x = SealStanza(type, key, owner, profile, rng, aad)
<1>1. CASE type = "pass"
  <2>1. SealStanza(type, key, owner, profile, rng, aad) = SealPass(key, profile, Owned(owner), rng, aad)
    BY <1>1 DEF SealStanza
  <2>2. PassParses(x) /\ OpenPass(x, Owned(owner2), aad2) # {} /\ LastCell[type] = 8
    BY <1>1 DEF OpenStanza, StanzaParses, LastCell
  <2> QED BY <2>1, <2>2, PassFixed
<1>2. CASE type = "x25519"
  <2>1. SealStanza(type, key, owner, profile, rng, aad) = SealX25519(key, Public(Owned(owner)), rng, aad)
    BY <1>2 DEF SealStanza
  <2>2. X25519Parses(x) /\ OpenX25519(x, Owned(owner2), aad2) # {} /\ LastCell[type] = 4
    BY <1>2 DEF OpenStanza, StanzaParses, LastCell
  <2> QED BY <2>1, <2>2, X25519Fixed
<1>3. CASE type = "mlkem"
  <2>1. SealStanza(type, key, owner, profile, rng, aad)
          = SealHybrid(key, HybridPublic(HybridSecret(owner)), rng, aad)
    BY <1>3 DEF SealStanza
  <2>2. HybridParses(x) /\ OpenHybrid(x, HybridSecret(owner2), aad2) # {} /\ LastCell[type] = 5
    BY <1>3 DEF OpenStanza, StanzaParses, LastCell
  <2> QED BY <2>1, <2>2, HybridFixed
<1> QED BY <1>1, <1>2, <1>3 DEF WrapperTypes

(* A stanza of a type has the cells of the type.                           *)
LEMMA StanzaCells ==
  ASSUME NEW type \in WrapperTypes, NEW key, NEW owner, NEW profile, NEW rng, NEW aad
  PROVE  DOMAIN SealStanza(type, key, owner, profile, rng, aad) = 1 .. LastCell[type]
<1>1. LastCell["pass"] = 8 /\ LastCell["x25519"] = 4 /\ LastCell["mlkem"] = 5
  BY DEF LastCell
<1>2. CASE type = "pass"
  BY <1>1, <1>2 DEF SealStanza, SealPass
<1>3. CASE type = "x25519"
  BY <1>1, <1>3 DEF SealStanza, SealX25519
<1>4. CASE type = "mlkem"
  BY <1>1, <1>4 DEF SealStanza, SealHybrid
<1> QED BY <1>2, <1>3, <1>4 DEF WrapperTypes

-----------------------------------------------------------------------------
(* A container, with what was encrypted and for whom; numbers of draws.    *)
Draws == -MaxContainers .. MaxContainers

WellMade(m) ==
  \E f \in 1 .. Len(made), recipients \in RecipientLists, seal \in Draws :
    /\ WellSealed(m.container, f, m.input, recipients, seal)
    /\ m.readers = Readers(recipients)

MadeInv ==
  /\ made \in Seq(Range(made))
  /\ Len(made) <= MaxContainers
  /\ \A i \in DOMAIN made : made[i].input \in Inputs /\ WellMade(made[i])

(* Containers of one file are about one input.                             *)
OneInput ==
  \A i, j \in DOMAIN made :
    FileUuid(made[i].container) = FileUuid(made[j].container) => made[i].input = made[j].input

(* Recipients prepared for a file: sealed for the header every container   *)
(* of that file gets when it is rewrapped for them.                        *)
HeaderFor(input, recipients) ==
  Header(WrapsSectionLen(EntrySizes(recipients)), MetadataLen(EncodeMetadata(Described(input, 0))))

WellPrepared(p) ==
  \E i \in DOMAIN made, recipients \in RecipientLists, choice \in PolicyChoices, seal \in Draws :
    /\ p.uuid = FileUuid(made[i].container)
    /\ p.fmk = p.uuid
    /\ p.input = made[i].input
    /\ p.readers = Readers(recipients)
    /\ p.policy = RewrapPolicy(choice, recipients)
    /\ p.wraps = SealWrappers(recipients, p.uuid, p.uuid, HeaderFor(p.input, recipients), seal)

PreparedInv ==
  /\ IsOption(prepared)
  /\ \A i \in DOMAIN prepared : WellPrepared(prepared[i])

LifeInv == MadeInv /\ OneInput /\ PreparedInv

-----------------------------------------------------------------------------
(* What the assumptions say in the words of those lemmas.                  *)
LEMMA Callers ==
  /\ \A input \in Inputs : IsInput(input)
  /\ \A recipients \in RecipientLists :
       IsRecipients(recipients) /\ (recipients # <<>> => Len(recipients) > 0)
  /\ \A choice \in PolicyChoices, recipients \in RecipientLists :
       RewrapPolicy(choice, recipients).total \in Nat
<1>1. \A input \in Inputs : IsInput(input)
  BY CallersAssumption DEF IsInput
<1>2. ASSUME NEW recipients \in RecipientLists
      PROVE  IsRecipients(recipients) /\ (recipients # <<>> => Len(recipients) > 0)
  <2>1. recipients \in Seq(Recipient)
    BY CallersAssumption
  <2>2. \A i \in DOMAIN recipients : recipients[i] \in Recipient
    BY <2>1
  <2>3. \A r \in Recipient : r.key \in Keys /\ r.profile \in DOMAIN MemoryKib
    BY DEF Recipient
  <2> QED BY <2>1, <2>2, <2>3 DEF IsRecipients
<1>3. ASSUME NEW choice \in PolicyChoices, NEW recipients \in RecipientLists
      PROVE  RewrapPolicy(choice, recipients).total \in Nat
  BY CallersAssumption DEF RewrapPolicy
<1> QED BY <1>1, <1>2, <1>3

(* A sequence of its own elements, and one more.                           *)
LEMMA Appended ==
  ASSUME NEW s, s \in Seq(Range(s)), NEW x
  PROVE  /\ Append(s, x) \in Seq(Range(Append(s, x)))
         /\ Len(s) \in Nat /\ DOMAIN s = 1 .. Len(s)
         /\ Len(Append(s, x)) = Len(s) + 1
         /\ DOMAIN Append(s, x) = 1 .. Len(s) + 1
         /\ \A i \in 1 .. Len(s) : Append(s, x)[i] = s[i]
         /\ Append(s, x)[Len(s) + 1] = x
<1> DEFINE t == Append(s, x)
           S == Range(s) \cup {x}
<1>1. s \in Seq(S)
  OBVIOUS
<1>2. /\ t \in Seq(S) /\ Len(s) \in Nat /\ DOMAIN s = 1 .. Len(s) /\ Len(t) = Len(s) + 1
      /\ DOMAIN t = 1 .. Len(s) + 1
      /\ \A i \in 1 .. Len(s) : t[i] = s[i]
      /\ t[Len(s) + 1] = x
  BY <1>1
<1> HIDE DEF t
<1>3. \A i \in 1 .. Len(t) : t[i] \in Range(t)
  BY <1>2 DEF Range
<1>4. t = [i \in 1 .. Len(t) |-> t[i]] /\ Len(t) \in Nat
  BY <1>2
<1>5. t \in Seq(Range(t))
  BY <1>3, <1>4
<1> QED BY <1>2, <1>5 DEF t

(* A container made is one of the file its file_uuid names.                *)
LEMMA MadeIsOfItsFile ==
  ASSUME LifeInv, NEW i \in DOMAIN made
  PROVE  LET c == made[i].container
         IN  /\ made[i].input \in Inputs /\ IsInput(made[i].input)
             /\ FileUuid(c) \in 1 .. Len(made)
             /\ \E recipients \in RecipientLists, seal \in Draws :
                  /\ WellSealed(c, FileUuid(c), made[i].input, recipients, seal)
                  /\ made[i].readers = Readers(recipients)
<1> DEFINE c == made[i].container
<1>1. PICK f \in 1 .. Len(made), recipients \in RecipientLists, seal \in Draws :
        WellSealed(c, f, made[i].input, recipients, seal) /\ made[i].readers = Readers(recipients)
  BY DEF LifeInv, MadeInv, WellMade
<1>2. FileUuid(c) = f
  BY <1>1, SealedSections
<1>3. made[i].input \in Inputs
  BY DEF LifeInv, MadeInv
<1> HIDE DEF c
<1>4. /\ FileUuid(c) \in 1 .. Len(made)
      /\ \E rs \in RecipientLists, se \in Draws :
           WellSealed(c, FileUuid(c), made[i].input, rs, se) /\ made[i].readers = Readers(rs)
  BY <1>1, <1>2
<1> QED BY <1>3, <1>4, Callers DEF c

(* What a key gets from it is the file's.                                  *)
LEMMA UnwrappedIsFile ==
  ASSUME NEW c, NEW f, NEW input, NEW recipients \in RecipientLists, NEW seal, NEW key \in Keys,
         WellSealed(c, f, input, recipients, seal)
  PROVE  /\ UnwrappedFmk(c, key) = IF key \in Readers(recipients) THEN {f} ELSE {}
         /\ \A fmk \in UnwrappedFmk(c, key) : fmk = f
<1>1. c.wraps = SealWrappers(recipients, f, f, c.header, seal)
  BY SealedSections
<1>2. IsRecipients(recipients)
  BY Callers
<1>3. UnwrappedFmk(c, key)
        = IF \E i \in DOMAIN recipients : recipients[i].key = key THEN {f} ELSE {}
  BY <1>1, <1>2, SectionGives
<1> QED BY <1>3 DEF Readers

(* The header of a rewrap depends on the file and the new recipients only. *)
LEMMA RewrapHeader ==
  ASSUME NEW c, NEW f, NEW input, NEW old, NEW seal, NEW recipients,
         WellSealed(c, f, input, old, seal)
  PROVE  NewHeader(c.header, EntrySizes(recipients)) = HeaderFor(input, recipients)
<1>1. c.metadata = SealMetadata(f, f, c.header, EncodeMetadata(Described(input, c.footer.root)))
  BY SealedSections
<1>2. c.header.metadataLen = MetadataLen(c.metadata.plain)
  BY DEF WellSealed, Parses, LayoutHolds
<1>3. MetadataLen(EncodeMetadata(Described(input, c.footer.root)))
        = MetadataLen(EncodeMetadata(Described(input, 0)))
  BY RootKeepsLength
<1>4. c.header.metadataLen = MetadataLen(EncodeMetadata(Described(input, 0)))
  BY <1>1, <1>2, <1>3 DEF SealMetadata
<1> QED BY <1>4 DEF NewHeader, HeaderFor

(* A container of file f returned by an operation joins the others.        *)
LEMMA ReturnKeeps ==
  ASSUME LifeInv, Len(made) < MaxContainers,
         NEW result, NEW input \in Inputs, NEW readers,
         Return(result, input, readers),
         result.status = "ok" =>
           \E f \in 1 .. Len(made) + 1, recipients \in RecipientLists, seal \in Draws :
             /\ WellSealed(result.container, f, input, recipients, seal)
             /\ readers = Readers(recipients)
             /\ \A i \in DOMAIN made : FileUuid(made[i].container) = f => made[i].input = input,
         prepared' = prepared \/ prepared' = <<>>
  PROVE  LifeInv'
<1>0. made \in Seq(Range(made)) /\ MaxContainers \in Nat
  BY BoundAssumption DEF LifeInv, MadeInv
<1>1. CASE result.status # "ok"
  <2>1. made' = made
    BY <1>1 DEF Return
  <2>2. MadeInv' /\ OneInput'
    BY <2>1 DEF LifeInv, MadeInv, OneInput, WellMade
  <2>3. IsOption(prepared')
    BY DEF LifeInv, PreparedInv, IsOption
  <2>4. PreparedInv'
    BY <2>1, <2>3 DEF LifeInv, PreparedInv, WellPrepared
  <2> QED BY <2>2, <2>4 DEF LifeInv
<1>2. CASE result.status = "ok"
  <2> DEFINE n == [container |-> result.container, input |-> input, readers |-> readers]
  <2>1. PICK f \in 1 .. Len(made) + 1, recipients \in RecipientLists, seal \in Draws :
          /\ WellSealed(result.container, f, input, recipients, seal)
          /\ readers = Readers(recipients)
          /\ \A i \in DOMAIN made : FileUuid(made[i].container) = f => made[i].input = input
    BY <1>2
  <2>2. made' = Append(made, n)
    BY <1>2 DEF Return
  <2>3. n.container = result.container /\ n.input = input /\ n.readers = readers
    OBVIOUS
  <2> HIDE DEF n
  <2>4. /\ made' \in Seq(Range(made'))
        /\ Len(made) \in Nat /\ DOMAIN made = 1 .. Len(made)
        /\ Len(made') = Len(made) + 1
        /\ DOMAIN made' = 1 .. Len(made) + 1
        /\ \A i \in 1 .. Len(made) : made'[i] = made[i]
        /\ made'[Len(made) + 1] = n
    BY <1>0, <2>2, Appended
  <2>5. FileUuid(n.container) = f
    BY <2>1, <2>3, SealedSections
  <2>6. \A i \in DOMAIN made' : (made[i].input \in Inputs /\ WellMade(made[i]))'
    <3> TAKE i \in DOMAIN made'
    <3>1. CASE i = Len(made) + 1
      BY <2>1, <2>3, <2>4, <3>1 DEF WellMade
    <3>2. CASE i # Len(made) + 1
      <4>1. i \in DOMAIN made /\ made'[i] = made[i]
        BY <2>4, <3>2
      <4>2. made[i].input \in Inputs /\ WellMade(made[i])
        BY <4>1 DEF LifeInv, MadeInv
      <4>3. 1 .. Len(made) \subseteq 1 .. Len(made')
        BY <2>4
      <4> QED BY <4>1, <4>2, <4>3 DEF WellMade
    <3> QED BY <3>1, <3>2
  <2>7. MadeInv'
    BY <1>0, <2>4, <2>6 DEF MadeInv
  <2>8. OneInput'
    BY <2>1, <2>3, <2>4, <2>5 DEF LifeInv, OneInput
  <2>9. IsOption(prepared')
    BY DEF LifeInv, PreparedInv, IsOption
  <2>10. \A i \in DOMAIN made : i \in DOMAIN made' /\ made'[i] = made[i]
    BY <2>4
  <2>11. ASSUME NEW p, WellPrepared(p) PROVE WellPrepared(p)'
    BY <2>10, <2>11 DEF WellPrepared
  <2>12. PreparedInv'
    BY <2>9, <2>11 DEF LifeInv, PreparedInv
  <2> QED BY <2>7, <2>8, <2>12 DEF LifeInv
<1> QED BY <1>1, <1>2

-----------------------------------------------------------------------------
(* The operations.                                                         *)
LEMMA EncryptKeeps ==
  ASSUME LifeInv, NEW input \in Inputs, NEW recipients \in RecipientLists,
         EncryptFile(input, recipients)
  PROVE  LifeInv'
<1> DEFINE r == Encrypt(input, recipients, Fresh, Fresh, Fresh)
<1>1. Len(made) < MaxContainers /\ Return(r, input, Readers(recipients)) /\ prepared' = prepared
  BY DEF EncryptFile
<1>2. Len(made) \in Nat /\ MaxContainers \in Nat /\ Fresh = Len(made) + 1
  BY Appended, BoundAssumption DEF LifeInv, MadeInv, Fresh
<1>3. ASSUME r.status = "ok"
      PROVE  /\ WellSealed(r.container, Fresh, input, recipients, Fresh)
             /\ \A i \in DOMAIN made : FileUuid(made[i].container) = Fresh => made[i].input = input
  <2>1. recipients # <<>>
    BY <1>3 DEF Encrypt, Refused
  <2>2. IsInput(input) /\ IsRecipients(recipients) /\ Len(recipients) > 0
    BY <2>1, Callers
  <2>3. WellSealed(r.container, Fresh, input, recipients, Fresh)
    BY <1>3, <2>2, EncryptSeals
  <2>4. \A i \in DOMAIN made : FileUuid(made[i].container) # Fresh
    BY <1>2, MadeIsOfItsFile
  <2> QED BY <2>3, <2>4
<1>4. Fresh \in 1 .. Len(made) + 1 /\ Fresh \in Draws
  BY <1>1, <1>2 DEF Draws
<1> HIDE DEF r
<1> QED BY <1>1, <1>3, <1>4, ReturnKeeps

(* Rewrapping a container of file f for recipients sealed for it.          *)
LEMMA RewrapReturns ==
  ASSUME LifeInv, NEW j \in DOMAIN made, NEW recipients \in RecipientLists, NEW seal \in Draws,
         NEW choice \in PolicyChoices, NEW wraps,
         LET f == FileUuid(made[j].container)
         IN  wraps = SealWrappers(recipients, f, f, HeaderFor(made[j].input, recipients), seal),
         LET f == FileUuid(made[j].container)
         IN  RewrapContainer(made[j].container, f, f, RewrapPolicy(choice, recipients), wraps).status = "ok"
  PROVE  LET f == FileUuid(made[j].container)
         IN  /\ f \in 1 .. Len(made) + 1
             /\ WellSealed(RewrapContainer(made[j].container, f, f, RewrapPolicy(choice, recipients),
                                           wraps).container,
                           f, made[j].input, recipients, seal)
             /\ \A i \in DOMAIN made : FileUuid(made[i].container) = f => made[i].input = made[j].input
<1> DEFINE c == made[j].container
           f == FileUuid(c)
           input == made[j].input
           policy == RewrapPolicy(choice, recipients)
<1>1. PICK old \in RecipientLists, oldSeal \in Draws : WellSealed(c, f, input, old, oldSeal)
  BY MadeIsOfItsFile
<1>2. f \in 1 .. Len(made) /\ Len(made) \in Nat
  BY MadeIsOfItsFile, Appended DEF LifeInv, MadeInv
<1>3. \A i \in DOMAIN made : FileUuid(made[i].container) = f => made[i].input = input
  BY DEF LifeInv, OneInput
<1>4. /\ wraps = SealWrappers(recipients, f, f, HeaderFor(input, recipients), seal)
      /\ RewrapContainer(c, f, f, policy, wraps).status = "ok"
  OBVIOUS
<1>5. IsRecipients(recipients) /\ policy.total \in Nat
  BY Callers
<1> HIDE DEF c, f, input, policy
<1>6. NewHeader(c.header, EntrySizes(recipients)) = HeaderFor(input, recipients)
  BY <1>1, RewrapHeader
<1>7. WellSealed(RewrapContainer(c, f, f, policy, wraps).container, f, input, recipients, seal)
  BY <1>1, <1>4, <1>5, <1>6, RewrapSeals
<1>8. f \in 1 .. Len(made) + 1
  BY <1>2
<1> QED BY <1>3, <1>7, <1>8 DEF c, f, input, policy

LEMMA RewrapKeeps ==
  ASSUME LifeInv, NEW j \in DOMAIN made, NEW key \in Keys, NEW recipients \in RecipientLists,
         NEW choice \in PolicyChoices, Rewrap(made[j], key, recipients, choice)
  PROVE  LifeInv'
<1> DEFINE c == made[j].container
           f == FileUuid(c)
           input == made[j].input
           wraps == RewrapWrappers(c, f, recipients, Fresh)
           r == RewrapContainer(c, f, f, RewrapPolicy(choice, recipients), wraps)
<1>1. PICK old \in RecipientLists, oldSeal \in Draws : WellSealed(c, f, input, old, oldSeal)
  BY MadeIsOfItsFile
<1>2. /\ Len(made) < MaxContainers /\ prepared' = prepared
      /\ Return(r, input, Readers(recipients))
  BY <1>1, UnwrappedIsFile DEF Rewrap
<1>3. Fresh \in Draws /\ input \in Inputs
  <2>1. Len(made) \in Nat /\ MaxContainers \in Nat /\ input \in Inputs
    BY Appended, MadeIsOfItsFile, BoundAssumption DEF LifeInv, MadeInv
  <2> QED BY <1>2, <2>1 DEF Fresh, Draws
<1>4. wraps = SealWrappers(recipients, f, f, HeaderFor(input, recipients), Fresh)
  BY <1>1, RewrapHeader DEF RewrapWrappers
<1> HIDE DEF wraps
<1>5. ASSUME r.status = "ok"
      PROVE  /\ f \in 1 .. Len(made) + 1
             /\ WellSealed(r.container, f, input, recipients, Fresh)
             /\ \A i \in DOMAIN made : FileUuid(made[i].container) = f => made[i].input = input
  BY <1>3, <1>4, <1>5, RewrapReturns
<1> HIDE DEF c, f, input, r
<1> QED BY <1>2, <1>3, <1>5, ReturnKeeps

LEMMA PrepareKeeps ==
  ASSUME LifeInv, NEW j \in DOMAIN made, NEW key \in Keys, NEW recipients \in RecipientLists,
         NEW choice \in PolicyChoices, Prepare(made[j], key, recipients, choice)
  PROVE  LifeInv'
<1> DEFINE c == made[j].container
           f == FileUuid(c)
           input == made[j].input
           wraps == RewrapWrappers(c, f, recipients, -Fresh)
           p == [fmk |-> f, uuid |-> f, input |-> input, readers |-> Readers(recipients),
                 policy |-> RewrapPolicy(choice, recipients), wraps |-> wraps]
<1>1. PICK old \in RecipientLists, oldSeal \in Draws : WellSealed(c, f, input, old, oldSeal)
  BY MadeIsOfItsFile
<1>2. Len(made) < MaxContainers /\ made' = made /\ prepared' = <<p>>
  BY <1>1, UnwrappedIsFile DEF Prepare
<1>3. -Fresh \in Draws
  <2>1. Len(made) \in Nat /\ MaxContainers \in Nat
    BY Appended, BoundAssumption DEF LifeInv, MadeInv
  <2> QED BY <1>2, <2>1 DEF Fresh, Draws
<1>4. wraps = SealWrappers(recipients, f, f, HeaderFor(input, recipients), -Fresh)
  BY <1>1, RewrapHeader DEF RewrapWrappers
<1>5. /\ p.fmk = f /\ p.uuid = f /\ p.input = input /\ p.readers = Readers(recipients)
      /\ p.policy = RewrapPolicy(choice, recipients) /\ p.wraps = wraps
  OBVIOUS
<1> HIDE DEF wraps, p
<1>6. IsOption(prepared') /\ DOMAIN prepared' = {1} /\ prepared'[1] = p
  BY <1>2 DEF IsOption
<1>7. MadeInv' /\ OneInput'
  BY <1>2 DEF LifeInv, MadeInv, OneInput, WellMade
<1>8. WellPrepared(prepared[1])'
  BY <1>2, <1>3, <1>4, <1>5, <1>6 DEF WellPrepared
<1>9. PreparedInv'
  BY <1>6, <1>8 DEF PreparedInv
<1> QED BY <1>7, <1>9 DEF LifeInv

LEMMA CommitKeeps ==
  ASSUME LifeInv, NEW j \in DOMAIN made, Commit(made[j])
  PROVE  LifeInv'
<1> DEFINE c == made[j].container
<1>1. PICK i \in DOMAIN prepared :
        Return(Finish(prepared[i], c), prepared[i].input, prepared[i].readers)
  BY DEF Commit
<1> DEFINE p == prepared[i]
           r == Finish(p, c)
<1>2. Len(made) < MaxContainers /\ prepared' = <<>> /\ Return(r, p.input, p.readers)
  BY <1>1 DEF Commit
<1>3. PICK k \in DOMAIN made, recipients \in RecipientLists, choice \in PolicyChoices, seal \in Draws :
        /\ p.uuid = FileUuid(made[k].container)
        /\ p.fmk = p.uuid
        /\ p.input = made[k].input
        /\ p.readers = Readers(recipients)
        /\ p.policy = RewrapPolicy(choice, recipients)
        /\ p.wraps = SealWrappers(recipients, p.uuid, p.uuid, HeaderFor(p.input, recipients), seal)
  BY DEF LifeInv, PreparedInv, WellPrepared
<1>4. PICK old \in RecipientLists, oldSeal \in Draws :
        WellSealed(c, FileUuid(c), made[j].input, old, oldSeal)
  BY MadeIsOfItsFile
<1>5. p.input \in Inputs
  BY <1>3, MadeIsOfItsFile
<1>6. r = RewrapContainer(c, p.fmk, p.uuid, p.policy, p.wraps)
  BY DEF Finish
<1> HIDE DEF p, r
<1>7. ASSUME r.status = "ok"
      PROVE  /\ p.uuid \in 1 .. Len(made) + 1
             /\ WellSealed(r.container, p.uuid, p.input, recipients, seal)
             /\ \A m \in DOMAIN made : FileUuid(made[m].container) = p.uuid => made[m].input = p.input
  <2>1. p.uuid = FileUuid(c)
    BY <1>4, <1>6, <1>7, RewrapRefusesOthers
  <2>2. p.input = made[j].input
    BY <1>3, <2>1 DEF LifeInv, OneInput
  <2> QED BY <1>3, <1>6, <1>7, <2>1, <2>2, RewrapReturns
<1> QED BY <1>2, <1>3, <1>5, <1>7, ReturnKeeps

(* The inductive invariant holds of every container that is made, kept or  *)
(* mixed from copies (ops/encrypt.rs, ops/rewrap.rs).                      *)
THEOREM LifeInvariant == Spec => []LifeInv
<1>1. Init => LifeInv
  <2> SUFFICES ASSUME Init PROVE LifeInv
    OBVIOUS
  <2>1. made = <<>> /\ prepared = <<>>
    BY DEF Init
  <2>2. made \in Seq(Range(made)) /\ Len(made) = 0 /\ DOMAIN made = {}
    BY <2>1
  <2>3. IsOption(prepared) /\ DOMAIN prepared = {}
    BY <2>1 DEF IsOption
  <2> QED BY <2>2, <2>3, BoundAssumption DEF LifeInv, MadeInv, OneInput, PreparedInv
<1>2. LifeInv /\ [Next]_vars => LifeInv'
  <2> SUFFICES ASSUME LifeInv, [Next]_vars PROVE LifeInv'
    OBVIOUS
  <2>1. CASE UNCHANGED vars
    BY <2>1 DEF vars, LifeInv, MadeInv, WellMade, OneInput, PreparedInv, WellPrepared
  <2>2. CASE Next
    BY <2>2, EncryptKeeps, RewrapKeeps, PrepareKeeps, CommitKeeps DEF Next
  <2> QED BY <2>1, <2>2
<1> QED BY <1>1, <1>2, PTL DEF Spec

(* The type invariant: whatever is encrypted and rewrapped, every          *)
(* container made parses, with its sections where its header says.         *)
THEOREM LifeTyped == Spec => []TypeOK
<1>1. LifeInv => TypeOK
  <2> SUFFICES ASSUME LifeInv PROVE TypeOK
    OBVIOUS
  <2>1. Len(made) <= MaxContainers
    BY DEF LifeInv, MadeInv
  <2>2. prepared = <<>> \/ prepared = <<prepared[1]>>
    BY DEF LifeInv, PreparedInv, IsOption
  <2>3. Len(prepared) <= 1
    BY <2>2
  <2>4. ASSUME NEW i \in DOMAIN made PROVE Parses(made[i].container)
    BY MadeIsOfItsFile DEF WellSealed
  <2> QED BY <2>1, <2>3, <2>4 DEF TypeOK
<1> QED BY <1>1, LifeInvariant, PTL

-----------------------------------------------------------------------------
(* What can be read.                                                       *)

(* The texts said of a file are short enough for MetadataPlaintext::parse. *)
(* (encrypt does not test it; the run LongName shows what comes of that.)  *)
ShortTexts == \A input \in Inputs : TextsShort(input)

LEMMA MadeDecrypts ==
  ASSUME LifeInv, ShortTexts, NEW i \in DOMAIN made, NEW key \in Keys
  PROVE  Decrypt(made[i].container, key) =
           IF key \notin made[i].readers THEN Failed("NoMatchingWrapper")
           ELSE IF made[i].input.size > MaxPlaintext THEN Failed("PlaintextSizeLimitExceeded")
           ELSE Opened(made[i].input.text, Described(made[i].input, made[i].container.footer.root))
<1> DEFINE c == made[i].container
           input == made[i].input
<1>1. PICK recipients \in RecipientLists, seal \in Draws :
        WellSealed(c, FileUuid(c), input, recipients, seal) /\ made[i].readers = Readers(recipients)
  BY MadeIsOfItsFile
<1>2. TextsShort(input)
  BY MadeIsOfItsFile DEF ShortTexts
<1>3. key \in made[i].readers <=> \E n \in DOMAIN recipients : recipients[n].key = key
  BY <1>1 DEF Readers
<1> HIDE DEF c, input
<1>4. Decrypt(c, key)
        = IF ~ \E n \in DOMAIN recipients : recipients[n].key = key THEN Failed("NoMatchingWrapper")
          ELSE IF input.size > MaxPlaintext THEN Failed("PlaintextSizeLimitExceeded")
          ELSE Opened(input.text, Described(input, c.footer.root))
  BY <1>1, <1>2, SealedDecrypts
<1>5. Decrypt(c, key)
        = IF key \notin made[i].readers THEN Failed("NoMatchingWrapper")
          ELSE IF input.size > MaxPlaintext THEN Failed("PlaintextSizeLimitExceeded")
          ELSE Opened(input.text, Described(input, c.footer.root))
  BY <1>3, <1>4
<1> QED BY <1>5 DEF c, input

(* Containers open for exactly those they were made for, with exactly what *)
(* was encrypted, after any chain of rewraps in one step or two.           *)
THEOREM LifeReadersExactly == ShortTexts => (Spec => []ReadersExactly)
<1> SUFFICES ASSUME ShortTexts PROVE Spec => []ReadersExactly
  OBVIOUS
<1>1. LifeInv => ReadersExactly
  BY MadeDecrypts DEF ReadersExactly
<1> QED BY <1>1, LifeInvariant, PTL

(* Recipients prepared for a file fit every container of that file and no  *)
(* other: a rewrap finished on an older or a newer container opens for     *)
(* them, and one finished on another file's is refused.                    *)
THEOREM LifePreparedFits == ShortTexts => (Spec => []PreparedFitsItsFile)
<1> SUFFICES ASSUME ShortTexts PROVE Spec => []PreparedFitsItsFile
  OBVIOUS
<1>1. ASSUME LifeInv, NEW p \in Range(prepared), NEW j \in DOMAIN made
      PROVE  LET c == made[j].container
                 r == Finish(p, c)
             IN  IF FileUuid(c) # p.uuid
                 THEN r.status # "ok"
                 ELSE p.wraps # <<>> /\ PolicyValid(p.policy) /\ DistinctIds(p.wraps) /\ IdsFit(p.wraps)
                        => /\ r.status = "ok"
                           /\ p.input.size <= MaxPlaintext =>
                                \A key \in p.readers : Decrypt(r.container, key).text = p.input.text
  <2> DEFINE c == made[j].container
             r == Finish(p, c)
             fits == p.wraps # <<>> /\ PolicyValid(p.policy) /\ DistinctIds(p.wraps) /\ IdsFit(p.wraps)
             opens == p.input.size <= MaxPlaintext =>
                        \A key \in p.readers : Decrypt(r.container, key).text = p.input.text
  <2>1. WellPrepared(p)
    BY <1>1 DEF LifeInv, PreparedInv, Range
  <2>2. PICK k \in DOMAIN made, recipients \in RecipientLists, choice \in PolicyChoices, seal \in Draws :
          /\ p.uuid = FileUuid(made[k].container)
          /\ p.fmk = p.uuid
          /\ p.input = made[k].input
          /\ p.readers = Readers(recipients)
          /\ p.policy = RewrapPolicy(choice, recipients)
          /\ p.wraps = SealWrappers(recipients, p.uuid, p.uuid, HeaderFor(p.input, recipients), seal)
    BY <2>1 DEF WellPrepared
  <2>3. PICK old \in RecipientLists, oldSeal \in Draws :
          WellSealed(c, FileUuid(c), made[j].input, old, oldSeal)
    BY <1>1, MadeIsOfItsFile
  <2>4. r = RewrapContainer(c, p.fmk, p.uuid, p.policy, p.wraps)
    BY DEF Finish
  <2> HIDE DEF r
  <2>5. ASSUME FileUuid(c) # p.uuid PROVE r.status # "ok"
    BY <2>3, <2>4, <2>5, RewrapRefusesOthers
  <2>6. ASSUME FileUuid(c) = p.uuid, fits PROVE r.status = "ok" /\ opens
    <3>1. p.input = made[j].input /\ TextsShort(p.input)
      BY <1>1, <2>2, <2>6, MadeIsOfItsFile DEF LifeInv, OneInput, ShortTexts
    <3>2. ~(Len(p.wraps) < p.policy.total)
      <4>1. IsRecipients(recipients) /\ p.policy.total \in Nat
        BY <2>2, Callers
      <4>2. Len(p.wraps) = Len(recipients)
        BY <2>2, <4>1, WrappersCount
      <4>3. p.policy.count = Len(recipients) /\ p.policy.count >= p.policy.total
        BY <2>2, <2>6 DEF RewrapPolicy, PolicyValid
      <4> QED BY <4>1, <4>2, <4>3 DEF IsRecipients
    <3>3. r.status = "ok"
      BY <2>2, <2>3, <2>4, <2>6, <3>1, <3>2, RewrapSucceeds
    <3>4. WellSealed(r.container, p.uuid, p.input, recipients, seal)
      BY <1>1, <2>2, <2>4, <2>6, <3>1, <3>3, RewrapReturns
    <3>5. ASSUME p.input.size <= MaxPlaintext, NEW key \in p.readers
          PROVE  Decrypt(r.container, key).text = p.input.text
      <4>1. key \in Keys /\ \E n \in DOMAIN recipients : recipients[n].key = key
        BY <2>2, <3>5, Callers DEF Readers, IsRecipients
      <4>2. p.input.size \in Nat /\ ~(p.input.size > MaxPlaintext)
        BY <1>1, <2>2, <3>5, MadeIsOfItsFile, LimitAssumption DEF IsInput
      <4>3. Decrypt(r.container, key)
              = Opened(p.input.text, Described(p.input, r.container.footer.root))
        BY <3>1, <3>4, <4>1, <4>2, SealedDecrypts
      <4> QED BY <4>3 DEF Opened
    <3> QED BY <3>3, <3>5
  <2> QED BY <2>5, <2>6 DEF r
<1>2. LifeInv => PreparedFitsItsFile
  BY <1>1 DEF PreparedFitsItsFile
<1> QED BY <1>2, LifeInvariant, PTL

-----------------------------------------------------------------------------
(* What cannot be put together.                                            *)

(* A container that opens carries the footer tag of all its sections.      *)
LEMMA OpeningVerifies ==
  ASSUME NEW x, NEW key, Decrypt(x, key).status = "ok"
  PROVE  /\ Parses(x)
         /\ \E fmk \in UnwrappedFmk(x, key) : Verifies(x, fmk, FileUuid(x))
<1> DEFINE fmks == UnwrappedFmk(x, key)
           fmk == CHOOSE k \in fmks : TRUE
<1>1. Parses(x) /\ fmks # {} /\ DecryptWith(x, fmk, FileUuid(x)).status = "ok"
  BY DEF Decrypt, Failed
<1>2. fmk \in fmks
  BY <1>1
<1> HIDE DEF fmks, fmk
<1>3. Verifies(x, fmk, FileUuid(x))
  BY <1>1 DEF DecryptWith, Failed
<1> QED BY <1>1, <1>2, <1>3 DEF fmks

(* A footer tag fixes all sections before it, and the key.                 *)
LEMMA TagFixesSections ==
  ASSUME NEW c, NEW f, NEW input, NEW recipients, NEW seal,
         WellSealed(c, f, input, recipients, seal),
         NEW x, x.footer.tag = c.footer.tag, NEW fmk, NEW uuid, Verifies(x, fmk, uuid)
  PROVE  /\ x.header = c.header /\ x.policy = c.policy /\ x.wraps = c.wraps
         /\ x.metadata = c.metadata /\ x.payload = c.payload
         /\ fmk = f /\ uuid = f
<1>1. c.footer.tag = FooterTag(f, f, c.header, c.policy, c.wraps, c.metadata, c.payload)
  BY SealedSections
<1>2. x.footer.tag = FooterTag(fmk, uuid, x.header, x.policy, x.wraps, x.metadata, x.payload)
  BY DEF Verifies
<1>3. /\ c.footer.tag.fmk = f /\ c.footer.tag.uuid = f
      /\ c.footer.tag.over = Covered(c.header, c.policy, c.wraps, c.metadata, c.payload)
  BY <1>1 DEF FooterTag
<1>4. /\ x.footer.tag.fmk = fmk /\ x.footer.tag.uuid = uuid
      /\ x.footer.tag.over = Covered(x.header, x.policy, x.wraps, x.metadata, x.payload)
  BY <1>2 DEF FooterTag
<1>5. Covered(x.header, x.policy, x.wraps, x.metadata, x.payload)
        = Covered(c.header, c.policy, c.wraps, c.metadata, c.payload)
  BY <1>3, <1>4
<1>6. /\ x.header = c.header /\ x.policy = c.policy /\ x.wraps = c.wraps
      /\ x.metadata = c.metadata /\ x.payload = c.payload
  BY <1>5 DEF Covered
<1> QED BY <1>3, <1>4, <1>6

(* A container is its six sections.                                        *)
LEMMA SealedIsSections ==
  ASSUME NEW c, NEW f, NEW input, NEW recipients, NEW seal,
         WellSealed(c, f, input, recipients, seal)
  PROVE  c = [s \in Sections |-> c[s]] /\ DOMAIN c = Sections
<1>1. c = [header |-> c.header, policy |-> c.policy, wraps |-> c.wraps,
           metadata |-> c.metadata, payload |-> c.payload, footer |-> c.footer]
  BY SealedWhole
<1>2. DOMAIN c = Sections
  BY <1>1 DEF Sections
<1>3. c = [s \in DOMAIN c |-> c[s]]
  BY <1>1
<1> QED BY <1>2, <1>3

(* A splice that opens is the container whose footer it has.               *)
LEMMA SpliceIsMade ==
  ASSUME LifeInv, NEW i \in DOMAIN made, NEW j \in DOMAIN made, NEW S \in SUBSET Sections,
         NEW key, Decrypt(Splice(made[i].container, made[j].container, S), key).status = "ok"
  PROVE  \E k \in DOMAIN made : made[k].container = Splice(made[i].container, made[j].container, S)
<1> DEFINE x == Splice(made[i].container, made[j].container, S)
<1>1. PICK k \in DOMAIN made : x.footer = made[k].container.footer
  BY DEF Splice, Sections
<1> DEFINE c == made[k].container
<1>2. x = [s \in Sections |-> x[s]]
  BY DEF Splice
<1> HIDE DEF x
<1>3. PICK fmk : Verifies(x, fmk, FileUuid(x))
  BY OpeningVerifies DEF x
<1>4. PICK recipients, seal : WellSealed(c, FileUuid(c), made[k].input, recipients, seal)
  BY MadeIsOfItsFile
<1> HIDE DEF c
<1>5. /\ x.header = c.header /\ x.policy = c.policy /\ x.wraps = c.wraps
      /\ x.metadata = c.metadata /\ x.payload = c.payload /\ x.footer = c.footer
  BY <1>1, <1>3, <1>4, TagFixesSections DEF c
<1>6. \A s \in Sections : x[s] = c[s]
  BY <1>5 DEF Sections
<1>7. c = [s \in Sections |-> c[s]]
  BY <1>4, SealedIsSections
<1>8. x = c
  BY <1>2, <1>6, <1>7
<1> QED BY <1>8 DEF x, c

(* Wrapper entries in another arrangement that opens are in the old one.   *)
LEMMA RearrangedIsMade ==
  ASSUME LifeInv, NEW i \in DOMAIN made, NEW w, NEW key,
         Decrypt([made[i].container EXCEPT !.wraps = w], key).status = "ok"
  PROVE  [made[i].container EXCEPT !.wraps = w] = made[i].container
<1> DEFINE c == made[i].container
           x == [c EXCEPT !.wraps = w]
<1>1. PICK recipients, seal : WellSealed(c, FileUuid(c), made[i].input, recipients, seal)
  BY MadeIsOfItsFile
<1>2. c = [s \in Sections |-> c[s]] /\ DOMAIN c = Sections
  BY <1>1, SealedIsSections
<1>3. PICK fmk : Verifies(x, fmk, FileUuid(x))
  BY OpeningVerifies
<1>4. x.footer = c.footer /\ x.wraps = w
  BY <1>2 DEF Sections
<1>5. x.wraps = c.wraps
  <2> HIDE DEF c, x
  <2> QED BY <1>1, <1>3, <1>4, TagFixesSections
<1>6. [c EXCEPT !.wraps = c.wraps] = c
  BY <1>2
<1> QED BY <1>4, <1>5, <1>6

(* No container put together from two others, or with its wrapper entries  *)
(* rearranged, opens, unless it is one that was made.                      *)
THEOREM LifeMixturesRejected == Spec => []MixturesRejected
<1>1. ASSUME LifeInv, NEW i \in DOMAIN made, NEW j \in DOMAIN made,
             NEW x \in {Splice(made[i].container, made[j].container, S) : S \in SUBSET Sections}
                         \cup Rearranged(made[i].container, made[j].container),
             Opens(x)
      PROVE  \E k \in DOMAIN made : made[k].container = x
  <2>1. PICK key \in Keys : Decrypt(x, key).status = "ok"
    BY <1>1 DEF Opens
  <2>2. CASE \E S \in SUBSET Sections : x = Splice(made[i].container, made[j].container, S)
    BY <1>1, <2>1, <2>2, SpliceIsMade
  <2>3. CASE x \in Rearranged(made[i].container, made[j].container)
    <3>1. PICK w : x = [made[i].container EXCEPT !.wraps = w]
      BY <2>3 DEF Rearranged
    <3>2. x = made[i].container
      BY <1>1, <2>1, <3>1, RearrangedIsMade
    <3> QED BY <3>2
  <2> QED BY <1>1, <2>2, <2>3
<1>2. LifeInv => MixturesRejected
  BY <1>1 DEF MixturesRejected
<1> QED BY <1>2, LifeInvariant, PTL

(* A container with one part of another in it is, up to its footer, the    *)
(* one it was when its footer tag verifies.                                *)
LEMMA PatchedVerified ==
  ASSUME NEW c, NEW f, NEW input, NEW recipients, NEW seal,
         WellSealed(c, f, input, recipients, seal),
         NEW d, NEW x \in Patched(c, d), NEW fmk, NEW uuid, Verifies(x, fmk, uuid)
  PROVE  /\ x.header = c.header /\ x.policy = c.policy /\ x.wraps = c.wraps
         /\ x.metadata = c.metadata /\ x.payload = c.payload
<1>1. DOMAIN c = Sections
  BY SealedIsSections
<1>2. \/ x.footer = c.footer
      \/ /\ x.header = c.header /\ x.policy = c.policy /\ x.wraps = c.wraps
         /\ x.metadata = c.metadata /\ x.payload = c.payload
  <2>1. CASE \E s \in Sections : x = [c EXCEPT ![s] = d[s]]
    BY <1>1, <2>1 DEF Sections
  <2>2. CASE x = [c EXCEPT !.footer.root = d.footer.root]
    BY <1>1, <2>2 DEF Sections
  <2>3. CASE x = [c EXCEPT !.footer.tag = d.footer.tag]
    BY <1>1, <2>3 DEF Sections
  <2> QED BY <2>1, <2>2, <2>3 DEF Patched
<1>3. CASE x.footer = c.footer
  BY <1>3, TagFixesSections
<1> QED BY <1>2, <1>3

(* What the two programs compute from a recovered key.                     *)
LEMMA PythonFollows ==
  ASSUME NEW x, NEW key, Decrypt(x, key).status = "ok"
  PROVE  PyDecrypt(x, key) = PyOpens(Decrypt(x, key).text, Decrypt(x, key).metadata[1].name)
<1> DEFINE fmks == UnwrappedFmk(x, key)
           fmk == CHOOSE k \in fmks : TRUE
           uuid == FileUuid(x)
           said == MetadataOf(x.metadata.plain)
<1>1. /\ Parses(x) /\ fmks # {}
      /\ Decrypt(x, key) = DecryptWith(x, fmk, uuid)
  BY DEF Decrypt, Failed
<1>2. PyUnwrappedFmk(x, key) = fmks
  BY DEF PyUnwrappedFmk, UnwrappedFmk, PyGives
<1>3. LayoutHolds(x) /\ DistinctIds(x.wraps)
  BY <1>1 DEF Parses
<1>4. PyDecrypt(x, key) = PyDecryptWith(x, fmk, uuid)
  BY <1>1, <1>2, <1>3 DEF PyDecrypt
<1> HIDE DEF fmks, fmk, uuid
<1>5. /\ Verifies(x, fmk, uuid)
      /\ MetadataOpens(x.metadata, fmk, uuid, x.header)
      /\ x.payload.fmk = fmk /\ x.payload.uuid = uuid
      /\ DecryptWith(x, fmk, uuid) = Opened(x.payload.text, said)
  <2>1. DecryptWith(x, fmk, uuid).status = "ok"
    BY <1>1
  <2>2. \A error : error # "ok" => Failed(error).status # "ok"
    BY DEF Failed
  <2> HIDE DEF said
  <2>3. /\ Verifies(x, fmk, uuid)
        /\ MetadataOpens(x.metadata, fmk, uuid, x.header)
        /\ x.payload.fmk = fmk /\ x.payload.uuid = uuid
    BY <2>1, <2>2 DEF DecryptWith
  <2>4. DecryptWith(x, fmk, uuid) = Opened(x.payload.text, said)
    BY <2>1, <2>2 DEF DecryptWith, said
  <2> QED BY <2>3, <2>4
<1>6. said.name = PyName(x.metadata.plain)
  BY DEF MetadataOf, PyName
<1>7. Decrypt(x, key).text = x.payload.text /\ Decrypt(x, key).metadata[1].name = said.name
  BY <1>1, <1>5 DEF Opened
<1> QED BY <1>4, <1>5, <1>6, <1>7 DEF PyDecryptWith

LEMMA PythonOpensNoMore ==
  ASSUME LifeInv, ShortTexts, NEW i \in DOMAIN made, NEW d, NEW key \in Keys,
         NEW x \in Patched(made[i].container, d),
         Decrypt(x, key).status # "ok", PyDecrypt(x, key).status = "ok"
  PROVE  made[i].input.size > MaxPlaintext \/ x.footer.root # made[i].container.footer.root
<1> DEFINE c == made[i].container
           input == made[i].input
           f == FileUuid(c)
           fmks == UnwrappedFmk(x, key)
           fmk == CHOOSE k \in fmks : TRUE
           uuid == FileUuid(x)
           said == Described(input, c.footer.root)
<1> SUFFICES ASSUME ~(input.size > MaxPlaintext), x.footer.root = c.footer.root PROVE FALSE
  OBVIOUS
<1>1. PICK recipients, seal : WellSealed(c, f, input, recipients, seal)
  BY MadeIsOfItsFile
<1>2. PyUnwrappedFmk(x, key) = fmks
  BY DEF PyUnwrappedFmk, UnwrappedFmk, PyGives
<1>3. /\ LayoutHolds(x) /\ DistinctIds(x.wraps) /\ fmks # {}
      /\ PyDecryptWith(x, fmk, uuid).status = "ok"
  BY <1>2 DEF PyDecrypt, PyRaises
<1>4. Parses(x) => Decrypt(x, key) = DecryptWith(x, fmk, uuid)
  BY <1>3 DEF Decrypt
<1>5. TextsShort(input)
  BY MadeIsOfItsFile DEF ShortTexts
<1> HIDE DEF c, input, f, fmks, fmk, uuid, said
<1>6. /\ Verifies(x, fmk, uuid) /\ MetadataOpens(x.metadata, fmk, uuid, x.header)
      /\ x.payload.fmk = fmk /\ x.payload.uuid = uuid
  BY <1>3 DEF PyDecryptWith, PyRaises
<1>7. x.policy = c.policy /\ x.metadata = c.metadata /\ x.payload = c.payload
  BY <1>1, <1>6, PatchedVerified DEF c
<1>8. Parses(x)
  BY <1>1, <1>3, <1>7 DEF WellSealed, Parses
<1>9. x.metadata.plain = EncodeMetadata(said) /\ x.payload.fmk = f /\ x.payload.uuid = f
  <2>1. c.metadata = SealMetadata(f, f, c.header, EncodeMetadata(said)) /\ c.payload = SealPayload(f, f, input.text)
    BY <1>1, SealedSections DEF said
  <2> QED BY <1>7, <2>1 DEF SealMetadata, SealPayload
<1>10. MetadataParses(x.metadata.plain) /\ MetadataOf(x.metadata.plain).size = input.size
  <2>1. MetadataParses(x.metadata.plain)
    BY <1>1, <1>5, <1>9, MetadataAccepted DEF WellSealed, said
  <2>2. MetadataOf(x.metadata.plain) = said
    BY <1>1, <1>9, MetadataRead DEF WellSealed, said
  <2> QED BY <2>1, <2>2 DEF said, Described
<1>11. x.footer.root = ManifestRoot(fmk, uuid, x.payload)
  BY <1>1, <1>6, <1>7, <1>9 DEF WellSealed
<1>12. DecryptWith(x, fmk, uuid) = Opened(x.payload.text, MetadataOf(x.metadata.plain))
  BY <1>6, <1>10, <1>11 DEF DecryptWith
<1>13. Decrypt(x, key).status = "ok"
  BY <1>4, <1>8, <1>12 DEF Opened
<1> QED BY <1>13

(* The Python program opens what the Rust program opens, alike, and of     *)
(* other containers only those that are too large for the Rust program or  *)
(* whose manifest root is not that of the payload.                         *)
THEOREM LifePythonAlike == ShortTexts => (Spec => []PythonOpensAlike)
<1> SUFFICES ASSUME ShortTexts PROVE Spec => []PythonOpensAlike
  OBVIOUS
<1>1. LifeInv => PythonOpensAlike
  BY PythonFollows, PythonOpensNoMore DEF PythonOpensAlike
<1> QED BY <1>1, LifeInvariant, PTL

(* Rewrapping a container that parses, for the one who holds the key: the  *)
(* rewrap tests the footer tag, so that everything but the footer is as it *)
(* was made, and the manifest root beside the tag is taken over as it is.  *)
LEMMA RewrapHeals ==
  ASSUME NEW c, NEW f, NEW input, NEW old, NEW oldSeal,
         WellSealed(c, f, input, old, oldSeal), IsRecipients(old),
         NEW d, NEW x \in Patched(c, d), NEW key \in Keys, NEW fmk \in UnwrappedFmk(x, key),
         NEW recipients, NEW seal, NEW policy,
         IsRecipients(recipients), \E i \in DOMAIN recipients : recipients[i].key = key,
         LET r == RewrapContainer(x, fmk, FileUuid(x), policy, RewrapWrappers(x, fmk, recipients, seal))
         IN  r.status = "ok",
         Parses(x)
  PROVE  LET r == RewrapContainer(x, fmk, FileUuid(x), policy, RewrapWrappers(x, fmk, recipients, seal))
         IN  Decrypt(r.container, key) = Decrypt(x, key)
<1> DEFINE header == NewHeader(x.header, EntrySizes(recipients))
           wraps == RewrapWrappers(x, fmk, recipients, seal)
           y == Rewrapped(x, fmk, FileUuid(x), policy, wraps)
           said == Described(input, c.footer.root)
<1>1. /\ RewrapContainer(x, fmk, FileUuid(x), policy, wraps) = Produced(y)
      /\ ~(Len(wraps) < policy.total)
      /\ Verifies(x, fmk, FileUuid(x)) /\ DistinctIds(wraps) /\ PolicyValid(policy)
      /\ MetadataOpens(x.metadata, fmk, FileUuid(x), x.header) /\ MetadataParses(x.metadata.plain)
  <2>1. RewrapContainer(x, fmk, FileUuid(x), policy, wraps).status = "ok"
    OBVIOUS
  <2>2. \A error : error # "ok" => Refused(error).status # "ok"
    BY DEF Refused
  <2> HIDE DEF wraps, y
  <2>3. /\ ~(Len(wraps) < policy.total)
        /\ Verifies(x, fmk, FileUuid(x)) /\ DistinctIds(wraps) /\ PolicyValid(policy)
        /\ MetadataOpens(x.metadata, fmk, FileUuid(x), x.header) /\ MetadataParses(x.metadata.plain)
    BY <2>1, <2>2 DEF RewrapContainer, OriginalVerifies
  <2>4. RewrapContainer(x, fmk, FileUuid(x), policy, wraps) = Produced(y)
    BY <2>1, <2>2 DEF RewrapContainer, y
  <2> QED BY <2>3, <2>4
<1>2. /\ x.header = c.header /\ x.wraps = c.wraps /\ x.metadata = c.metadata /\ x.payload = c.payload
  BY <1>1, PatchedVerified
<1>3. /\ c.wraps = SealWrappers(old, f, f, c.header, oldSeal)
      /\ c.metadata = SealMetadata(f, f, c.header, EncodeMetadata(said))
      /\ FileUuid(c) = f
  BY SealedSections
<1>4. FileUuid(x) = f
  BY <1>2, <1>3 DEF FileUuid
<1>5. UnwrappedFmk(x, key) = {f} /\ fmk = f
  <2>1. x.wraps = SealWrappers(old, f, f, x.header, oldSeal)
    BY <1>2, <1>3
  <2>2. UnwrappedFmk(x, key)
          = IF (\E i \in DOMAIN old : old[i].key = key) /\ x.header = x.header THEN {f} ELSE {}
    BY <2>1, SectionGives
  <2> QED BY <2>2
<1>6. x.metadata.plain = EncodeMetadata(said) /\ MetadataOf(EncodeMetadata(said)) = said
  BY <1>2, <1>3, MetadataRead DEF SealMetadata, WellSealed
<1>7. wraps = SealWrappers(recipients, f, f, header, seal)
  BY <1>4, <1>5 DEF RewrapWrappers
<1>8. /\ [i \in DOMAIN wraps |-> [id |-> UuidLen + wraps[i].label.len,
                                  stanza |-> StanzaLen[wraps[i].type]]] = EntrySizes(recipients)
      /\ EncodedWrapsLen(wraps) = WrapsSectionLen(EntrySizes(recipients))
  BY <1>7, SizesFitWrappers
<1> DEFINE metadata == SealMetadata(f, f, header, EncodeMetadata(said))
<1>9. y = Assemble(f, f, header, policy, wraps, metadata, x.payload, x.footer.root)
  BY <1>4, <1>5, <1>6, <1>8 DEF Rewrapped, ResealedMetadata
<1>10. /\ header.payloadOffset = FixedHeaderLen + header.policyLen + header.wrapsLen + header.metadataLen
       /\ header.policyLen = PolicySectionLen
       /\ header.wrapsLen = WrapsSectionLen(EntrySizes(recipients))
       /\ header.metadataLen = x.header.metadataLen
  BY DEF NewHeader, Header
<1>11. x.header.metadataLen = MetadataLen(x.metadata.plain)
  BY DEF Parses, LayoutHolds
<1>12. /\ metadata.plain = EncodeMetadata(said)
       /\ MetadataOpens(metadata, f, f, header)
  BY DEF SealMetadata, MetadataOpens
<1>13. wraps[1].uuid = f
  BY <1>7 DEF SealWrappers, IsRecipients
<1> HIDE DEF header, wraps, y, said, metadata
<1>14. /\ y.header = header /\ y.policy = policy /\ y.wraps = wraps /\ y.metadata = metadata
       /\ y.payload = x.payload /\ y.footer.root = x.footer.root
       /\ y.footer.tag = FooterTag(f, f, y.header, y.policy, y.wraps, y.metadata, y.payload)
  BY <1>9 DEF Assemble
<1>15. Parses(y)
  BY <1>1, <1>6, <1>8, <1>10, <1>11, <1>12, <1>14 DEF Parses, LayoutHolds
<1>16. UnwrappedFmk(y, key) = {f} /\ FileUuid(y) = f
  <2>1. y.wraps = SealWrappers(recipients, f, f, y.header, seal)
    BY <1>7, <1>14
  <2>2. UnwrappedFmk(y, key)
          = IF (\E i \in DOMAIN recipients : recipients[i].key = key) /\ y.header = y.header THEN {f} ELSE {}
    BY <2>1, SectionGives
  <2> QED BY <1>13, <1>14, <2>2 DEF FileUuid
<1>17. {f} # {} /\ (CHOOSE k \in {f} : TRUE) = f
  OBVIOUS
<1>18. Decrypt(y, key) = DecryptWith(y, f, f)
  BY <1>15, <1>16, <1>17 DEF Decrypt
<1>19. Decrypt(x, key) = DecryptWith(x, f, f)
  BY <1>4, <1>5, <1>17 DEF Decrypt
<1>20. Verifies(y, f, f) /\ Verifies(x, f, f)
  BY <1>1, <1>4, <1>5, <1>14 DEF Verifies
<1>21. MetadataOpens(y.metadata, f, f, y.header) /\ MetadataOpens(x.metadata, f, f, x.header)
  BY <1>1, <1>4, <1>5, <1>12, <1>14
<1>22. y.metadata.plain = x.metadata.plain
  BY <1>6, <1>12, <1>14
<1>23. DecryptWith(y, f, f) = DecryptWith(x, f, f)
  BY <1>14, <1>20, <1>21, <1>22 DEF DecryptWith
<1>24. Produced(y).container = y
  BY DEF Produced
<1> QED BY <1>1, <1>18, <1>19, <1>23, <1>24 DEF wraps

(* Rewrapping heals nothing and breaks nothing: whatever patched container *)
(* it takes, the new one opens as the old one did, or fails as it did.     *)
THEOREM LifeRewrapHealsNothing == Spec => []RewrapHealsNothing
<1>1. ASSUME LifeInv, NEW i \in DOMAIN made, NEW d, NEW key \in Keys \ InvalidKeys,
             NEW x \in Patched(made[i].container, d), NEW fmk \in UnwrappedFmk(x, key)
      PROVE  LET recipients == <<[key |-> key, profile |-> "balanced", label |-> <<>>]>>
                 r == RewrapContainer(x, fmk, FileUuid(x), OneOfOne(recipients),
                                      RewrapWrappers(x, fmk, recipients, Fresh))
             IN  r.status = "ok" /\ Parses(x) => Decrypt(r.container, key) = Decrypt(x, key)
  <2> DEFINE c == made[i].container
             recipients == <<[key |-> key, profile |-> "balanced", label |-> <<>>]>>
             policy == OneOfOne(recipients)
  <2>1. PICK old \in RecipientLists, oldSeal \in Draws :
          WellSealed(c, FileUuid(c), made[i].input, old, oldSeal)
    BY <1>1, MadeIsOfItsFile
  <2>2. IsRecipients(old)
    BY Callers
  <2>3. "balanced" \in DOMAIN MemoryKib
    BY DEF MemoryKib
  <2>4. /\ DOMAIN recipients = {1} /\ Len(recipients) = 1
        /\ recipients[1].key = key /\ recipients[1].profile = "balanced"
    OBVIOUS
  <2> HIDE DEF recipients, policy
  <2>5. IsRecipients(recipients) /\ \E n \in DOMAIN recipients : recipients[n].key = key
    BY <2>3, <2>4 DEF IsRecipients
  <2> DEFINE r == RewrapContainer(x, fmk, FileUuid(x), policy, RewrapWrappers(x, fmk, recipients, Fresh))
  <2>6. r.status = "ok" /\ Parses(x) => Decrypt(r.container, key) = Decrypt(x, key)
    <3> SUFFICES ASSUME r.status = "ok", Parses(x) PROVE Decrypt(r.container, key) = Decrypt(x, key)
      OBVIOUS
    <3>1. key \in Keys
      OBVIOUS
    <3> QED BY <2>1, <2>2, <2>5, <3>1, RewrapHeals
  <2> QED BY <2>6 DEF recipients, policy
<1>2. LifeInv => RewrapHealsNothing
  BY <1>1, ZenonT(30) DEF RewrapHealsNothing
<1> QED BY <1>2, LifeInvariant, PTL

-----------------------------------------------------------------------------
(* What a wrapper entry of a container is.                                 *)
LEMMA EntryIsSealed ==
  ASSUME LifeInv, NEW i \in DOMAIN made, NEW k \in DOMAIN made[i].container.wraps
  PROVE  LET e == made[i].container.wraps[k]
         IN  /\ e = [uuid |-> e.uuid, label |-> e.label, type |-> e.type, stanza |-> e.stanza]
             /\ e.type \in WrapperTypes
             /\ \E key, owner, rng, aad : \E profile \in DOMAIN MemoryKib :
                  e.stanza = SealStanza(e.type, key, owner, profile, rng, aad)
<1> DEFINE c == made[i].container
           f == FileUuid(c)
           e == c.wraps[k]
<1>1. PICK recipients \in RecipientLists, seal \in Draws : WellSealed(c, f, made[i].input, recipients, seal)
  BY MadeIsOfItsFile
<1>2. c.wraps = SealWrappers(recipients, f, f, c.header, seal)
  BY <1>1, SealedSections
<1>3. k \in DOMAIN recipients
  BY <1>2 DEF SealWrappers
<1> DEFINE r == recipients[k]
<1>4. r.key \in Keys /\ r.profile \in DOMAIN MemoryKib
  BY <1>3, Callers DEF IsRecipients
<1>5. e = [uuid |-> f, label |-> Label(r, k), type |-> KeyType[r.key],
           stanza |-> SealStanza(KeyType[r.key], f, r.key, r.profile, <<seal, k>>,
                                 WrapperAad(SealIndex(k), f, c.header))]
  BY <1>2, <1>3 DEF SealWrappers
<1> HIDE DEF c, f, e, r
<1>6. e.type = KeyType[r.key] /\ e.type \in WrapperTypes
  BY <1>4, <1>5, KeysAssumption
<1>7. e = [uuid |-> e.uuid, label |-> e.label, type |-> e.type, stanza |-> e.stanza]
  BY <1>5
<1>8. e.stanza = SealStanza(e.type, f, r.key, r.profile, <<seal, k>>, WrapperAad(SealIndex(k), f, c.header))
  BY <1>5
<1>9. \E key, owner, rng, aad : \E profile \in DOMAIN MemoryKib :
        e.stanza = SealStanza(e.type, key, owner, profile, rng, aad)
  BY <1>4, <1>8
<1> QED BY <1>6, <1>7, <1>9 DEF e, c

LEMMA MixedOpensForNobody ==
  ASSUME NEW type \in WrapperTypes, NEW s, NEW t,
         \E key, owner, rng, aad : \E profile \in DOMAIN MemoryKib :
           s = SealStanza(type, key, owner, profile, rng, aad),
         \E key, owner, rng, aad : \E profile \in DOMAIN MemoryKib :
           t = SealStanza(type, key, owner, profile, rng, aad),
         NEW x \in Mixed(s, t), NEW owner2, NEW aad2
  PROVE  OpenStanza(type, x, owner2, aad2) = {}
<1> SUFFICES ASSUME OpenStanza(type, x, owner2, aad2) # {} PROVE FALSE
  OBVIOUS
<1> DEFINE last == LastCell[type]
<1>1. DOMAIN s = 1 .. last /\ DOMAIN t = 1 .. last /\ last \in 1 .. last
  <2>1. DOMAIN s = 1 .. last /\ DOMAIN t = 1 .. last
    BY StanzaCells
  <2>2. last \in {4, 5, 8}
    BY DEF LastCell, WrapperTypes
  <2> QED BY <2>1, <2>2
<1>2. PICK S : x = [n \in DOMAIN s |-> IF n \in S THEN t[n] ELSE s[n]]
  BY DEF Mixed
<1>3. x # s /\ x # t
  BY DEF Mixed
<1>4. x = [n \in DOMAIN s |-> x[n]] /\ x = [n \in DOMAIN t |-> x[n]]
  BY <1>1, <1>2
<1>5. CASE x[last] = s[last]
  <2>1. PICK key, owner, rng, aad : \E profile \in DOMAIN MemoryKib :
          s = SealStanza(type, key, owner, profile, rng, aad)
    OBVIOUS
  <2>2. PICK profile \in DOMAIN MemoryKib : s = SealStanza(type, key, owner, profile, rng, aad)
    BY <2>1
  <2>3. x = SealStanza(type, key, owner, profile, rng, aad)
    <3> DEFINE s2 == SealStanza(type, key, owner, profile, rng, aad)
    <3>1. x = [n \in DOMAIN s2 |-> x[n]] /\ x[LastCell[type]] = s2[LastCell[type]]
      BY <1>4, <1>5, <2>2
    <3> QED BY <3>1, StanzaFixed
  <2> QED BY <1>3, <2>2, <2>3
<1>6. CASE x[last] = t[last]
  <2>1. PICK key, owner, rng, aad : \E profile \in DOMAIN MemoryKib :
          t = SealStanza(type, key, owner, profile, rng, aad)
    OBVIOUS
  <2>2. PICK profile \in DOMAIN MemoryKib : t = SealStanza(type, key, owner, profile, rng, aad)
    BY <2>1
  <2>3. x = SealStanza(type, key, owner, profile, rng, aad)
    <3> DEFINE t2 == SealStanza(type, key, owner, profile, rng, aad)
    <3>1. x = [n \in DOMAIN t2 |-> x[n]] /\ x[LastCell[type]] = t2[LastCell[type]]
      BY <1>4, <1>6, <2>2
    <3> QED BY <3>1, StanzaFixed
  <2> QED BY <1>3, <2>2, <2>3
<1> QED BY <1>1, <1>2, <1>5, <1>6

(* A stanza some cells of which come from another one of its type gives    *)
(* the file key to nobody.                                                 *)
THEOREM LifeFieldsBound == Spec => []FieldsBound
<1>1. ASSUME LifeInv, NEW i \in DOMAIN made, NEW j \in DOMAIN made,
             NEW k \in DOMAIN made[i].container.wraps, NEW l \in DOMAIN made[j].container.wraps,
             made[i].container.wraps[k].type = made[j].container.wraps[l].type,
             NEW s \in Mixed(made[i].container.wraps[k].stanza, made[j].container.wraps[l].stanza),
             NEW key \in Keys
      PROVE  StanzaGives([made[i].container EXCEPT !.wraps[k].stanza = s], k, key) = {}
  <2> DEFINE c == made[i].container
             e == c.wraps[k]
             t == made[j].container.wraps[l].stanza
             x == [c EXCEPT !.wraps[k].stanza = s]
             aad == WrapperAad(k - 1, FileUuid(x), x.header)
  <2>1. PICK recipients, seal : WellSealed(c, FileUuid(c), made[i].input, recipients, seal)
    BY <1>1, MadeIsOfItsFile
  <2>2. DOMAIN c = Sections
    BY <2>1, SealedIsSections
  <2>3. /\ e = [uuid |-> e.uuid, label |-> e.label, type |-> e.type, stanza |-> e.stanza]
        /\ e.type \in WrapperTypes
        /\ \E k1, owner, rng, a : \E profile \in DOMAIN MemoryKib :
             e.stanza = SealStanza(e.type, k1, owner, profile, rng, a)
    BY <1>1, EntryIsSealed
  <2>4. \E k1, owner, rng, a : \E profile \in DOMAIN MemoryKib :
          t = SealStanza(e.type, k1, owner, profile, rng, a)
    <3>1. \E k1, owner, rng, a : \E profile \in DOMAIN MemoryKib :
            t = SealStanza(made[j].container.wraps[l].type, k1, owner, profile, rng, a)
      BY <1>1, EntryIsSealed
    <3> QED BY <1>1, <3>1
  <2>5. x.wraps[k] = [e EXCEPT !.stanza = s]
    BY <2>2 DEF Sections
  <2>6. x.wraps[k].type = e.type /\ x.wraps[k].stanza = s
    <3> HIDE DEF e, x
    <3> QED BY <2>3, <2>5
  <2>7. OpenStanza(e.type, s, key, aad) = {}
    <3> HIDE DEF aad
    <3> QED BY <2>3, <2>4, MixedOpensForNobody
  <2> HIDE DEF x
  <2>8. StanzaGives(x, k, key) = {}
    BY <2>6, <2>7 DEF StanzaGives
  <2> QED BY <2>8 DEF x
<1>2. LifeInv => FieldsBound
  BY <1>1 DEF FieldsBound
<1> QED BY <1>2, LifeInvariant, PTL

-----------------------------------------------------------------------------
(* The copies of sealed files.                                             *)

(* decrypt takes all that is encrypted: 64 GiB are not exceeded.           *)
SizesAllowed == \A input \in Inputs : input.size <= MaxPlaintext

(* The copy a container is.                                                *)
CopyInv ==
  \A i \in DOMAIN made :
    /\ CopyOf(made[i]) = [file    |-> FileUuid(made[i].container),
                          text    |-> made[i].input.text,
                          readers |-> made[i].readers]
    /\ made[i].input \in Inputs
    /\ made[i].readers \in (SUBSET Keys) \ {{}}
    /\ FileUuid(made[i].container) \in 1 .. MaxContainers

LEMMA CopiesAsMade ==
  ASSUME ShortTexts, SizesAllowed
  PROVE  LifeInv => CopyInv
<1> SUFFICES ASSUME LifeInv, NEW i \in DOMAIN made
    PROVE  /\ CopyOf(made[i]) = [file    |-> FileUuid(made[i].container),
                                 text    |-> made[i].input.text,
                                 readers |-> made[i].readers]
           /\ made[i].input \in Inputs
           /\ made[i].readers \in (SUBSET Keys) \ {{}}
           /\ FileUuid(made[i].container) \in 1 .. MaxContainers
  BY DEF CopyInv
<1> DEFINE m == made[i]
           c == m.container
<1>1. PICK recipients \in RecipientLists, seal \in Draws :
        WellSealed(c, FileUuid(c), m.input, recipients, seal) /\ m.readers = Readers(recipients)
  BY MadeIsOfItsFile
<1>2. m.input \in Inputs /\ m.input.size \in Nat /\ FileUuid(c) \in 1 .. Len(made)
  BY MadeIsOfItsFile DEF IsInput
<1>3. FileUuid(c) \in 1 .. MaxContainers
  <2>1. Len(made) \in Nat /\ MaxContainers \in Nat /\ Len(made) <= MaxContainers
    BY Appended, BoundAssumption DEF LifeInv, MadeInv
  <2> QED BY <1>2, <2>1
<1>4. m.readers \in (SUBSET Keys) \ {{}}
  <2>1. 1 \in DOMAIN recipients /\ \A n \in DOMAIN recipients : recipients[n].key \in Keys
    BY <1>1 DEF WellSealed, IsRecipients
  <2> QED BY <1>1, <2>1 DEF Readers
<1>5. c.payload.text = m.input.text
  <2>1. c.payload = SealPayload(FileUuid(c), FileUuid(c), m.input.text)
    BY <1>1, SealedSections
  <2> QED BY <2>1 DEF SealPayload
<1>6. \A key \in Keys : Decrypt(c, key).status = "ok" <=> key \in m.readers
  <2> TAKE key \in Keys
  <2>1. ~(m.input.size > MaxPlaintext)
    BY <1>2, LimitAssumption DEF SizesAllowed
  <2>2. Decrypt(c, key) = IF key \notin m.readers THEN Failed("NoMatchingWrapper")
                          ELSE Opened(m.input.text, Described(m.input, c.footer.root))
    BY <2>1, MadeDecrypts
  <2>3. /\ Failed("NoMatchingWrapper").status # "ok"
        /\ Opened(m.input.text, Described(m.input, c.footer.root)).status = "ok"
    BY DEF Failed, Opened
  <2> HIDE DEF m, c
  <2> QED BY <2>2, <2>3
<1>7. {key \in Keys : Decrypt(c, key).status = "ok"} = m.readers
  BY <1>4, <1>6
<1> QED BY <1>2, <1>3, <1>4, <1>5, <1>7 DEF CopyOf

(* An operation leaves the containers as they are or adds one.             *)
LEMMA StepAddsOne ==
  ASSUME Next
  PROVE  made' = made \/ \E x : made' = Append(made, x)
<1>1. \A result, input, readers :
        Return(result, input, readers) => made' = made \/ \E x : made' = Append(made, x)
  BY DEF Return
<1> QED BY <1>1 DEF Next, EncryptFile, Rewrap, Prepare, Commit

(* A step that adds a container adds a copy of a new file, or a copy of a  *)
(* file of which there is one already, with the text of that.              *)
LEMMA StepSharesOrSeals ==
  LifeInv /\ CopyInv /\ CopyInv' /\ OneInput' /\ [Next]_vars => [Sealed!Next]_Copies
<1> SUFFICES ASSUME LifeInv, CopyInv, CopyInv', OneInput', [Next]_vars PROVE [Sealed!Next]_Copies
  OBVIOUS
<1>1. CASE made' = made
  BY <1>1 DEF Copies, CopyOf
<1>2. CASE \E x : made' = Append(made, x)
  <2>1. PICK x : made' = Append(made, x)
    BY <1>2
  <2> DEFINE n == Len(made) + 1
             new == CopyOf(x)
  <2>2. /\ Len(made) \in Nat /\ DOMAIN made = 1 .. Len(made)
        /\ DOMAIN made' = 1 .. n
        /\ \A i \in 1 .. Len(made) : made'[i] = made[i]
        /\ made'[n] = x
    BY <2>1, Appended DEF LifeInv, MadeInv
  <2>3. Range(made') = Range(made) \cup {x}
    BY <2>2 DEF Range
  <2>4. Copies' = Copies \cup {new}
    BY <2>3 DEF Copies, CopyOf
  <2>5. n \in DOMAIN made'
    BY <2>2
  <2>6. /\ new = [file |-> FileUuid(x.container), text |-> x.input.text, readers |-> x.readers]
        /\ x.input \in Inputs
        /\ x.readers \in (SUBSET Keys) \ {{}}
        /\ FileUuid(x.container) \in 1 .. MaxContainers
    BY <2>2, <2>5 DEF CopyInv, CopyOf
  <2>7. Sealed!IsNewFile(new) \/ Sealed!IsShared(new)
    <3>1. CASE \E j \in DOMAIN made : FileUuid(made[j].container) = FileUuid(x.container)
      <4>1. PICK j \in DOMAIN made : FileUuid(made[j].container) = FileUuid(x.container)
        BY <3>1
      <4>2. j \in DOMAIN made' /\ made'[j] = made[j]
        BY <2>2
      <4>3. made[j].input = x.input
        BY <2>2, <2>5, <4>1, <4>2 DEF OneInput
      <4>4. /\ CopyOf(made[j]) = [file |-> FileUuid(made[j].container), text |-> made[j].input.text,
                                  readers |-> made[j].readers]
            /\ made[j].readers # {}
        BY DEF CopyInv
      <4>5. CopyOf(made[j]) \in Copies
        BY DEF Copies, Range
      <4>6. new = [CopyOf(made[j]) EXCEPT !.readers = new.readers] /\ CopyOf(made[j]).readers # {}
        BY <2>6, <4>1, <4>3, <4>4
      <4> HIDE DEF new
      <4> QED BY <4>5, <4>6 DEF Sealed!IsShared
    <3>2. CASE ~ \E j \in DOMAIN made : FileUuid(made[j].container) = FileUuid(x.container)
      <4>1. \A c \in Copies : \E j \in DOMAIN made : c.file = FileUuid(made[j].container)
        BY DEF Copies, CopyOf, Range
      <4>2. new.file = FileUuid(x.container)
        BY DEF CopyOf
      <4> HIDE DEF new
      <4> QED BY <3>2, <4>1, <4>2 DEF Sealed!IsNewFile
    <3> QED BY <3>1, <3>2
  <2>8. new \in [file : 1 .. MaxContainers, text : {input.text : input \in Inputs},
                readers : (SUBSET Keys) \ {{}}]
    BY <2>6
  <2> HIDE DEF new
  <2>9. CASE new \in Copies
    BY <2>4, <2>9
  <2>10. CASE new \notin Copies
    <3>1. new \in Copies' \ Copies
      BY <2>4, <2>10
    <3> QED BY <2>4, <2>7, <2>8, <3>1 DEF Sealed!Next
  <2> QED BY <2>9, <2>10
<1>3. made' = made \/ \E x : made' = Append(made, x)
  BY StepAddsOne DEF vars
<1> QED BY <1>1, <1>2, <1>3

(* Encrypting and rewrapping implement sealed files: whoever encrypts      *)
(* names the readers, a copy for others is derived from a copy that can be *)
(* read, and every copy holds the text that was encrypted.                 *)
THEOREM LifeImplementsSealedFile == ShortTexts /\ SizesAllowed => (Spec => ImplementsSealedFile)
<1> SUFFICES ASSUME ShortTexts, SizesAllowed PROVE Spec => ImplementsSealedFile
  OBVIOUS
<1>1. Init => Sealed!Init
  BY DEF Init, Sealed!Init, Copies, Range
<1>2. LifeInv => CopyInv
  BY CopiesAsMade
<1>3. LifeInv => OneInput
  BY DEF LifeInv
<1>4. LifeInv /\ CopyInv /\ CopyInv' /\ OneInput' /\ [Next]_vars => [Sealed!Next]_Copies
  BY StepSharesOrSeals
<1> QED BY <1>1, <1>2, <1>3, <1>4, LifeInvariant, PTL DEF Spec, ImplementsSealedFile, Sealed!Spec

=============================================================================
