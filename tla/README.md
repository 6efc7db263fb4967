# HydraLock: specification and proofs

TLA+ specifications of HydraLock (the Rust implementation under `src/`), model-checked
with TLC and, as far as the provers reach, proved with TLAPS for every value of the
constants. Paths below are relative to the repository.

HydraLock encrypts a file into a *container*: a fixed header, a policy section, a wraps
section (one entry per recipient, each holding the file master key, FMK, sealed for that
recipient), encrypted metadata, a payload cut into separately sealed chunks, and an
authenticated footer. A container can be *rewrapped*: given to other recipients without
encrypting the payload again.

## 1. Inventory

| part | state | operations | interacts with |
|---|---|---|---|
| `format/payload_writer.rs` | bytes written, chunk buffer, `(epoch, chunk)` position, sealed chunks | `new`, `write`, `finalize` | called by `ops::encrypt` and by streaming callers; seals with `crypto/payload_crypto.rs` |
| `format/payload_reader.rs` | `(epoch, chunk)` position, `finalized` | `read_chunk`, `seek_epoch` | called by `ops::decrypt` chunk by chunk |
| `format/payload.rs` | none (codec of the payload section) | `encode`, `parse` | between writer and reader |
| `ops/encrypt.rs`, `ops/decrypt.rs`, `ops/rewrap.rs`, `api/mod.rs` | none of their own: containers in, containers out; the callers keep the containers | `encrypt`, `decrypt`, `rewrap_container` (one step in `api`, two steps in `ops`) | everything below |
| `format/{header,policy,wraps,metadata_plaintext,footer}.rs` | none (codecs) | `encode`, `parse` | ops |
| `crypto/{kdf,aad,payload_crypto,metadata,manifest,verify,wrap}.rs` | none | derive, seal, open, hash | ops, writer, reader |
| `wrapper/{passargon2id,x25519,mlkem768_x25519}.rs` | stanzas | `seal`, `open` | ops |
| `crypto/shamir.rs`, `wrapper/threshold.rs` | shares, share stanzas | `split`, `combine`; `seal`, `open` | `try_unwrap_fmk` in `ops/decrypt.rs` |
| `cli/{encrypt,decrypt,rewrap_cmd}.rs` | the file system, shared by all commands running | check, read, compute, write temporary file, rename | ops, other processes |
| `cli/gen_recipient.rs`, `cli/keys.rs` | a pair of key files | two writes, in place; loads by the other commands | file system |
| `src/impl/python` | none | `decrypt`, a second reader written apart | containers the Rust program wrote |
| `cli/{inspect,verify,args,passphrase,keys,test_vectors_cmd}.rs` | none | read and print | ops |

What is hard here, and where:

* *Agreement without communication.* Writer and reader each count `(epoch, chunk)`; keys,
  nonces and associated data come from the count. One slot of disagreement and nothing opens.
  A chunk position used twice would use a key and nonce twice.
* *What is authenticated, and by what.* A chunk carries its position only in the associated
  data; the header is bound by a hash that depends on lengths only; the wraps section is bound
  by the footer. Reordering, truncating and splicing must fail for reasons spread over modules.
* *Computing before building.* A rewrap seals stanzas to a header that describes sections
  which do not exist yet, and in the two-step API to a container that may have changed since.
* *Numeric edges.* The last slot of an epoch, the last epoch, the empty plaintext, the
  arithmetic of GF(256), limits checked on one side only.
* *Two programs, one format.* The Python reader has its own scan, its own parsers and fewer
  tests. Where the two differ, one of them takes containers the other refuses.
* *Concurrency, failure, crash.* The library is sequential. The commands are processes that
  share a file system, may fail or be killed at any step, and read files (keys, containers)
  that another is writing or has replaced since.

`PROJECT.json` lists these hazards line by line with the properties that cover them.

## 2. Modules

```
module                                                               checked by, proved in
PayloadChunks --- PayloadWriter --+                                  MCPayloadStream, MCPayloadWriter,
              \-- PayloadReader --+-- PayloadStream                    PayloadStreamProofs
                                        |-- implements ByteStream
MetadataPlaintext --+
Stanzas ------------+-- Container ---+-- ContainerLifecycle          MCContainerLifecycle,
                        PythonDecrypt /     |                          ContainerLifecycleProofs
                                            |-- implements SealedFile
Sections --- PythonReader --- ContainerBytes                         MCContainerBytes, ContainerBytesProofs
Shamir ---+-- FieldArithmetic                                        MCFieldArithmetic, ShamirProofs,
          |                                                            FieldArithmeticProofs
          \-- ThresholdShares                                        MCThresholdShares, ThresholdSharesProofs
CommandFiles                                                         MCCommandFiles, CommandFilesProofs
```

### The payload pipeline

* `PayloadChunks`: chunks, chunk entries, the ideal cipher (`SealChunk`, `Opens`), the roll
  of the chunk counter into the next epoch, and what the section codec accepts. Plaintext
  bytes are numbered; a chunk's contents are an interval of them.
* `PayloadWriter`: `WriteCall` enters `write`; each turn of its loop is one `WriteStep`,
  which fills the buffer and, when the chunk closes, seals it (`FinalizeChunk`); `WriteReturn`
  leaves a call that brought too much; `Finalize` and `FinalizeIncomplete` are `finalize`.
  `chunk_buffer` is the interval `bufStart .. written - 1`.
* `PayloadReader`: `ReadChunk` is the disjunction of the ways `read_chunk` ends, in the order
  of its tests; `SeekEpoch` is `seek_epoch`.
* `PayloadStream` joins them by a section. The reader is handed anything: any chunk of the
  section or of another container, damaged, repeated, with either flag.
* `ByteStream` is the promise: contiguous pieces from where one starts, and completion
  exactly at the end. `PayloadStream` implements it with `start` mapped to the first byte of
  the epoch last sought.

### Containers

* `MetadataPlaintext` is `format/metadata_plaintext.rs`: the ten CBOR items, what `parse`
  wants of each, and the encoded length, which enters the header.
* `Stanzas` is `wrapper/{passargon2id,x25519,mlkem768_x25519}.rs`: a stanza is a sequence of
  cells, one for each field, and keys, agreed secrets and derived keys are terms of what they
  come from. A decapsulation never fails, as in ML-KEM; it gives a secret nobody else has.
* `Container` holds the sections as records, with lengths where the code computes with them,
  and ciphertexts as terms of what they bind. `Encrypt`, `Decrypt` and `RewrapContainer`
  are operators with the checks of the functions in the functions' order, and name the error
  each check gives.
* `PythonDecrypt` is `decrypt` of `impl/python` on the same containers.
* `ContainerLifecycle` lets callers make containers and keep them all. `Rewrap` is
  `api::rewrap_container`; `Prepare` and `Commit` are the two steps of `ops/rewrap.rs`, with
  other operations between them and not necessarily on the same container.
* `SealedFile` is the promise: a text is sealed for readers, and only a reader can pass a
  copy on; the text never changes.

### The bytes of a container

* `Sections` has the codecs: encode and parse of every section but the metadata, one cell
  for each numeric field, and how the sections are found in a container: by the lengths of
  the header, and by `ScanPayloadEnd`, which follows the chunk headers to the footer. It
  takes no keys; `Container` has what keys and tags add, and no layout. The header has
  cells for format version and suite: `FixedHeader::parse` takes any, and so do `verify` and
  `rewrap`, which copies them (`HeaderParses`, `StructureOK`); `decrypt` tests them itself
  (`Supported`).
* `PythonReader` has the tests of the Python parsers and its scan, over the same cells. It
  unpacks format version and suite and compares neither.
* `ContainerBytes` writes containers (`Encrypt`, `Rewrap`), then damages them
  (`ChangeCell`, `AddCell`). Losing the end is not an action: the properties quantify over
  every beginning of the bytes.

### Threshold recipients

* `Shamir` computes GF(256), `split` and `combine` as the code does, for one byte of the
  secret (the code handles the 32 bytes independently). A byte is the set of its bits that
  are one (`U8` converts the ids, which are numbers), so `^` is symmetric difference and a
  shift moves the bits; the loops are recursive functions, which the provers can handle.
* `FieldArithmetic` compares that arithmetic with polynomials over GF(2).
* `ThresholdShares` makes splits, puts any of their stanzas into a container, in any order
  and condition, and opens it as `try_unwrap_fmk` does.

### Commands and files

* `CommandFiles` is the file system under `encrypt`, `decrypt`, `rewrap` and
  `gen-recipient`: paths name inodes, a process keeps writing to the inode it opened, a file
  has two halves so it can be half written. One action per system call that matters, plus
  failing and being killed. `seen` and `used` remember what a command read as its input and
  from its key file; `rewrap` loads the recipient's key twice (`LoadKey`, `ReloadKey`).
  `WritePublic` and `WriteSecret` are the two unprotected writes of `gen-recipient`.
  A command has one key file or none (a passphrase); a rewrap's is the new recipient's.

`Recursion` has the arguments by a least counterexample, and the definedness of loops and
searches, that the proofs use in place of induction.

Every module with variants of a definition (`RollsOneLate` beside `EpochRolls`, and so on)
has them so that each property can be shown to fail when the code is wrong in that way.

## 3. Runs

All with deadlock checking off: each of these systems may stop (a finished writer, a bounded
number of containers, ended commands).

| run | shows | bounds, and why they are enough |
|---|---|---|
| `PayloadStream` | chunks tile the plaintext, positions are unique, the final mark is at the end, short chunks only end an epoch, calls return; contiguous delivery, completion at the end only, overflow only when full, refinement of `ByteStream` | 9 bytes, chunks of 2, epochs of 2, calls of 1 to 3 bytes (smaller than, equal to and across a chunk), a partial last chunk, seeks to any epoch; 3 epochs, which some ways of writing leave partly unused and the finest fills to the last slot, so that the writer's counter wraps and the reader's overflows |
| `PayloadWriterPieces` (violated) | finding 1 | 11 bytes, chunks of 3, epochs of 2, calls of 1 to 4 bytes |
| `PayloadStreamRead` | a payload written in one call or in whole chunks is stored and read to its end | 17 bytes: the reading crosses four epochs and ends in a partial chunk |
| `PayloadStreamSeek` (violated) | finding 4 | as `PayloadStream` |
| `ContainerLifecycle` | each container opens for its readers and nobody else, with the text and all the metadata that was given (`ReadersExactly`, which states the exact result of every key on every container); prepared recipients fit any container of their file and no other file; a stanza with fields of another gives no key (`FieldsBound`); the Python program opens what the Rust one opens (`PythonOpensAlike`) | 3 containers, 4 keys of three types, one of them a public key that is none; lists that are empty, clash in a label, differ in length or exceed it; valid and invalid policies; inputs with all options, with none and over the size limit, and an empty one. Three containers are the least in which a file is rewrapped between `Prepare` and `Commit` |
| `ContainerRefines` | refinement of `SealedFile`; mixtures of two containers are rejected, for all 64 choices of sections and all rearrangements of wrapper entries (`MixturesRejected`); rewrapping a patched container does not make it open (`RewrapHealsNothing`) | 3 containers of two texts, among them a file and its rewraps with equal headers |
| `ContainerLongName` (violated) | finding 2 | 2 containers |
| `ContainerBytes` | what is written is read back; only exact encodings are read; a missing end is noticed; the scan and the parser agree; no slice outside the bytes; the Python reader takes the same containers and, more than those, only the kinds `IsLax` names | one or two chunks, one to four recipients with a count that holds 0 to 2, so that two of the lists overflow it; two damaged cells (0, 1, or off by one), which reach a changed `header_len` with a matching offset, and every beginning |
| `FieldArithmetic` | `gf_mul` is multiplication modulo 0x11b and `gf_inv` its inverse | all 256 bytes against the eight single bits and 0, 83, 255; multiplication is additive in each operand, so single bits are enough for it |
| `ThresholdShares` | any t shares open; what opens is what was sealed; fewer than t shares hide (`FewerSharesHide` gives the coefficients, `Alibi`, with which another secret has the same shares, and which determine the original ones) | two splits (2 of 3 or 3 of 3; 3 of 2 is refused) for equal or different containers, up to three stanzas of either in any order and repetition, one of them harmed in four ways, opened under either context |
| `Commands` | outputs whole; success means one's own result; nothing replaced unforced; a file changed in place is the one that was read; key files stay pairs; no half-written key is used | every pair of six jobs, in turn and side by side, on outputs with one stem and with two, with and without a key pair, with a temporary file left over from before |
| `CommandsSharedTmp` (violated) | finding 3 | two commands |

Sizes (distinct states): `PayloadStream` 313, `PayloadStreamRead` 142,
`ContainerLifecycle` 15729 and `ContainerRefines` 7171 (each with thousands of evaluations
of the operations per state), `ContainerBytes` 32197, `FieldArithmetic` 3073,
`ThresholdShares` 607177, `Commands` 27058. All of them are exhaustive.

What the properties of files leave out, because the code gives no protection: two commands
that use one temporary file at the same time (finding 3), files that are themselves named
like a temporary one, and key pairs whose generation was interrupted or overlapped another.
Each property says so in its premise (`TmpsApart`, `Kept`, `PairAlone`). So the hazards of
two commands on one output are not covered by `NeverReplacesUnforced` and
`ReplacesWhatItRead`. The hazards in `PROJECT.json` that no property covers say why.

Fairness. `PayloadWriter` assumes weak fairness of the loop of `write` only: sequential code
inside a call runs on. `PayloadStream` assumes that and the same of `ReadNext`, because `ops::decrypt` loops
over the entries. Callers owe nothing else: they need not call again, seal, or finalize.
The other modules assume none and state safety only.

Idealisations. Ciphers and keyed hashes are injective terms: they open exactly under what
they were sealed with; a key is derived from exactly the terms that enter its derivation. Fresh random
values are distinct.

## 4. Proofs

Theorems hold for every value of the constants that satisfies the assumptions of the modules
(`SizesAssumption`, `CallsAssumption`, `PathAssumption`, `CallersAssumption` and so on, each
what a constructor or a type of the code guarantees) and, where one is named, a premise.
Premises state what the code needs from its callers or its environment and does not test;
each is true of the instances TLC checks, and each is needed.

### The writer (`PayloadStreamProofs`, first part)

| theorem | property | premise |
|---|---|---|
| `WriterTyped` | `WriterTypeOK` | |
| `WriterTiles` | `TilesPlaintext` | |
| `WriterMarksTheEnd` | `FinalMarksTheEnd` | |
| `WriterShortChunks` | `ShortOnlyAtEpochEnd` | |
| `WriterPositionsUnique` | `UniquePositions` | `EnoughEpochs` |

The invariants build on each other. `TypeInv` adds to the types that the buffer holds less
than a chunk and that it is empty once the plaintext is complete (`BufferInv`); the second
part is why `finalize` has nothing left to seal, and every other proof needs it. `SealedInv`
adds the three properties of the chunks, which must be proved together: that a chunk ends
where the buffer begins is what makes its mark, set from `written`, a statement about its
end. `UniqueInv` adds `PositionInv`: positions increase in the order (epoch, chunk), the
writer's own comes after all of them, and each finished epoch used up at least
`(EpochSize - 1) * ChunkSize + 1` bytes, the fewest that can fill it when writes cut its
last chunk short. Hence the epoch counter cannot wrap while
`TotalSize <= EpochLimit * EpochBytes` (`EnoughEpochs`), and without a wrap positions are
unique. With the code's 2^32 epochs and default sizes the bound is about 2^56 bytes; with chunks and
epochs of one it is 2^32.

### The pipeline (`PayloadStreamProofs`, second part)

| theorem | property | premise |
|---|---|---|
| `StreamTyped` | `TypeOK` | |
| `StreamCompletes` | `FinalizedIffAtEnd` | |
| `StreamDeliversInOrder` | `DeliversInOrder` | `EnoughEpochs` |
| `StreamOverflowsWhenFull` | `OverflowOnlyWhenFull` | `EnoughEpochs` |
| `StreamNeverRejected` | `NeverRejected` | `WholeCalls` |
| `StreamImplements` | `ImplementsByteStream` | `EnoughEpochs` |

Writer and reader meet in `SlotInv` (of the writer): the i-th chunk was sealed at slot i - 1,
counting all slots of all epochs through. A chunk that opens carries the reader's own
position, so it is the chunk of that slot, and `PositionKnown` says which slot that is: the one
after the chunk returned last, or the first of the epoch that was sought. It is not claimed
of a reader that has overflowed, which keeps a position no chunk has. `WholeCalls` says that
callers pass multiples of the chunk size or the rest at once, as `ops::encrypt` does; without
it finding 1 applies.

### Commands and files (`CommandFilesProofs`)

| theorem | property | premise |
|---|---|---|
| `CommandsTyped` | `TypeOK` | |
| `CommandsKeepFilesWhole` | `FilesAreWhole` | |
| `CommandsChangeOnlyBySuccess` | `ChangesOnlyBySuccess` | |
| `CommandsSucceedWithOwnResult` | `ApartSuccessIsOwnResult` | |
| `CommandsReplaceNothingUnforced` | `NeverReplacesUnforced` | |
| `CommandsReplaceWhatTheyRead` | `ReplacesWhatItRead` | |
| `CommandsUseWholeKeys` | `WholeKeysUsed` | `KeysAreKeyFiles` |
| `CommandsMatchKeyPairs` | `KeyPairsMatch` | `PairsTogether` |

for any number of commands, paths and plans. `InodeInv` says who holds what: an inode has one
name at most, a key file keeps its own, and a command's inode is in the directory only after it was made.
`TmpInv` then follows a command from opening its temporary file to the rename: while no other
uses it, the handle still is the file of that name, and what was written is in it. That is
why the rename puts a whole file in place, and why every other path is untouched. `OutputInv`
carries what `check` and `read` found to the moment of the rename. `GenerationInv` is the same
for the two files of `gen-recipient`, which have no temporary one. `KeysAreKeyFiles`: keys
that commands load are among those files; of another file nothing is said. `PairsTogether`:
a public key that is there at the start has its secret key beside it.

### Containers (`ContainerLifecycleProofs`)

| theorem | property | premise |
|---|---|---|
| `LifeTyped` | `TypeOK` | |
| `LifeReadersExactly` | `ReadersExactly` | `ShortTexts` |
| `LifePreparedFits` | `PreparedFitsItsFile` | `ShortTexts` |
| `LifeMixturesRejected` | `MixturesRejected` | |
| `LifeRewrapHealsNothing` | `RewrapHealsNothing` | |
| `LifeFieldsBound` | `FieldsBound` | |
| `LifePythonAlike` | `PythonOpensAlike` | `ShortTexts` |
| `LifeImplementsSealedFile` | `ImplementsSealedFile` | `ShortTexts`, `SizesAllowed` |

The first part is about the operators of `Container`, without states: what a stanza, a wrapper and a
section give to a key (`StanzaOpens`, `WrapperGives`, `SectionGives`), that metadata read back
(`MetadataRead`), that the header computed from `EntrySizes` before anything is sealed fits
the sections (`SizesFitWrappers`, `RootKeepsLength`), and then that `Encrypt` and
`RewrapContainer` give a container that is `WellSealed`: every section made under one key and
one `file_uuid`, for one input and one list of recipients, bound to its own header.
`SealedDecrypts` says what each key gets from such a container, `RewrapRefusesOthers` that
a rewrap with recipients of another file fails.

The invariant `LifeInv` says that every container made is `WellSealed`, that containers with
one `file_uuid` are about one input (`OneInput`: rewraps pass the input on, fresh draws are
larger than any used), and that prepared recipients are sealed for
the header any container of their file gets when it is rewrapped for them, which depends on
the recipients and the metadata's length only (`PreparedInv`). This is what lets the second
step take another container of the file than the first. It was checked with TLC on the
instance of `ContainerLifecycle` before it was proved (`LifeInvariant`).

`MixturesRejected` is the footer: a mixture that opens has a tag made under the key its
wrappers give, and the tag contains all other sections, so that they are those of the container
the tag was made for; the manifest root is compared with the payload. `FieldsBound` takes each
type of stanza and each set of its fields: if the key comes out, the fields that enter its
derivation are those of one seal, and those that do not are in the associated data.

`ShortTexts` (names and types of up to 255 bytes) is what finding 2 is about. `SizesAllowed`:
no input is larger than what `decrypt` takes; a larger one has no readers, and
`SealedFile` wants each copy to have one.

### The bytes of a container (`ContainerBytesProofs`)

| theorem | property | premise |
|---|---|---|
| `ContainerBytesTypes` | `TypeOK` | |
| `ContainerReadsBack` | `WrittenReadsBack` | |
| `ContainerAcceptedIsEncoding` | `AcceptedIsEncoding` | |
| `ContainerCutIsNoticed` | `CutIsNoticed` | |
| `ContainerScanMeetsParser` | `ScanMeetsParser` | |
| `ContainerSlicesInside` | `RewrapSlicesInside` | |
| `ContainerPythonReadsAlike` | `PythonReadsAlike` | |

for containers of every length, every number of recipients and chunks, every width of the
count and any amount of damage (`MaxFaults`, `MaxCell` are arbitrary). The assumptions are
`WidthsAssumption` (widths are not 0), `BoundsAssumption`, and `ContentsAssumption`, which types
what callers pass: numbers, roots of the length of a hash, identifiers that begin with a
`file_uuid`. That identifiers are not repeated, policies possible and chunks of the sizes the
encoder wants is not assumed; the encoders test it, and the guards of `Encrypt` and `Rewrap`
are those tests.

The codecs are loops over data, and the library's induction theorems cannot be used here.
`Recursion` does the same with a least counterexample (`Upwards`, `Forwards`, `FromTheEnd`), and
shows that a loop that counts up (`LoopDefined`) and a search that moves on inside bounds
(`SearchDefined`) define what they compute. From that the first part proves, of every
sequence of cells:

* what a section's entries are: they begin one where the other ends, increase and end once
  (`StartsIncrease`, `OneEnd`), so a payload is read in one way at most (`OneChunkList`);
* reading, then writing: `WrapsAreEncoded`, `ChunksAreEncoded`, `PolicyIsEncoded`, `FooterIs`:
  what a parser accepts is the encoding of what it returns;
* writing, then reading: every part of what `FlattenSeq` puts together has its place
  (`PartsPlaced`), from which `WrapsWritten`, `PayloadWritten`, `FooterWritten`. With more
  entries than the count can tell the counted ones end before the section does, so that
  `WrapsWritten` gives a refusal, not a shorter list; and the length computed before anything
  is sealed is the length written (`WrapsLenIs`);
* the scan: where the parser accepts it ends at the same place (`ScanOfParsed`), and an end it
  finds in a beginning of a container is the end it finds in the whole (`ScanOfPrefix`).

Five of the properties need no more of the state than that its cells are numbers: they follow
from these lemmas for every sequence, damaged in whatever way (`ReadIsEncoding`,
`NoBeginning`, `ReadersAlike`). `TypeOK` and `WrittenReadsBack` need the inductive invariant
`IInv`: as long as there was no damage, the bytes are the sections that were meant, put one
after the other under a header that tells their lengths (`IsWritten`). `Assembled` is the core:
sections put together like this are found where the reader looks. A rewrap keeps the invariant
because it slices metadata, payload and root by the old header and the scan and finds exactly
what was meant (`RewrapWrites`), also when the old wraps section is one no parser takes. TLC
checked `IInv` on the instance of the run before it was proved.

### Shamir and threshold recipients (`ShamirProofs`, `FieldArithmeticProofs`, `ThresholdSharesProofs`)

| theorem | property | premise |
|---|---|---|
| `FieldIsGF256` | `ArithmeticIsOfTheField` | |
| `InverseMul` | (`gf_inv` is the inverse, for every byte but 0) | |
| `EvaluateInterpolated` | (a polynomial with t coefficients is interpolated from any t or more points) | |
| `CombineGives` | (`combine` gives the first coefficient of the polynomial its shares lie on) | |
| `QuorumsOpen` | `QuorumOpens` | |
| `OnlySealedOpens` | `OpenedIsSealed` | |
| `FewerSharesAlwaysHide` | `FewerSharesHide` | |

for every scheme with 1 <= t <= n <= 255, all secrets and random coefficients, any number of
splits for any number of containers, and any number of stanzas, repeated and harmed in any way. The one
assumption, `DataAssumption`, types what callers pass and lists the kinds of harm.

`ShamirProofs` goes up from the bits:

* *The field.* `DoubledBits` and `HalvedBits` say what a round of `gf_mul` does to each bit, and
  `MulIs` unrolls the eight rounds: the product is the sum of those doublings of the left
  operand whose bit is one in the right. From this form follow the laws (`MulAddsRight`,
  `MulAssoc`, `MulComm`, `MulOne`): multiplication commutes with doubling, and what holds of
  0 and 1 and is kept by doubling and adding holds of every byte (`Generated`). For `gf_inv`,
  squaring is additive, so that it is known from the squares of the eight powers of x
  (`SquareBits`), and squaring eight times gives every byte back (`SquaredEightTimes`), that
  is, a^256 = a. As 0 and 1 are the only bytes that are their own squares (`Idempotents`),
  a^255 is 1 unless a is 0, which is `InverseMul`.
* *Interpolation.* Interpolating f is a statement about partial fractions: f(v) over the
  product of all `v + xs[i]` is the sum of f(xs[i]) over `v + xs[i]` times the weight of the
  point (`Interpolated`). `TopGrows` says how the sum changes when a point is added,
  `OneInterpolated` and `ConstantInterpolated` start from constants, and `NextInterpolated`
  goes from f(x) to x f(x) + c, which is a turn of Horner's loop in `split` and needs one
  point more. Hence `EvaluateInterpolated`. `InterpolateGives` is the case v = 0, written as
  `combine` computes it: numerator and denominator as products that leave one factor out.
  `CombineGives` follows, the ids of shares being different and none of them 0.
* *Hiding.* `Alibi` adds to the coefficients those of (s' + s)(1 + x/x1)(1 + x/x2)..., with
  s' the other secret and x1, x2, ... the points known; `MasksVanish` shows that this is 0 at
  the known points and has degree t - 1 at most, and `AlibiHolds` that secret and shares come
  out as claimed, and `AlibiReturns` that the exchange of the two secrets undoes itself. So
  every secret has equally many coefficients that give the known shares; that the RNG draws
  all of them with equal probability is outside the model.

`FieldArithmeticProofs` carries the division of polynomials along with the rounds
(`DivisionStep`): each doubling shifts quotient and remainder, and the 0x1b is the modulus
subtracted once. `PolyMul` counts pairs of exponents modulo 2, so its additivity is a fact
about cardinalities (`OddAdds`).

`ThresholdSharesProofs` has the invariant `IInv`: splits are as `seal` makes them and what is
presented comes from them (`Typed`), nothing is sealed after something is presented, nothing
is opened before (`Phases`), and the two properties of results. TLC checked `Typed` and
`Phases` on the instance of the run first. `CollectedIs` says that the stanzas `try_unwrap_fmk`
collects are those presented that parse, each once; `UnwrapsWhole` that one that unwraps, in
a scheme all share, was whole and made for this container, because id, threshold and count are in its
associated data; so `combine` gets different shares of one polynomial (`CollectedShares`) or
refuses (`CombineRefuses`).

### Only model-checked

* `WriteCallsReturn` and `StoredIsRead` are liveness under fairness, which TLAPS 1.4 does not
  prove.

## 5. Where code and documents disagree

With a run that shows it:

1. `payload_writer.rs:133`: a plaintext written in several calls can leave a short chunk at
   the end of an epoch, which `PayloadSection::encode` refuses (`payload.rs:324`), although
   the entries are called "ready to write to container" (`:44`) and `write` "Can be called
   multiple times" (`:108`). `ops::encrypt` writes in one call and is not affected
   (`NeverRejected`).
2. `metadata_plaintext.rs:90`: names over 255 bytes are encoded but not parsed.
3. `cli/encrypt.rs:116`: outputs with one stem share a temporary file.
4. `payload_reader.rs:167`: `seek_epoch` resets `finalized`, and reading goes on after it; its
   comment (`:162`) says that it does not and that "subsequent `read_chunk` calls will still
   fail". `SeekEpoch` follows the code, and with it `FinalizedIffAtEnd` and
   `ImplementsByteStream`.

Seen in the source while modelling, without a run:

* `payload_writer.rs:180`: the epoch counter is incremented unchecked, while the reader
  checks (`payload_reader.rs:145`). Built without overflow checks it wraps, and positions,
  that is keys and nonces, come back, although each chunk is said to have "its unique
  `(k_epoch, nonce)` pair" (`README.md:141`; `:508`). That takes 2^32 epochs: 4 GiB with
  chunks and epochs of one, 2^56 bytes with the defaults. The model's counter wraps as well
  (`NextEpoch`); the run `PayloadStream` stops at the plaintext that fills it, and the
  theorem `WriterPositionsUnique` needs its premise `EnoughEpochs`.
* `cli/encrypt.rs:105`: the output's existence is tested at the start of the command and
  whatever is there at its end is replaced, without the `--force` the test asks for.
  `NeverReplacesUnforced` is stated for commands that do not overlap on a stem.
* `ops/rewrap.rs:249`: rewrap re-encrypts the metadata, which it must, since the metadata is
  bound to the header (`ReadersExactly` fails without it); the documentation
  (`api/mod.rs:184`, `ops/rewrap.rs:11`) says its ciphertext is preserved verbatim.
* `format/wraps.rs:175`: the wrapper count is cut to 16 bits. 65536 recipients are refused by
  the policy (its count is 0); 65537 are written, and the container cannot be read. It is
  never read as one with fewer recipients (`WrittenReadsBack`).
* `ops/rewrap.rs:369`: `header_len` is kept and the payload offset computed from 70, so the
  rewrap of a container with a larger `header_len` does not parse. `decrypt` accepts such
  containers; no code here writes them.
* `ops/decrypt.rs:235`: only the first `wrapper_id` is tested for its length and none for its
  `file_uuid` prefix, which `spec/hydralock-v1.md:446` demands of all.
* `ops/encrypt.rs:275`: empty plaintexts are guarded against as if they were accepted;
  `PayloadWriter::new` refuses them.
* `cli/encrypt.rs:117`: an unrelated file named `<stem>.tmp` is overwritten without
  `--force`. The properties of files leave such paths out.
* `cli/gen_recipient.rs:28`: `with_extension` replaces the last part of a prefix with a dot
  in it, so the prefix `alice.work` gives `alice.pub`, where `cli/args.rs` says
  `<prefix>.pub`; and an existing pair is overwritten without asking, the secret key last.
* `cli/rewrap_cmd.rs:162`: the second load of the recipient's key is unwrapped, so a key file
  that vanishes during the passphrase prompt makes the command panic, not report an error.
  Nothing has been written by then (`ChangesOnlyBySuccess`).
* `ops/rewrap.rs:216`: "Ensures we are not rewrapping a tampered container" holds for what
  the footer tag covers. A footer with a wrong manifest root is rewrapped; the new container
  does not open either (`RewrapHealsNothing`).
* `ops/encrypt.rs`, `ops/decrypt.rs:196`: decrypt refuses what declares more than 64 GiB,
  encrypt does not. Such a container cannot be read (`ReadersExactly` names the case), except
  by the Python program.
* The repository's `README.md:229` has a policy's threshold and total as "currently always
  1". `encrypt` writes 1 of 1; `rewrap` writes what its caller passes (2 of 2, say), and
  `decrypt` parses the policy and ignores it, so that one key is enough whatever it says.
  `ReadersExactly` follows the code: a container with threshold 2 opens for each reader alone.
* `README.md:212` wants the header's `flags` to be 0; no reader looks at them, nor has the
  model a cell for them.
* `impl/python/hydralock/ops/decrypt.py:76`: the Python reader does not look at format version
  and suite, `header_len`, the exact length of the policy section, the numbers in the policy,
  bytes after the last wrapper entry, the length of the manifest root and the size of chunks
  before the last (`IsLax`). That it takes any format version is against
  `spec/hydralock-v1.md:36`, which demands the test of every implementation; the Rust
  `decrypt` has it (`ops/decrypt.rs:113`), `cli/verify.rs` and `ops/rewrap.rs` have not.
  Besides, the Python reader compares no manifest root with the payload and has no size limit
  (`PythonOpensAlike`; the sections of `Container` have no format version or suite, so it says
  nothing of foreign ones).
* `wrapper/threshold.rs:23` gives a share stanza 76 bytes; it has 65.

## 6. Not modelled, and why

* The ciphers, hashes and key agreements themselves, and zeroising of memory: cryptography
  and hygiene, without protocol state.
* Prompts, argument parsing, `inspect`, `verify` and the printing of test vectors: they read
  and print. The structural part of `verify` is the section parsers.
* Base64 and the key lengths of PEM files: `CommandFiles` has of them that both ends must be
  there.
* `format/metadata.rs`: not used by the operations.
* Threshold wrappers inside whole containers: `ThresholdShares` opens stanzas next to each
  other as `try_unwrap_fmk` does, without header, policy and footer around them. No operation
  here writes them into a container.
* The byte order and, but for the wrapper count and the header's lengths, the widths of
  fields; lengths beyond 32 and 64 bits, which need containers no memory holds.
* Non-canonical CBOR: the metadata's items are abstract, so a container whose metadata was
  encoded by another program in a longer form is not among the inputs. Rewrap keeps
  `metadata_len` (`ops/rewrap.rs:369`) while it encodes the metadata again, so it would write
  a header that does not fit; nothing in this repository writes such an encoding.
* Errors of a cipher or random generator that cannot fail; fuzz targets and tests; the
  formal sketches under `spec/`, which are documents.

## 7. Plan

Done: the payload pipeline, containers and rewrapping with their metadata and stanzas, their
bytes, the second reader, threshold shares, the commands' files and key files; and the proofs
of section 4.

Next: lemmas on the metadata codec (`MetadataPlaintext`: what is encoded is parsed, for all
ten items together, is proved as far as `MetadataRead` needs it) and on `Stanzas` beyond the
three types of fields `FieldsBound` takes; and threshold wrappers inside whole containers, once
an operation writes them.
