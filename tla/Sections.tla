------------------------------ MODULE Sections ------------------------------
(***************************************************************************)
(* The byte layout of a container: the codecs of format/header.rs,         *)
(* policy.rs, wraps.rs, payload.rs and footer.rs, the scan for the end of  *)
(* the payload, and how encrypt, decrypt, rewrap and verify lay sections   *)
(* out and find them again.                                                *)
(*                                                                         *)
(* A container is a sequence of cells.  A numeric field takes one cell,    *)
(* whatever its width.  The bytes a section's parser accepts one value of  *)
(* (magic, version, reserved) share its first cell; a chunk's reserved     *)
(* bytes, and the fields no reader looks at, have none.  An identifier,    *)
(* stanza, ciphertext, tag or root is a sequence of cells.  Offsets count  *)
(* from 0.                                                                 *)
(***************************************************************************)
EXTENDS Integers, Sequences, SequencesExt

CONSTANTS
  CountLimit,   \* 2^16 in the code: what the wrapper count is reduced by
  UuidLen,      \* 16 in the code
  HashLen       \* 32 in the code: manifest root and footer tag

ASSUME WidthsAssumption ==
  /\ CountLimit \in Nat \ {0}
  /\ UuidLen \in Nat \ {0}
  /\ HashLen \in Nat \ {0}

(* The accepted value of the header's first cell, and of the others'.      *)
Magic   == 1
Version == 1

(* Header: magic, format_version_major and _minor, suite_id, header_len,   *)
(* policy_len, wraps_len, metadata_len, payload_offset.  Policy: version,  *)
(* threshold, total, count.  Wraps: version, count; per entry              *)
(* wrapper_id_len, stanza_len.  Payload: version, chunk_size, tag_size;    *)
(* per chunk ciphertext_len, flags.  Footer: version, manifest_root_len,   *)
(* auth_tag_len.                                                           *)
FixedHeaderCells   == 9
PolicyCells        == 4
WrapsHeaderCells   == 2
EntryHeaderCells   == 2
PayloadHeaderCells == 3
ChunkHeaderCells   == 2
FooterHeaderCells  == 3

(* bytes[from..to].                                                        *)
Slice(bytes, from, to) == SubSeq(bytes, from + 1, to)

(* A position no slice ends at.                                            *)
Beyond(bytes) == Len(bytes) + 1

-----------------------------------------------------------------------------
(* Writing.                                                                *)

EncodeHeader(h) ==
  <<Magic, h.major, h.minor, h.suite,
    h.headerLen, h.policyLen, h.wrapsLen, h.metadataLen, h.payloadOffset>>

(* FixedHeader::validate_layout.  (The variant forgets the lower bound.)   *)
OffsetAddsUp(h) ==
  h.payloadOffset = h.headerLen + h.policyLen + h.wrapsLen + h.metadataLen
LayoutValid(h)  == h.headerLen >= FixedHeaderCells /\ OffsetAddsUp(h)

(* What PolicySection::encode and parse demand.                            *)
PolicyAdmits(p) ==
  /\ p.total # 0
  /\ p.threshold # 0 /\ p.threshold <= p.total
  /\ p.count >= p.total

EncodePolicy(p) == <<Version, p.threshold, p.total, p.count>>

(* What WrapsSection::encode demands: identifiers that are not empty and   *)
(* not repeated -- and no bound on their number.                           *)
WrapsEncodable(wraps) ==
  /\ \A i \in DOMAIN wraps : wraps[i].id # <<>>
  /\ \A i, j \in DOMAIN wraps : wraps[i].id = wraps[j].id => i = j

(* wrappers.len() as u16.  (The variant is a count of full width.)         *)
WholeCount(wraps) == Len(wraps)
Count(wraps)      == Len(wraps) % CountLimit

EncodeWraps(wraps) ==
  <<Version, Count(wraps)>>
    \o FlattenSeq([i \in DOMAIN wraps |->
         <<Len(wraps[i].id), Len(wraps[i].stanza)>> \o wraps[i].id \o wraps[i].stanza])

(* compute_wraps_section_len, before any entry is sealed.  (The variant    *)
(* forgets the header of the section.)                                     *)
EntriesLen(wraps) ==
  LET len[n \in 0 .. Len(wraps)] ==
        IF n = 0 THEN 0
        ELSE len[n - 1] + EntryHeaderCells + Len(wraps[n].id) + Len(wraps[n].stanza)
  IN  len[Len(wraps)]
WrapsLen(wraps)   == WrapsHeaderCells + EntriesLen(wraps)

(* The chunks PayloadSection::encode accepts, and what it makes of them.   *)
IsFinal(flags) == flags % 2 = 1

PayloadEncodable(p) ==
  /\ p.chunkSize # 0 /\ p.tagSize # 0
  /\ p.chunks # <<>>
  /\ \A k \in DOMAIN p.chunks :
       /\ IsFinal(p.chunks[k].flags) <=> k = Len(p.chunks)
       /\ p.chunks[k].ciphertext # <<>>
       /\ Len(p.chunks[k].tag) = p.tagSize
       /\ k # Len(p.chunks) => Len(p.chunks[k].ciphertext) = p.chunkSize

EncodePayload(p) ==
  <<Version, p.chunkSize, p.tagSize>>
    \o FlattenSeq([i \in DOMAIN p.chunks |->
         <<Len(p.chunks[i].ciphertext), p.chunks[i].flags>>
           \o p.chunks[i].ciphertext \o p.chunks[i].tag])

EncodeFooter(f) == <<Version, Len(f.root), Len(f.tag)>> \o f.root \o f.tag

(* The sections one after the other; "gap" lies between metadata and       *)
(* payload when header_len is more than the fixed header.                  *)
EncodeAll(s) ==
  EncodeHeader(s.header) \o EncodePolicy(s.policy) \o EncodeWraps(s.wraps)
    \o s.metadata \o s.gap \o EncodePayload(s.payload) \o EncodeFooter(s.footer)

-----------------------------------------------------------------------------
(* Reading.  X accepts a slice; XOf is what it then returns.               *)

HeaderOf(bytes) ==
  [major |-> bytes[2], minor |-> bytes[3], suite |-> bytes[4],
   headerLen |-> bytes[5], policyLen |-> bytes[6], wrapsLen |-> bytes[7],
   metadataLen |-> bytes[8], payloadOffset |-> bytes[9]]

(* FixedHeader::parse, on the first bytes of a container.  It takes any    *)
(* format version and suite.                                               *)
HeaderParses(bytes) ==
  /\ Len(bytes) >= FixedHeaderCells
  /\ bytes[1] = Magic
  /\ LayoutValid(HeaderOf(bytes))

(* What encrypt writes, and decrypt demands.                               *)
FormatMajor == 1
FormatMinor == 0
SuiteId     == 1

(* "Reject unknown suite_id and format versions": decrypt does, verify and *)
(* rewrap do not.                                                          *)
Supported(h) == h.suite = SuiteId /\ h.major = FormatMajor /\ h.minor = FormatMinor

PolicyOf(slice) == [threshold |-> slice[2], total |-> slice[3], count |-> slice[4]]

PolicyParses(slice) ==
  /\ Len(slice) = PolicyCells
  /\ slice[1] = Version
  /\ PolicyAdmits(PolicyOf(slice))

(* The end of the wraps entry at an offset, or Beyond.                     *)
EntryEnd(slice, o) ==
  IF o + EntryHeaderCells > Len(slice) THEN Beyond(slice)
  ELSE LET end == o + EntryHeaderCells + slice[o + 1] + slice[o + 2]
       IN  IF slice[o + 1] = 0 \/ end > Len(slice) THEN Beyond(slice) ELSE end

(* Where the declared entries of a wraps section begin, and where the last *)
(* one ends.                                                               *)
EntryStarts(slice) ==
  LET start[k \in 0 .. slice[2]] ==
        IF k = 0 THEN WrapsHeaderCells ELSE EntryEnd(slice, start[k - 1])
  IN  start

WrapsOf(slice) ==
  LET start == EntryStarts(slice)
  IN  [k \in 1 .. slice[2] |->
         LET o == start[k - 1]
             stanza == o + EntryHeaderCells + slice[o + 1]
         IN  [id     |-> Slice(slice, o + EntryHeaderCells, stanza),
              stanza |-> Slice(slice, stanza, start[k])]]

(* "offset != bytes.len()" is an error.  (The variant lets bytes follow.)  *)
Fits(slice, end)     == end <= Len(slice)
Consumed(slice, end) == end = Len(slice)

(* The count that is read is a field of 16 bits: no cell is more.          *)
IsCount(cell) == cell < CountLimit

WrapsParses(slice) ==
  /\ Len(slice) >= WrapsHeaderCells
  /\ slice[1] = Version
  /\ IsCount(slice[2])
  /\ Consumed(slice, EntryStarts(slice)[slice[2]])
  /\ \A i, j \in 1 .. slice[2] : WrapsOf(slice)[i].id = WrapsOf(slice)[j].id => i = j

(* The end of the chunk entry at an offset of a payload section, with the  *)
(* tests of PayloadSection::parse.                                         *)
ChunkEntryEnd(slice, o) ==
  IF o + ChunkHeaderCells > Len(slice) THEN Beyond(slice)
  ELSE LET len == slice[o + 1]
           end == o + ChunkHeaderCells + len + slice[3]
       IN  IF \/ len = 0
              \/ ~IsFinal(slice[o + 2]) /\ len # slice[2]
              \/ end > Len(slice)
           THEN Beyond(slice) ELSE end

ChunkOf(slice, from, to) ==
  LET tag == from + ChunkHeaderCells + slice[from + 1]
  IN  [flags |-> slice[from + 2],
       ciphertext |-> Slice(slice, from + ChunkHeaderCells, tag),
       tag |-> Slice(slice, tag, to)]

(* The chunk lists a payload section can be read as, End saying where an   *)
(* entry ends: none or one, each chunk beginning where the one before it   *)
(* ended, the last at the end.                                             *)
ChunkListsBy(End(_, _), slice) ==
  LET start[k \in 0 .. Len(slice)] ==
        IF k = 0 THEN PayloadHeaderCells ELSE End(slice, start[k - 1])
  IN  {[k \in 1 .. n |-> ChunkOf(slice, start[k - 1], start[k])] :
         n \in {k \in 0 .. Len(slice) : start[k] = Len(slice)}}

ChunkLists(slice) == ChunkListsBy(ChunkEntryEnd, slice)

PayloadOf(slice) ==
  [chunkSize |-> slice[2], tagSize |-> slice[3],
   chunks |-> CHOOSE chunks \in ChunkLists(slice) : TRUE]

PayloadParses(slice) ==
  /\ Len(slice) >= PayloadHeaderCells
  /\ slice[1] = Version
  /\ slice[2] # 0 /\ slice[3] # 0
  /\ \E chunks \in ChunkLists(slice) :
       /\ chunks # <<>>
       /\ \A k \in DOMAIN chunks : IsFinal(chunks[k].flags) <=> k = Len(chunks)

(* FooterSection::parse.  (The variant takes a tag that is cut short.)     *)
FooterRunsShort(slice, end) == end >= Len(slice)
FooterEnds(slice, end)      == end = Len(slice)

FooterParses(slice) ==
  /\ Len(slice) >= FooterHeaderCells
  /\ slice[1] = Version
  /\ slice[2] # 0 /\ slice[3] # 0
  /\ FooterEnds(slice, FooterHeaderCells + slice[2] + slice[3])

FooterOf(slice) ==
  [root |-> Slice(slice, FooterHeaderCells, FooterHeaderCells + slice[2]),
   tag  |-> Slice(slice, FooterHeaderCells + slice[2], Len(slice))]

-----------------------------------------------------------------------------
(* scan_payload_end, of ops/decrypt.rs and, line for line, ops/rewrap.rs:  *)
(* follow the chunk headers to the first final one.  (The variant steps    *)
(* over the ciphertext only.)                                              *)
CiphertextSpan(len, tagSize) == ChunkHeaderCells + len
ChunkSpan(len, tagSize)      == ChunkHeaderCells + len + tagSize

(* The end of the payload that begins at an offset, or NoEnd.  The last    *)
(* chunk may be cut off: its end is then past the container's.             *)
NoEnd == -1

ScanPayloadEnd(bytes, offset) ==
  LET tagSize == bytes[offset + 3]
      end[o \in 0 .. Len(bytes)] ==
        IF o + ChunkHeaderCells > Len(bytes) THEN NoEnd
        ELSE LET next == o + ChunkSpan(bytes[o + 1], tagSize)
             IN  IF IsFinal(bytes[o + 2]) THEN next
                 ELSE IF next >= Len(bytes) THEN NoEnd
                 ELSE end[next]
  IN  IF offset + PayloadHeaderCells > Len(bytes) THEN NoEnd
      ELSE end[offset + PayloadHeaderCells]

(* Section boundaries: policy, wraps and metadata follow the fixed header, *)
(* the payload starts where the header says.                               *)
WrapsStart(h)    == FixedHeaderCells + h.policyLen
MetadataStart(h) == WrapsStart(h) + h.wrapsLen
MetadataEnd(h)   == MetadataStart(h) + h.metadataLen

PolicyBytes(b)   == Slice(b, FixedHeaderCells, WrapsStart(HeaderOf(b)))
WrapsBytes(b)    == Slice(b, WrapsStart(HeaderOf(b)), MetadataStart(HeaderOf(b)))
MetadataBytes(b) == Slice(b, MetadataStart(HeaderOf(b)), MetadataEnd(HeaderOf(b)))
GapBytes(b)      == Slice(b, MetadataEnd(HeaderOf(b)), HeaderOf(b).payloadOffset)
PayloadEnd(b)    == ScanPayloadEnd(b, HeaderOf(b).payloadOffset)
PayloadBytes(b)  == Slice(b, HeaderOf(b).payloadOffset, PayloadEnd(b))
FooterBytes(b)   == Slice(b, PayloadEnd(b), Len(b))

(* "structure OK" of cli/verify.rs: no section is parsed but header and    *)
(* footer.                                                                 *)
StructureOK(b) ==
  /\ HeaderParses(b)
  /\ Len(b) >= MetadataEnd(HeaderOf(b))
  /\ Len(b) >= HeaderOf(b).payloadOffset
  /\ PayloadEnd(b) # NoEnd
  /\ Len(b) >= PayloadEnd(b)
  /\ FooterParses(FooterBytes(b))

(* extract_file_uuid.                                                      *)
HasFileUuid(wraps) == wraps # <<>> /\ Len(wraps[1].id) >= UuidLen

(* Everything decrypt tests without a key, and of the tests with a key     *)
(* those of sizes and of the payload's layout.                             *)
DecryptReads(b) ==
  /\ StructureOK(b)
  /\ Supported(HeaderOf(b))
  /\ PolicyParses(PolicyBytes(b))
  /\ WrapsParses(WrapsBytes(b))
  /\ HasFileUuid(WrapsOf(WrapsBytes(b)))
  /\ Len(FooterOf(FooterBytes(b)).root) = HashLen
  /\ Len(FooterOf(FooterBytes(b)).tag) = HashLen
  /\ PayloadParses(PayloadBytes(b))

(* The sections decrypt works on.                                          *)
SectionsOf(b) ==
  [header   |-> HeaderOf(b),
   policy   |-> PolicyOf(PolicyBytes(b)),
   wraps    |-> WrapsOf(WrapsBytes(b)),
   metadata |-> MetadataBytes(b),
   gap      |-> GapBytes(b),
   payload  |-> PayloadOf(PayloadBytes(b)),
   footer   |-> FooterOf(FooterBytes(b))]

=============================================================================
