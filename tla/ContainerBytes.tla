--------------------------- MODULE ContainerBytes ---------------------------
(***************************************************************************)
(* A container as bytes: written by encrypt, written again by rewraps, and *)
(* then damaged in storage -- cells changed, cells added at the end.  Any  *)
(* beginning of it may be all that is left; the properties speak of every  *)
(* beginning instead of an action cutting it.                              *)
(***************************************************************************)
EXTENDS PythonReader

CONSTANTS
  Contents,       \* what is encrypted: [metadata, payload, root]
  WrapLists,      \* sealed entries to be written: sequences of [id, stanza]
  PolicyChoices,  \* the [threshold, total] callers of rewrap pass
  MaxFaults,      \* bound: cells changed or added
  MaxCell         \* bound: the largest value damage gives a cell

VARIABLES
  bytes,    \* the container
  written,  \* the sections its writer meant
  faults    \* how many faults it has suffered

vars == <<bytes, written, faults>>

ASSUME BoundsAssumption == MaxFaults \in Nat /\ MaxCell \in Nat

(* The types of what is written: a root is as long as a hash, a wrapper's  *)
(* identifier begins with the file_uuid (WrapperSpec::wire_id).            *)
Cells == Seq(Nat)

ASSUME ContentsAssumption ==
  /\ \A c \in Contents :
       /\ c.metadata \in Cells
       /\ c.payload \in [chunkSize : Nat, tagSize : Nat,
                        chunks : Seq([flags : Nat, ciphertext : Cells, tag : Cells])]
       /\ c.root \in Cells /\ Len(c.root) = HashLen
  /\ WrapLists \subseteq Seq([id : Cells, stanza : Cells])
  /\ \A wraps \in WrapLists : \A i \in DOMAIN wraps : Len(wraps[i].id) >= UuidLen
  /\ \A choice \in PolicyChoices : choice.threshold \in Nat /\ choice.total \in Nat

(* The tag is HashLen cells; what it is computed over is not this module's *)
(* business.                                                               *)
SomeTag == [i \in 1 .. HashLen |-> 0]

(* The format and suite encrypt writes.                                    *)
OwnFormat == [major |-> FormatMajor, minor |-> FormatMinor, suite |-> SuiteId]

(* The header encrypt and rewrap write, from lengths known beforehand; a   *)
(* rewrap copies format and suite from the header it has read.             *)
WrittenHeader(format, wraps, metadataLen) ==
  [major         |-> format.major,
   minor         |-> format.minor,
   suite         |-> format.suite,
   headerLen     |-> FixedHeaderCells,
   policyLen     |-> PolicyCells,
   wrapsLen      |-> WrapsLen(wraps),
   metadataLen   |-> metadataLen,
   payloadOffset |-> FixedHeaderCells + PolicyCells + WrapsLen(wraps) + metadataLen]

(* The sections are encoded, unless they refuse, and put one after the     *)
(* other.                                                                  *)
Write(header, policy, wraps, metadata, payloadBytes, root) ==
  /\ PolicyAdmits(policy)
  /\ WrapsEncodable(wraps)
  /\ bytes' = EncodeHeader(header) \o EncodePolicy(policy) \o EncodeWraps(wraps)
                \o metadata \o payloadBytes \o EncodeFooter([root |-> root, tag |-> SomeTag])

-----------------------------------------------------------------------------
Init == bytes = <<>> /\ written = <<>> /\ faults = 0

(* ops::encrypt::encrypt.                                                  *)
Encrypt(c, wraps) ==
  LET header == WrittenHeader(OwnFormat, wraps, Len(c.metadata))
      policy == [threshold |-> 1, total |-> 1, count |-> Count(wraps)]
  IN  /\ bytes = <<>>
      /\ wraps # <<>>
      /\ PayloadEncodable(c.payload)
      /\ Write(header, policy, wraps, c.metadata, EncodePayload(c.payload), c.root)
      /\ written' = [header |-> header, policy |-> policy, wraps |-> wraps,
                     metadata |-> c.metadata, gap |-> <<>>, payload |-> c.payload,
                     footer |-> [root |-> c.root, tag |-> SomeTag]]
      /\ UNCHANGED faults

(* ops::rewrap::rewrap_container: only an undamaged container passes the   *)
(* test of its tag.  The old policy and wraps are not read; metadata,      *)
(* payload and manifest root are found by the header and the scan.  (The   *)
(* metadata is sealed again, to the same length.)                          *)
Rewrap(wraps, choice) ==
  LET header == WrittenHeader(HeaderOf(bytes), wraps, HeaderOf(bytes).metadataLen)
      policy == [threshold |-> choice.threshold, total |-> choice.total,
                 count |-> Count(wraps)]
  IN  /\ faults = 0
      /\ StructureOK(bytes)
      /\ Len(wraps) >= choice.total
      /\ Write(header, policy, wraps, MetadataBytes(bytes), PayloadBytes(bytes),
               FooterOf(FooterBytes(bytes)).root)
      /\ written' = [written EXCEPT !.header = header, !.policy = policy, !.wraps = wraps]
      /\ UNCHANGED faults

Damaged(b) ==
  /\ bytes # <<>>
  /\ faults < MaxFaults
  /\ bytes' = b
  /\ faults' = faults + 1
  /\ UNCHANGED written

(* A cell is cleared, set, or off by one.                                  *)
ChangeCell(i) ==
  \E v \in {0, 1, bytes[i] - 1, bytes[i] + 1} :
    v \in 0 .. MaxCell \ {bytes[i]} /\ Damaged([bytes EXCEPT ![i] = v])

AddCell == \E v \in {0, 1} : Damaged(Append(bytes, v))

Next ==
  \/ \E wraps \in WrapLists :
       \/ \E c \in Contents : Encrypt(c, wraps)
       \/ \E choice \in PolicyChoices : Rewrap(wraps, choice)
  \/ \E i \in DOMAIN bytes : ChangeCell(i)
  \/ AddCell

Spec == Init /\ [][Next]_vars

-----------------------------------------------------------------------------
(* Type invariant: cells are numbers, and a written wrapper count is one   *)
(* of its 16 bits.                                                         *)
TypeOK ==
  /\ faults \in 0 .. MaxFaults
  /\ \A i \in DOMAIN bytes : bytes[i] \in Nat
  /\ bytes # <<>> /\ faults = 0 =>
       \A i \in {FixedHeaderCells + 4, FixedHeaderCells + PolicyCells + 2} :
         bytes[i] < CountLimit

(* A container is read back as it was written, whoever wrote it -- unless  *)
(* it has more recipients than the count can tell, and then it is refused  *)
(* and never taken for one with fewer.                                     *)
WrittenReadsBack ==
  bytes # <<>> /\ faults = 0 =>
    IF Len(written.wraps) < CountLimit
    THEN DecryptReads(bytes) /\ SectionsOf(bytes) = written
    ELSE ~DecryptReads(bytes)

(* Nothing decrypt reads has a byte outside its sections or a second       *)
(* spelling: a container it accepts is the encoding of what it read.  Only *)
(* a header_len above the fixed header leaves room, of exactly that size.  *)
AcceptedIsEncoding ==
  DecryptReads(bytes) =>
    LET s == SectionsOf(bytes)
    IN  /\ EncodeAll(s) = bytes
        /\ Len(s.gap) = s.header.headerLen - FixedHeaderCells

(* A container that lost its end is noticed without any key: no proper     *)
(* beginning of one that has a correct structure has one as well.          *)
CutIsNoticed ==
  StructureOK(bytes) =>
    \A n \in 0 .. Len(bytes) - 1 : ~StructureOK(SubSeq(bytes, 1, n))

(* The scan that looks for the footer and the parser of the payload        *)
(* section agree on where the payload ends, in damaged containers too.     *)
ScanMeetsParser ==
  HeaderParses(bytes) =>
    LET offset == HeaderOf(bytes).payloadOffset
    IN  \A end \in offset .. Len(bytes) :
          PayloadParses(Slice(bytes, offset, end)) => PayloadEnd(bytes) = end

(* What the Python reader lets pass and the Rust one does not.             *)
IsLax(b) ==
  LET h == HeaderOf(b)
  IN  \/ ~Supported(h)
      \/ h.headerLen < FixedHeaderCells
      \/ h.policyLen # PolicyCells
      \/ ~PolicyAdmits(PolicyOf(PolicyBytes(b)))
      \/ EncodeWraps(WrapsOf(WrapsBytes(b))) # WrapsBytes(b)
      \/ Len(FooterOf(FooterBytes(b)).root) # HashLen
      \/ \E k \in 1 .. Len(PyChunks(b)) - 1 : Len(PyChunks(b)[k].ciphertext) # b[h.payloadOffset + 2]

(* Both readers, written apart, take the same containers, whole, damaged   *)
(* or cut off, but for these kinds, and find the same chunks in them.      *)
PythonReadsAlike ==
  \A n \in FixedHeaderCells .. Len(bytes) :
    LET b == SubSeq(bytes, 1, n)
    IN  /\ DecryptReads(b) <=> PyReads(b) /\ ~IsLax(b)
        /\ DecryptReads(b) => PyChunks(b) = PayloadOf(PayloadBytes(b)).chunks

(* rewrap_container compares the length with payload_offset and then takes *)
(* the metadata's bytes without a test of their own: whatever is left of a *)
(* container, they are there.                                              *)
RewrapSlicesInside ==
  \A n \in FixedHeaderCells .. Len(bytes) :
    LET b == SubSeq(bytes, 1, n)
    IN  HeaderParses(b) /\ n >= HeaderOf(b).payloadOffset => MetadataEnd(HeaderOf(b)) <= n

=============================================================================
