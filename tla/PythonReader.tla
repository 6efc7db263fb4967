---------------------------- MODULE PythonReader ----------------------------
(***************************************************************************)
(* The second reader of containers, impl/python: format/header.py,         *)
(* policy.py, wraps.py, payload.py and footer.py, and how ops/decrypt.py   *)
(* puts them together.  It is made to read what the Rust program writes,   *)
(* and tests less.                                                         *)
(***************************************************************************)
EXTENDS Sections

(* FixedHeader.parse.  The format version, the suite and header_len are    *)
(* unpacked and compared with nothing, here or in decrypt.                 *)
PyHeaderParses(bytes) ==
  /\ Len(bytes) >= FixedHeaderCells
  /\ bytes[1] = Magic
  /\ OffsetAddsUp(HeaderOf(bytes))

(* PolicySection.parse: at least as long as a policy, with any numbers.    *)
PyPolicyParses(slice) == Len(slice) >= PolicyCells /\ slice[1] = Version

(* WrapsSection.parse: bytes may follow the last entry.                    *)
PyWrapsParses(slice) ==
  /\ Len(slice) >= WrapsHeaderCells
  /\ slice[1] = Version
  /\ IsCount(slice[2])
  /\ EntryStarts(slice)[slice[2]] <= Len(slice)
  /\ \A i, j \in 1 .. slice[2] : WrapsOf(slice)[i].id = WrapsOf(slice)[j].id => i = j

(* A chunk entry of PayloadSection.parse: one of any size that is there.   *)
(* (The variant counts the tag to the ciphertext.)                         *)
PyTagInside(slice, o) ==
  IF o + ChunkHeaderCells > Len(slice) \/ slice[o + 1] = 0 THEN Beyond(slice)
  ELSE o + ChunkHeaderCells + slice[o + 1]
PyChunkEntryEnd(slice, o) ==
  IF o + ChunkHeaderCells > Len(slice) \/ slice[o + 1] = 0 THEN Beyond(slice)
  ELSE LET end == o + ChunkHeaderCells + slice[o + 1] + slice[3]
       IN  IF end > Len(slice) THEN Beyond(slice) ELSE end

(* PayloadSection.parse: the first final chunk is the last one.            *)
PyPayloadParses(slice) ==
  /\ Len(slice) >= PayloadHeaderCells
  /\ slice[1] = Version
  /\ slice[2] # 0 /\ slice[3] # 0
  /\ \E chunks \in ChunkListsBy(PyChunkEntryEnd, slice) :
       /\ chunks # <<>>
       /\ SelectInSeq(chunks, LAMBDA chunk : IsFinal(chunk.flags)) = Len(chunks)

(* FooterSection.parse, and the tag it returns compared with a digest.     *)
PyFooterParses(slice) ==
  /\ Len(slice) >= FooterHeaderCells
  /\ slice[1] = Version
  /\ slice[2] # 0 /\ slice[3] # 0
  /\ FooterHeaderCells + slice[2] + slice[3] = Len(slice)
  /\ Len(FooterOf(slice).tag) = HashLen

(* _scan_payload_end.  (Slices of Python stop at the end of the bytes, so  *)
(* that a payload which begins past it is merely too short.)               *)
PyPayloadEnd(b) == ScanPayloadEnd(b, HeaderOf(b).payloadOffset)

(* decrypt, as far as sizes and layout go.                                 *)
PyReads(b) ==
  /\ PyHeaderParses(b)
  /\ Len(b) >= MetadataEnd(HeaderOf(b))
  /\ Len(b) >= HeaderOf(b).payloadOffset
  /\ PyPolicyParses(PolicyBytes(b))
  /\ PyWrapsParses(WrapsBytes(b))
  /\ PyPayloadEnd(b) # NoEnd
  /\ PyFooterParses(Slice(b, PyPayloadEnd(b), Len(b)))
  /\ HasFileUuid(WrapsOf(WrapsBytes(b)))
  /\ PyPayloadParses(Slice(b, HeaderOf(b).payloadOffset, PyPayloadEnd(b)))

(* The chunks it decrypts.                                                 *)
PyChunks(b) ==
  CHOOSE chunks \in ChunkListsBy(PyChunkEntryEnd,
                                 Slice(b, HeaderOf(b).payloadOffset, PyPayloadEnd(b))) : TRUE

=============================================================================
