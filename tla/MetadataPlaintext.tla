------------------------- MODULE MetadataPlaintext -------------------------
(***************************************************************************)
(* format/metadata_plaintext.rs: what is told about a file inside its      *)
(* encrypted metadata, as a CBOR array of ten items.                       *)
(*                                                                         *)
(* A metadata record is [size, name, mime, created, chunkSize, epochSize,  *)
(* root, mode, padding].  An absent option is <<>>, a present one <<x>>; a *)
(* text is [text, len].  Sizes are those of data in memory and of u32      *)
(* fields, so that converting them to i64 and back keeps them.             *)
(***************************************************************************)
EXTENDS Integers, Sequences, SequencesExt

(* CBOR items (ciborium).                                                  *)
Null         == <<"null">>
Integer(v)   == <<"int", v>>
Text(t)      == <<"text", t>>
Bytes(b, n)  == <<"bytes", b, n>>
Array(items) == <<"array", items>>

(* The bytes an item takes: a head of one to five bytes and its contents.  *)
HeadLen(n) == IF n < 24 THEN 1 ELSE IF n < 256 THEN 2 ELSE IF n < 65536 THEN 3 ELSE 5

ScalarLen(item) ==
  CASE item[1] = "null"  -> 1
    [] item[1] = "int"   -> HeadLen(IF item[2] < 0 THEN -1 - item[2] ELSE item[2])
    [] item[1] = "text"  -> HeadLen(item[2].len) + item[2].len
    [] item[1] = "bytes" -> HeadLen(item[3]) + item[3]

(* The sum of a sequence of lengths.                                       *)
Total(lens) ==
  LET sum[n \in 0 .. Len(lens)] == IF n = 0 THEN 0 ELSE sum[n - 1] + lens[n]
  IN  sum[Len(lens)]

(* The padding is the one item that is an array itself.                    *)
ItemsLen(items) ==
  HeadLen(Len(items)) + Total([i \in DOMAIN items |-> ScalarLen(items[i])])
ItemLen(item)   == IF item[1] = "array" THEN ItemsLen(item[2]) ELSE ScalarLen(item)
CborLen(items)  ==
  HeadLen(Len(items)) + Total([i \in DOMAIN items |-> ItemLen(items[i])])

-----------------------------------------------------------------------------
MaxText == 255
MaxByte == 255

(* Option and PaddingBucket.                                               *)
IsOption(option) == option = <<>> \/ option = <<option[1]>>

IsPadding(p) ==
  \/ p = [kind |-> "none"]
  \/ p = [kind |-> "power_of_2", value |-> p.value] /\ p.value \in 0 .. MaxByte
  \/ p = [kind |-> "custom", value |-> p.value] /\ p.value \in Nat

RootLen  == 32
Reserved == Bytes(0, 4)

(* PaddingBucket::to_cbor_array.                                           *)
PaddingType     == [none |-> 0, power_of_2 |-> 1, custom |-> 2]
PaddingItems(p) ==
  IF p.kind = "none" THEN <<Integer(PaddingType[p.kind])>>
  ELSE <<Integer(PaddingType[p.kind]), Integer(p.value)>>

Optional(Item(_), option) == IF option = <<>> THEN Null ELSE Item(option[1])

(* MetadataPlaintext::encode.                                              *)
EncodeMetadata(m) ==
  <<Integer(m.size), Optional(Text, m.name), Optional(Text, m.mime), Optional(Integer, m.created),
    Integer(m.chunkSize), Integer(m.epochSize), Bytes(m.root, RootLen), Integer(m.mode),
    Array(PaddingItems(m.padding)), Reserved>>

-----------------------------------------------------------------------------
(* MetadataPlaintext::parse: what each item must be.                       *)
IsInt(item, low)  == item[1] = "int" /\ item[2] >= low
IsByte(item)      == IsInt(item, 0) /\ item[2] <= MaxByte
IsOptional(item, kind) == item = Null \/ item[1] = kind
IsShort(item)     == item[1] = "text" => item[2].len <= MaxText

(* The items of a padding, and PaddingBucket::from_cbor_array.             *)
PaddingParses(items) ==
  /\ Len(items) \in 1 .. 2
  /\ IsByte(items[1])
  /\ \A i \in 2 .. Len(items) : IsInt(items[i], 0)
  /\ \/ items[1] = Integer(0)
     \/ items[1] = Integer(1) /\ Len(items) = 2 /\ IsByte(items[2])
     \/ items[1] = Integer(2) /\ Len(items) = 2

MetadataParses(items) ==
  /\ Len(items) = 10
  /\ IsInt(items[1], 0)
  /\ IsOptional(items[2], "text") /\ IsShort(items[2])
  /\ IsOptional(items[3], "text") /\ IsShort(items[3])
  /\ IsOptional(items[4], "int")
  /\ IsInt(items[5], 1)
  /\ IsInt(items[6], 1)
  /\ items[7][1] = "bytes" /\ items[7][3] = RootLen
  /\ IsByte(items[8])
  /\ items[9][1] = "array" /\ PaddingParses(items[9][2])
  /\ items[10] = Reserved

OptionOf(item) == IF item = Null THEN <<>> ELSE <<item[2]>>

(* (The variant has the two padding types that carry a value swapped.)     *)
SwappedPadding(items) ==
  IF Len(items) = 1 THEN [kind |-> "none"]
  ELSE [kind |-> IF items[1] = Integer(2) THEN "power_of_2" ELSE "custom", value |-> items[2][2]]

PaddingOf(items) ==
  IF items[1] = Integer(0) THEN [kind |-> "none"]
  ELSE [kind |-> IF items[1] = Integer(1) THEN "power_of_2" ELSE "custom", value |-> items[2][2]]

MetadataOf(items) ==
  [size |-> items[1][2], name |-> OptionOf(items[2]), mime |-> OptionOf(items[3]),
   created |-> OptionOf(items[4]), chunkSize |-> items[5][2], epochSize |-> items[6][2],
   root |-> items[7][2], mode |-> items[8][2], padding |-> PaddingOf(items[9][2])]

=============================================================================
