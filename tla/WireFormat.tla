----------------------------- MODULE WireFormat -----------------------------
(***************************************************************************)
(* The encoding of protobuf messages, which the generated code of          *)
(* gRPC_Ceph/server/pb takes from the protobuf library: varints, tags and  *)
(* fields.  A wire is a sequence of bytes.  Two kinds of fields are here,  *)
(* varints (0) and delimited ones (2): the messages of this service have   *)
(* no others.                                                              *)
(***************************************************************************)
LOCAL INSTANCE Integers
LOCAL INSTANCE Sequences

Tag(number, type) == 8 * number + type
Type(tag) == tag % 8

Varint(value) ==
  LET bytes[n \in 0 .. value] == IF n < 128 THEN <<n>> ELSE <<128 + (n % 128)>> \o bytes[n \div 128]
  IN  bytes[value]

VarintField(number, n) == <<Tag(number, 0)>> \o Varint(n)
DelimitedField(number, bytes) == <<Tag(number, 2)>> \o Varint(Len(bytes)) \o bytes

(* UInt32Size, and StringSize, BytesSize and MessageSize: what follows the *)
(* tag.                                                                    *)
UInt32Size(n) == Len(Varint(n))
DelimitedSize(length) == UInt32Size(length) + length

(* How many bytes the varint at the start of a wire has, 0 when it is cut. *)
VarintLength(wire) ==
  IF \A i \in DOMAIN wire : wire[i] >= 128 THEN 0
  ELSE CHOOSE n \in DOMAIN wire : wire[n] < 128 /\ \A i \in 1 .. n - 1 : wire[i] >= 128

(* Its last k bytes are the upper ones. *)
VarintValue(wire) ==
  LET n == VarintLength(wire)
      upper[k \in 0 .. n] == IF k = 0 THEN 0 ELSE 128 * upper[k - 1] + (wire[n - k + 1] % 128)
  IN  upper[n]

(* The field a wire starts with, when its varint has n bytes and value v;  *)
(* the tags of the service are single bytes.  A field that is cut short is *)
(* what there is of it, and has no raw bytes.                              *)
FieldOf(wire, n, v) ==
  LET length == IF Type(wire[1]) = 0 THEN n ELSE n + v
      isCut == n = 0 \/ length > Len(wire) - 1
  IN [tag |-> wire[1],
      value |-> IF Type(wire[1]) = 0 THEN v
                ELSE SubSeq(wire, n + 2, IF isCut THEN Len(wire) ELSE length + 1),
      raw |-> IF isCut THEN <<>> ELSE SubSeq(wire, 1, length + 1)]

IsCut(field) == field.raw = <<>>

FirstField(wire) == FieldOf(wire, VarintLength(Tail(wire)), VarintValue(Tail(wire)))

(* The fields of a wire, up to the first that is cut short; from[k] are    *)
(* those from the k-th byte on.                                            *)
Followed(field, k, from) ==
  IF IsCut(field) THEN <<field>> ELSE <<field>> \o from[k + Len(field.raw)]

Fields(wire) ==
  LET from[k \in 1 .. Len(wire) + 1] ==
        IF k > Len(wire) THEN <<>>
        ELSE Followed(FirstField(SubSeq(wire, k, Len(wire))), k, from)
  IN  from[1]

(* VerifyUTF8, on names that are ASCII or hold the byte 255, which no text *)
(* in UTF-8 has.                                                           *)
IsUtf8(bytes) == \A i \in DOMAIN bytes : bytes[i] # 255
=============================================================================
