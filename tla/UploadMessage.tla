--------------------------- MODULE UploadMessage ---------------------------
(***************************************************************************)
(* The messages of an upload as protoc generated them for the server       *)
(* (gRPC_Ceph/server/pb): FileInfo, a name and a size, and                 *)
(* UploadFileRequest, a oneof of a FileInfo and a chunk of data.           *)
(*                                                                         *)
(* The oneof is a union of two pointers, data_, and a case that says which *)
(* one counts.  What data_ points to is on the heap and has one owner, the *)
(* message or the caller who allocated or released it.  The messages are   *)
(* not on an arena: the server's is a local variable.                      *)
(*                                                                         *)
(* An operation maps memory to memory, so that operations compose as the   *)
(* functions call each other; a memory has                                 *)
(*   heap     what is allocated: heap[a] is a FileInfo or a string         *)
(*   request  request[r]: the message r, whether it is constructed or not  *)
(*   caller   the addresses the caller owns                                *)
(***************************************************************************)
EXTENDS Integers, Sequences, FiniteSets, SequencesExt, WireFormat

CONSTANTS
  Request,                 \* the messages, local variables of the caller
  Texts,                   \* the values of name
  Sizes,                   \* the values of size; the code's have 32 bits
  Chunks,                  \* the values of chunk_data
  Foreign                  \* wires of a peer with another version of the
                           \* service, or cut short

ASSUME MessageAssumption ==
  /\ IsFiniteSet(Request)
  /\ Texts \subseteq Seq(0 .. 255) /\ Chunks \subseteq Seq(0 .. 255)
  /\ Foreign \subseteq Seq(0 .. 255)
  /\ Sizes \subseteq Nat

Null == 0

-----------------------------------------------------------------------------
(* FileInfo                                                                *)

NewFileInfo == [kind |-> "FileInfo", name |-> <<>>, size |-> 0, unknown |-> <<>>]

(* Bug: a size of 0 is merged like any other. *)
BugMergesZero(info, from) ==
  [info EXCEPT !.unknown = @ \o from.unknown,
               !.name = IF from.name = <<>> THEN @ ELSE from.name,
               !.size = from.size]

FileInfoMergeFrom(info, from) ==
  [info EXCEPT !.unknown = @ \o from.unknown,
               !.name = IF from.name = <<>> THEN @ ELSE from.name,
               !.size = IF from.size = 0 THEN @ ELSE from.size]

(* Bug: the size counts whether it is 0 or not. *)
BugCountsZero(info) ==
  Len(info.unknown)
    + (IF info.name = <<>> THEN 0 ELSE 1 + DelimitedSize(Len(info.name)))
    + 1 + UInt32Size(info.size)

FileInfoByteSizeLong(info) ==
  Len(info.unknown)
    + (IF info.name = <<>> THEN 0 ELSE 1 + DelimitedSize(Len(info.name)))
    + (IF info.size = 0 THEN 0 ELSE 1 + UInt32Size(info.size))

(* A name that is not UTF-8 is logged and written all the same. *)
FileInfoSerialize(info) ==
  (IF info.name = <<>> THEN <<>> ELSE DelimitedField(1, info.name))
    \o (IF info.size = 0 THEN <<>> ELSE VarintField(2, info.size))
    \o info.unknown

(* CHK_(ptr): after what there is of a field that is cut short, the loop   *)
(* fails.                                                                  *)
CHK_(p, field) == IF IsCut(field) THEN [p EXCEPT !.ok = FALSE] ELSE p

(* One turn of the loop of _InternalParse: p is the message so far, and    *)
(* whether it has not failed yet.                                          *)
FileInfoParseField(p, field) ==
  IF ~p.ok THEN p
  ELSE CHK_(CASE field.tag = Tag(1, 2) ->
                   [ok |-> IsUtf8(field.value), info |-> [p.info EXCEPT !.name = field.value]]
              [] field.tag = Tag(2, 0) -> [p EXCEPT !.info.size = field.value]
              [] OTHER -> [p EXCEPT !.info.unknown = @ \o field.raw],
            field)

FileInfoTurns(info, fields) ==
  LET parsed[k \in 0 .. Len(fields)] ==
        IF k = 0 THEN [ok |-> TRUE, info |-> info]
        ELSE FileInfoParseField(parsed[k - 1], fields[k])
  IN  parsed[Len(fields)]

FileInfoInternalParse(info, wire) == FileInfoTurns(info, Fields(wire))

-----------------------------------------------------------------------------
(* The heap, and the oneof of UploadFileRequest                            *)

Text(bytes) == [kind |-> "string", bytes |-> bytes]

FreeAddress(s) ==
  CHOOSE a \in 1 .. Cardinality(DOMAIN s.heap) + 1 : a \notin DOMAIN s.heap

Allocated(s, object) ==
  [s EXCEPT !.heap = [a \in DOMAIN @ \union {FreeAddress(s)} |->
                        IF a \in DOMAIN @ THEN @[a] ELSE object]]

Deleted(s, address) == [s EXCEPT !.heap = [a \in DOMAIN @ \ {address} |-> @[a]]]

data_case(s, r) == s.request[r].case

(* The pointer of a message whose case is not set is never read: Null.     *)
clear_has_data(s, r) ==
  [s EXCEPT !.request[r].case = "DATA_NOT_SET", !.request[r].data = Null]

clear_data(s, r) ==
  clear_has_data(IF data_case(s, r) = "DATA_NOT_SET" THEN s ELSE Deleted(s, s.request[r].data), r)

(* The message takes over an object of the caller, or a new one. *)
Holds(s, r, case, address) ==
  [s EXCEPT !.request[r].case = case, !.request[r].data = address, !.caller = @ \ {address}]

(* clear_info and clear_chunk_data. *)
ClearField(s, r, case) == IF data_case(s, r) = case THEN clear_data(s, r) ELSE s

(* release_info and release_chunk_data: the caller owns what they return. *)
Release(s, r) ==
  [clear_has_data(s, r) EXCEPT !.caller = @ \union {s.request[r].data}]

(* Bug: what the message held is forgotten. *)
BugSetAllocated(s, r, case, address) ==
  IF address = Null THEN clear_data(s, r) ELSE Holds(s, r, case, address)

(* set_allocated_info and set_allocated_chunk_data. *)
SetAllocated(s, r, case, address) ==
  IF address = Null THEN clear_data(s, r) ELSE Holds(clear_data(s, r), r, case, address)

mutable_info(s, r) ==
  IF data_case(s, r) = "kInfo" THEN s
  ELSE LET cleared == clear_data(s, r) IN
       Holds(Allocated(cleared, NewFileInfo), r, "kInfo", FreeAddress(cleared))

mutable_chunk_data(s, r) ==
  IF data_case(s, r) = "kChunkData" THEN s
  ELSE LET cleared == clear_data(s, r) IN
       Holds(Allocated(cleared, Text(<<>>)), r, "kChunkData", FreeAddress(cleared))

(* What the pointer mutable_info or mutable_chunk_data returns is used for. *)
Assigned(s, r, object) == [s EXCEPT !.heap[s.request[r].data] = object]

Pointed(s, r) == s.heap[s.request[r].data]

set_chunk_data(s, r, bytes) == Assigned(mutable_chunk_data(s, r), r, Text(bytes))

-----------------------------------------------------------------------------
(* UploadFileRequest                                                       *)

NewRequest == [live |-> TRUE, case |-> "DATA_NOT_SET", data |-> Null, unknown |-> <<>>]
NoRequest == [NewRequest EXCEPT !.live = FALSE]

Clear(s, r) == [clear_data(s, r) EXCEPT !.request[r].unknown = <<>>]

MergeFrom(s, to, from) ==
  LET merged == [s EXCEPT !.request[to].unknown = @ \o s.request[from].unknown]
      target == mutable_info(merged, to)
  IN CASE data_case(s, from) = "kInfo" ->
            Assigned(target, to, FileInfoMergeFrom(Pointed(target, to), Pointed(s, from)))
       [] data_case(s, from) = "kChunkData" -> set_chunk_data(merged, to, Pointed(s, from).bytes)
       [] OTHER -> merged

(* Bug: the pointer is copied, and not what it points to. *)
BugCopyFrom(s, to, from) ==
  IF to = from THEN s ELSE [Clear(s, to) EXCEPT !.request[to] = s.request[from]]

CopyFrom(s, to, from) == IF to = from THEN s ELSE MergeFrom(Clear(s, to), to, from)

CopyConstructed(s, r, from) == MergeFrom([s EXCEPT !.request[r] = NewRequest], r, from)

InternalSwap(s, r, other) ==
  [s EXCEPT !.request[r] = s.request[other], !.request[other] = s.request[r]]

SharedDtor(s, r) == [clear_data(s, r) EXCEPT !.request[r] = NoRequest]

ByteSizeLong(s, r) ==
  Len(s.request[r].unknown)
    + CASE data_case(s, r) = "kInfo" -> 1 + DelimitedSize(FileInfoByteSizeLong(Pointed(s, r)))
        [] data_case(s, r) = "kChunkData" -> 1 + DelimitedSize(Len(Pointed(s, r).bytes))
        [] OTHER -> 0

(* The length of a FileInfo is what its ByteSizeLong computes, not that of *)
(* what is written; that the code reads it from a cache is not modelled.   *)
Serialize(s, r) ==
  (CASE data_case(s, r) = "kInfo" ->
          <<Tag(1, 2)>> \o Varint(FileInfoByteSizeLong(Pointed(s, r)))
            \o FileInfoSerialize(Pointed(s, r))
     [] data_case(s, r) = "kChunkData" -> DelimitedField(2, Pointed(s, r).bytes)
     [] OTHER -> <<>>)
    \o s.request[r].unknown

(* One turn of the loop of _InternalParse into the message r: the oneof is *)
(* switched before the content of the field is read.                       *)
ParseInfo(s, r, bytes) ==
  LET target == mutable_info(s, r)
      parsed == FileInfoInternalParse(Pointed(target, r), bytes)
  IN  [ok |-> parsed.ok, memory |-> Assigned(target, r, parsed.info)]

ParseField(p, r, field) ==
  IF ~p.ok THEN p
  ELSE CHK_(CASE field.tag = Tag(1, 2) -> ParseInfo(p.memory, r, field.value)
              [] field.tag = Tag(2, 2) -> [p EXCEPT !.memory = set_chunk_data(@, r, field.value)]
              [] OTHER -> [p EXCEPT !.memory.request[r].unknown = @ \o field.raw],
            field)

Turns(s, r, fields) ==
  LET parsed[k \in 0 .. Len(fields)] ==
        IF k = 0 THEN [ok |-> TRUE, memory |-> s]
        ELSE ParseField(parsed[k - 1], r, fields[k])
  IN  parsed[Len(fields)]

InternalParse(s, r, wire) == Turns(s, r, Fields(wire))

(* What gRPC does with a message it has received. *)
ParseFrom(s, r, wire) == InternalParse(Clear(s, r), r, wire)

(* What the accessors of a message return; a deleted object is garbage. *)
Garbage == [kind |-> "garbage"]

Content(s, r) ==
  [case |-> data_case(s, r),
   data |-> IF data_case(s, r) = "DATA_NOT_SET" THEN NewFileInfo
            ELSE IF s.request[r].data \in DOMAIN s.heap THEN Pointed(s, r) ELSE Garbage,
   unknown |-> s.request[r].unknown]
=============================================================================
