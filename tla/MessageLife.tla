----------------------------- MODULE MessageLife -----------------------------
(***************************************************************************)
(* Any legal sequence of calls on the messages of an upload: a caller      *)
(* constructs, fills, copies, swaps, sends, receives and destroys them,    *)
(* takes objects out of them and puts objects in.                          *)
(***************************************************************************)
EXTENDS UploadMessage

CONSTANTS
  MaxHeld,                 \* objects the caller owns: bounds the model
  MaxUnknown               \* bytes of unknown fields: bounds the model

ASSUME LifeAssumption == MaxHeld \in Nat /\ MaxUnknown \in Nat

VARIABLES
  memory,
  called                   \* history: the messages of the last call

vars == <<memory, called>>

Live == {r \in Request : memory.request[r].live}

Init ==
  /\ memory = [heap |-> <<>>, request |-> [r \in Request |-> NoRequest], caller |-> {}]
  /\ called = {}

Call(requests, result) ==
  /\ memory' = result
  /\ called' = requests

MayHold == Cardinality(memory.caller) < MaxHeld
FewUnknown(s, r) ==
  /\ Len(s.request[r].unknown) <= MaxUnknown
  /\ data_case(s, r) = "kInfo" => Len(Pointed(s, r).unknown) <= MaxUnknown

Filled(n, k) == [NewFileInfo EXCEPT !.name = n, !.size = k]
FileInfos == {Filled(n, k) : n \in Texts, k \in Sizes}

Construct(r) ==
  /\ r \notin Live
  /\ Call({r}, [memory EXCEPT !.request[r] = NewRequest])

CopyConstruct(r) == \E from \in Live :
  /\ r \notin Live
  /\ Call({r}, CopyConstructed(memory, r, from))

Destroy(r) ==
  /\ r \in Live
  /\ Call({r}, SharedDtor(memory, r))

(* mutable_info and then set_name or set_size through the pointer. *)
MutateInfo(r) == \E n \in Texts, k \in Sizes :
  /\ r \in Live
  /\ LET s == mutable_info(memory, r) IN
     \/ Call({r}, Assigned(s, r, [Pointed(s, r) EXCEPT !.name = n]))
     \/ Call({r}, Assigned(s, r, [Pointed(s, r) EXCEPT !.size = k]))

SetChunkData(r) == \E bytes \in Chunks :
  /\ r \in Live
  /\ Call({r}, set_chunk_data(memory, r, bytes))

ClearData(r) ==
  /\ r \in Live
  /\ \/ \E case \in {"kInfo", "kChunkData"} : Call({r}, ClearField(memory, r, case))
     \/ Call({r}, Clear(memory, r))

ReleaseData(r) ==
  /\ r \in Live /\ MayHold
  /\ data_case(memory, r) # "DATA_NOT_SET"
  /\ Call({r}, Release(memory, r))

(* The caller gives away what it owns, or a null pointer. *)
GiveData(r) ==
  /\ r \in Live
  /\ \/ Call({r}, SetAllocated(memory, r, "kInfo", Null))
     \/ \E a \in memory.caller :
          LET case == IF memory.heap[a].kind = "FileInfo" THEN "kInfo" ELSE "kChunkData" IN
          Call({r}, SetAllocated(memory, r, case, a))

Merge(r) == \E from \in Live \ {r} :
  /\ r \in Live
  /\ LET merged == MergeFrom(memory, r, from) IN
     FewUnknown(merged, r) /\ Call({r}, merged)

Copy(r) == \E from \in Live :
  /\ r \in Live
  /\ Call({r}, CopyFrom(memory, r, from))

Swap(r) == \E other \in Live \ {r} :
  /\ r \in Live
  /\ Call({r, other}, InternalSwap(memory, r, other))

(* r receives what a peer of another version has sent, whole or in part. *)
Receive(r) == \E wire \in Foreign :
  /\ r \in Live
  /\ LET received == ParseFrom(memory, r, wire).memory IN
     FewUnknown(received, r) /\ Call({r}, received)

Allocate ==
  /\ MayHold
  /\ \E object \in FileInfos \union {Text(bytes) : bytes \in Chunks} :
       Call({}, [Allocated(memory, object) EXCEPT !.caller = @ \union {FreeAddress(memory)}])

Delete == \E a \in memory.caller :
  Call({}, [Deleted(memory, a) EXCEPT !.caller = @ \ {a}])

Uses(r) ==
  \/ Construct(r) \/ CopyConstruct(r) \/ Destroy(r)
  \/ MutateInfo(r) \/ SetChunkData(r) \/ ClearData(r)
  \/ ReleaseData(r) \/ GiveData(r)
  \/ Merge(r) \/ Copy(r) \/ Swap(r) \/ Receive(r)

Next == (\E r \in Request : Uses(r)) \/ Allocate \/ Delete

Spec == Init /\ [][Next]_vars

-----------------------------------------------------------------------------
(* Every object on the heap has one owner: a message whose case says what  *)
(* kind of object it is, or the caller.  An object without an owner is     *)
(* leaked, one with two is deleted twice, and a pointer to no object is    *)
(* read after it was deleted (clear_data, release_info, InternalSwap).     *)
Owners(a) ==
  {r \in Live : data_case(memory, r) # "DATA_NOT_SET" /\ memory.request[r].data = a}
    \union IF a \in memory.caller THEN {"caller"} ELSE {}

OwnedOnce ==
  /\ \A a \in DOMAIN memory.heap : Cardinality(Owners(a)) = 1
  /\ \A r \in Live : data_case(memory, r) # "DATA_NOT_SET" =>
       /\ memory.request[r].data \in DOMAIN memory.heap
       /\ Pointed(memory, r).kind = (IF data_case(memory, r) = "kInfo" THEN "FileInfo" ELSE "string")
  /\ memory.caller \subseteq DOMAIN memory.heap

(* A call changes what the messages it is made on hold, and no other       *)
(* message: copies are deep (MergeFrom, CopyFrom, the copy constructor).   *)
NoAliasing == [][\A r \in Request :
  r \in Live /\ r \notin called' => Content(memory', r) = Content(memory, r)]_vars

(* A message with a name in UTF-8 that is sent arrives as it was, into a   *)
(* message that held anything before, and has the size that was announced  *)
(* (_InternalSerialize, ByteSizeLong, _InternalParse, Clear).              *)
Sendable(r) == data_case(memory, r) = "kInfo" => IsUtf8(Pointed(memory, r).name)

ArrivesAsSent == \A r, to \in Live :
  LET wire == Serialize(memory, r)
      received == ParseFrom(memory, to, wire)
  IN /\ Len(wire) = ByteSizeLong(memory, r)
     /\ Sendable(r) => received.ok /\ Content(received.memory, to) = Content(memory, r)

(* Parsing one message after another into the same object is merging the   *)
(* second into the first: the last field of the oneof wins, and a FileInfo *)
(* is merged field by field (_InternalParse, MergeFrom).                   *)
ParsingMerges == \A r, from \in Live :
  r # from /\ Sendable(from) =>
    LET parsed == InternalParse(memory, r, Serialize(memory, from)) IN
    parsed.ok /\ Content(parsed.memory, r) = Content(MergeFrom(memory, r, from), r)
=============================================================================
