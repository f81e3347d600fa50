---------------------------- MODULE UploadStream ----------------------------
(***************************************************************************)
(* LaptopServiceImpl::UploadFile on the messages as they are in memory:    *)
(* one UploadFileRequest receives every message of the stream, and its     *)
(* oneof is changed under the handler's pointers.  UploadService takes for *)
(* granted that the handler sees a name or a chunk, in order; here that is *)
(* checked down to the bytes on the wire.                                  *)
(***************************************************************************)
EXTENDS MessageLife

CONSTANTS
  uploadFilePart,          \* the handler's message
  Streams,                 \* what clients send: sequences of FileInfos and Texts
  Default                  \* the name a call starts with

(* A message of a client is a name, with or without a size, or a chunk.    *)
Message ==
  [kind : {"FileInfo"}, name : Seq(0 .. 255), size : Nat, unknown : {<<>>}]
    \union [kind : {"string"}, bytes : Seq(0 .. 255)]

ASSUME StreamAssumption == uploadFilePart \in Request /\ Streams \subseteq Seq(Message)

VARIABLES
  stream, got,             \* what the client sends, how many have been read
  at,                      \* where the handler is
  data,                    \* the pointer its last mutable_info returned
  name, bl, id,            \* its locals name and bl, and response->id
  object                   \* history: what it stored

locals == <<data, name, bl, id>>
handler == <<stream, got, at, locals, object>>

StreamInit ==
  /\ stream \in Streams /\ got = 0
  /\ memory = [heap |-> <<>>, caller |-> {},
               request |-> [r \in Request |-> IF r = uploadFilePart THEN NewRequest ELSE NoRequest]]
  /\ called = {uploadFilePart}
  /\ at = "read" /\ data = Null
  /\ name = Default /\ bl = <<>> /\ id = <<>>
  /\ object = <<>>

(* What the client's library writes; a later version adds a field. *)
Wire(message) ==
  IF message.kind = "FileInfo" THEN DelimitedField(1, FileInfoSerialize(message))
                               ELSE DelimitedField(2, message.bytes)

Read ==
  /\ at = "read" /\ got < Len(stream)
  /\ \E added \in {<<>>, VarintField(3, 1)} :
       LET received == ParseFrom(memory, uploadFilePart, Wire(stream[got + 1]) \o added) IN
       /\ memory' = received.memory
       /\ at' = IF received.ok THEN "received" ELSE "write"
  /\ got' = got + 1
  /\ UNCHANGED <<stream, called, locals, object>>

(* The stream is at its end, or breaks before. *)
ReadFails ==
  /\ at = "read"
  /\ at' = "write"
  /\ UNCHANGED <<stream, got, memory, called, locals, object>>

has_info == data_case(memory, uploadFilePart) = "kInfo"

TakeName ==
  /\ at = "received" /\ has_info
  /\ LET s == mutable_info(memory, uploadFilePart) IN
     /\ memory' = s
     /\ data' = s.request[uploadFilePart].data
     /\ name' = Pointed(s, uploadFilePart).name
  /\ at' = "chunk"
  /\ UNCHANGED <<stream, got, called, bl, id, object>>

(* Bug: the name is kept by reference, and read when its FileInfo is gone. *)
BugTakeChunk ==
  /\ at = "chunk" \/ (at = "received" /\ ~has_info)
  /\ LET s == mutable_chunk_data(memory, uploadFilePart) IN
     /\ bl' = bl \o Pointed(s, uploadFilePart).bytes
     /\ memory' = Assigned(s, uploadFilePart, Text(<<>>))
     /\ id' = IF data \in DOMAIN s.heap /\ s.heap[data].kind = "FileInfo"
              THEN s.heap[data].name ELSE <<>>
  /\ at' = "read"
  /\ UNCHANGED <<stream, got, called, data, name, object>>

(* mutable_chunk_data makes a chunk of a message that is a name: the       *)
(* FileInfo is deleted, and nothing is appended.                           *)
TakeChunk ==
  /\ at = "chunk" \/ (at = "received" /\ ~has_info)
  /\ LET s == mutable_chunk_data(memory, uploadFilePart) IN
     /\ bl' = bl \o Pointed(s, uploadFilePart).bytes
     /\ memory' = Assigned(s, uploadFilePart, Text(<<>>))
  /\ id' = name
  /\ at' = "read"
  /\ UNCHANGED <<stream, got, called, data, name, object>>

(* The write, and the return that destroys uploadFilePart. *)
WriteAndReturn ==
  /\ at = "write"
  /\ object' = <<name, bl>>
  /\ memory' = SharedDtor(memory, uploadFilePart)
  /\ at' = "returned"
  /\ UNCHANGED <<stream, got, called, locals>>

UploadFile == Read \/ ReadFails \/ TakeName \/ TakeChunk \/ WriteAndReturn

StreamSpec == StreamInit /\ [][UploadFile]_<<vars, handler>>

-----------------------------------------------------------------------------
(* The bytes of the chunks among the first k messages of a stream.         *)
ChunksOf(messages) ==
  LET bytes[k \in 0 .. Len(messages)] ==
        IF k = 0 THEN <<>>
        ELSE IF messages[k].kind = "string" THEN bytes[k - 1] \o messages[k].bytes
        ELSE bytes[k - 1]
  IN  bytes

IsLastName(n, messages, k) ==
  \/ n = Default /\ \A i \in 1 .. k : messages[i].kind = "string"
  \/ \E i \in 1 .. k : /\ messages[i].kind = "FileInfo" /\ n = messages[i].name
                       /\ \A j \in i + 1 .. k : messages[j].kind = "string"

(* Between two messages bl is the chunks read so far, in order, and name   *)
(* and the response have the last name read: the message that is reused    *)
(* for every Read leaves nothing of the one before, and the FileInfo that  *)
(* mutable_chunk_data deletes is no longer needed.                         *)
HandledInOrder == at = "read" =>
  /\ bl = ChunksOf(stream)[got]
  /\ IsLastName(name, stream, got)
  /\ got > 0 => id = name
=============================================================================
