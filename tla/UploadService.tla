--------------------------- MODULE UploadService ---------------------------
(***************************************************************************)
(* gRPC_Ceph: clients upload a file each to the server, which stores it as *)
(* an object of a RADOS pool.  A call is a stream of messages, the file's  *)
(* name first and then its chunks; every call is served by a thread of its *)
(* own that runs LaptopServiceImpl::UploadFile.                            *)
(*                                                                         *)
(* A chunk is the pair of its client and its number.  gRPC delivers the    *)
(* messages of a stream in order, or the stream breaks: the client dies,   *)
(* the connection is lost, or the server goes down.                        *)
(***************************************************************************)
EXTENDS Integers, Sequences, FiniteSets

CONSTANTS
  Client,                  \* runs of the client program
  FileName,                \* FileName[c]: its argument
  FileSize,                \* FileSize[c]: how many chunks the file has
  MaxRestarts,             \* how often the server goes down: bounds the model
  MaxEmpty,                \* how many empty chunks are on their way at a time
  WritesMayFail,           \* whether the cluster may refuse a write
  Absent,                  \* no object
  Refused                  \* a write the cluster has refused

ASSUME UploadAssumption ==
  /\ IsFiniteSet(Client)
  /\ FileSize \in [Client -> Nat]
  /\ \A c \in Client : FileName[c] \notin Nat
  /\ MaxRestarts \in Nat /\ MaxEmpty \in Nat \ {0}
  /\ WritesMayFail \in BOOLEAN
  /\ Absent \notin Seq(Client \X Nat) /\ Refused \notin Seq(Client \X Nat)
  /\ Absent # Refused

(* "/tmp/grpc_cpp_image" with the value of count is written as that value. *)
Calls == Cardinality(Client)
Name == {FileName[c] : c \in Client} \union 0 .. Calls

File(c) == [k \in 1 .. FileSize[c] |-> <<c, k>>]

VARIABLES
  server, restarts,              \* where main is, how often it was started again
  count,                         \* the global count
  object,                        \* object[n]: the object of that name in the pool
  client,                        \* client[c]: where c is in UploadFromLocalFile
  sent,                          \* messages c has sent, 1 of them the name
  failing,                       \* reads of c's file fail
  broken,                        \* the stream of c is broken
  empties,                       \* empty chunks on their way in it
  handler,                       \* where the call of c is in UploadFile
  got,                           \* messages it has read
  loaded,                        \* the value of count it has loaded
  name, bl, id,                  \* its locals name and bl, and response->id
  status,                        \* the status it has returned
  wrote                          \* history: what its write stored, Absent, Refused

serverVars == <<server, restarts>>
clientVars == <<client, sent, failing>>
streamVars == <<broken, empties>>
callVars == <<got, loaded, name, bl, id, status, wrote>>
vars == <<serverVars, count, object, clientVars, streamVars, handler, callVars>>

Init ==
  /\ server = "start" /\ restarts = 0
  /\ count = 0
  /\ object = [n \in Name |-> Absent]
  /\ client = [c \in Client |-> "start"]
  /\ sent = [c \in Client |-> 0]
  /\ failing = [c \in Client |-> FALSE]
  /\ broken = [c \in Client |-> FALSE]
  /\ empties = [c \in Client |-> 0]
  /\ handler = [c \in Client |-> "none"]
  /\ got = [c \in Client |-> 0]
  /\ loaded = [c \in Client |-> 0]
  /\ name = [c \in Client |-> 0]
  /\ bl = [c \in Client |-> <<>>]
  /\ id = [c \in Client |-> 0]
  /\ status = [c \in Client |-> "none"]
  /\ wrote = [c \in Client |-> Absent]

-----------------------------------------------------------------------------
(* The server's main: the constructor of RadosClient, then setup_pool. The *)
(* result of connect is dropped: pool_lookup and ioctx_create are called   *)
(* whether it connected or not, and may fail or not.                       *)

StartServer ==
  /\ server = "start"
  /\ server' = "serving"
  /\ UNCHANGED <<restarts, count, object, clientVars, streamVars, handler, callVars>>

(* init, conf_read_file or setup_pool fails: exit. *)
StartFails ==
  /\ server = "start"
  /\ server' = "exited"
  /\ UNCHANGED <<restarts, count, object, clientVars, streamVars, handler, callVars>>

Open(c) == client[c] \in {"open", "sending", "closed"}

(* The server process ends and is started again; its calls are lost. *)
Restart ==
  /\ server \in {"serving", "exited"}
  /\ restarts < MaxRestarts
  /\ restarts' = restarts + 1
  /\ server' = "start"
  /\ count' = 0
  /\ broken' = [c \in Client |-> broken[c] \/ Open(c)]
  /\ empties' = [c \in Client |-> 0]
  /\ handler' = [c \in Client |-> IF handler[c] = "none" THEN "none" ELSE "done"]
  /\ UNCHANGED <<object, clientVars, callVars>>

-----------------------------------------------------------------------------
(* The client's UploadFromLocalFile                                        *)

Leaves(c, how) == client' = [client EXCEPT ![c] = how]

(* client.UploadFile opens the stream: the server starts a call. *)
OpenStream(c) ==
  /\ client[c] = "start"
  /\ server = "serving"
  /\ Leaves(c, "open")
  /\ handler' = [handler EXCEPT ![c] = "load"]
  /\ UNCHANGED <<serverVars, count, object, sent, failing, streamVars, callVars>>

(* A server that does not answer, or none. *)
OpenFails(c) ==
  /\ client[c] = "start"
  /\ server # "serving"
  /\ Leaves(c, "failed")
  /\ UNCHANGED <<serverVars, count, object, sent, failing, streamVars, handler, callVars>>

(* The client panics, or is killed, with its stream open. *)
Abandon(c) ==
  /\ Open(c)
  /\ Leaves(c, "failed")
  /\ failing' = [failing EXCEPT ![c] = FALSE]
  /\ broken' = [broken EXCEPT ![c] = TRUE]
  /\ UNCHANGED <<serverVars, count, object, sent, empties, handler, callVars>>

Disconnect(c) ==
  /\ Open(c)
  /\ ~broken[c]
  /\ broken' = [broken EXCEPT ![c] = TRUE]
  /\ UNCHANGED <<serverVars, count, object, clientVars, empties, handler, callVars>>

(* The stream still takes messages: Send puts one more on its way. *)
Streams(c) == ~broken[c] /\ handler[c] # "done"

SendInfo(c) ==
  /\ client[c] = "open"
  /\ Streams(c)
  /\ Leaves(c, "sending")
  /\ sent' = [sent EXCEPT ![c] = 1]
  /\ UNCHANGED <<serverVars, count, object, failing, streamVars, handler, callVars>>

(* Opening the file, or sending its name, fails: the client gives up. *)
SendInfoFails(c) ==
  /\ client[c] = "open"
  /\ Leaves(c, "failed")
  /\ broken' = [broken EXCEPT ![c] = TRUE]
  /\ UNCHANGED <<serverVars, count, object, sent, failing, empties, handler, callVars>>

(* Reads of the file begin to fail, or succeed again: the medium, a share. *)
(* Of a directory, which can be opened, every read fails.                  *)
DiskChanges(c) ==
  /\ client[c] = "sending"
  /\ failing' = [failing EXCEPT ![c] = ~@]
  /\ UNCHANGED <<serverVars, count, object, client, sent, streamVars, handler, callVars>>

(* A read that fails does not end the loop, which tests for io.EOF only:   *)
(* an empty chunk is sent.  A chunk that nothing is appended from may be   *)
(* taken in before or after the chunks next to it, so they are counted.    *)
SendEmpty(c) ==
  /\ client[c] = "sending" /\ failing[c]
  /\ Streams(c)
  /\ empties[c] < MaxEmpty
  /\ empties' = [empties EXCEPT ![c] = @ + 1]
  /\ UNCHANGED <<serverVars, count, object, clientVars, broken, handler, callVars>>

SendChunk(c) ==
  /\ client[c] = "sending" /\ ~failing[c]
  /\ Streams(c)
  /\ sent[c] <= FileSize[c]
  /\ sent' = [sent EXCEPT ![c] = @ + 1]
  /\ UNCHANGED <<serverVars, count, object, client, failing, streamVars, handler, callVars>>

(* Bug: the end of the file does not end the loop. *)
BugReadsOn(c) ==
  /\ client[c] = "sending" /\ ~failing[c]
  /\ ~Streams(c)
  /\ Leaves(c, "closed")
  /\ UNCHANGED <<serverVars, count, object, sent, failing, streamVars, handler, callVars>>

(* The end of the file; a client whose Send fails reads on to it as well.  *)
(* While its reads fail it never gets there.                               *)
CloseSend(c) ==
  /\ client[c] = "sending" /\ ~failing[c]
  /\ sent[c] > FileSize[c] \/ ~Streams(c)
  /\ Leaves(c, "closed")
  /\ UNCHANGED <<serverVars, count, object, sent, failing, streamVars, handler, callVars>>

(* Bug: the error of CloseAndRecv is printed, and the client goes on. *)
BugIgnoresStatus(c) ==
  /\ client[c] = "closed"
  /\ handler[c] = "done" \/ broken[c]
  /\ Leaves(c, "success")
  /\ UNCHANGED <<serverVars, count, object, sent, failing, streamVars, handler, callVars>>

Answer(c) ==
  /\ client[c] = "closed"
  /\ handler[c] = "done" \/ broken[c]
  /\ Leaves(c, IF ~broken[c] /\ status[c] = "ok" THEN "success" ELSE "failed")
  /\ UNCHANGED <<serverVars, count, object, sent, failing, streamVars, handler, callVars>>

-----------------------------------------------------------------------------
(* The server's UploadFile: count += 1 is a load and a store, and the name *)
(* is made from a second load.                                             *)

LoadCount(c) ==
  /\ handler[c] = "load"
  /\ loaded' = [loaded EXCEPT ![c] = count]
  /\ handler' = [handler EXCEPT ![c] = "store"]
  /\ UNCHANGED <<serverVars, count, object, clientVars, streamVars,
                 got, name, bl, id, status, wrote>>

StoreCount(c) ==
  /\ handler[c] = "store"
  /\ count' = loaded[c] + 1
  /\ handler' = [handler EXCEPT ![c] = "name"]
  /\ UNCHANGED <<serverVars, object, clientVars, streamVars, callVars>>

DefaultName(c) ==
  /\ handler[c] = "name"
  /\ name' = [name EXCEPT ![c] = count]
  /\ loaded' = [loaded EXCEPT ![c] = 0]
  /\ handler' = [handler EXCEPT ![c] = "read"]
  /\ UNCHANGED <<serverVars, count, object, clientVars, streamVars,
                 got, bl, id, status, wrote>>

(* Bug: the name in the message is not taken over. *)
BugKeepsDefaultName(c) ==
  /\ handler[c] = "read"
  /\ got[c] = 0 /\ sent[c] > 0
  /\ got' = [got EXCEPT ![c] = 1]
  /\ id' = [id EXCEPT ![c] = name[c]]
  /\ UNCHANGED <<serverVars, count, object, clientVars, streamVars, handler,
                 loaded, name, bl, status, wrote>>

(* The first message of the stream is the name. *)
ReadsInfo(c) ==
  /\ handler[c] = "read"
  /\ got[c] = 0 /\ sent[c] > 0
  /\ got' = [got EXCEPT ![c] = 1]
  /\ name' = [name EXCEPT ![c] = FileName[c]]
  /\ id' = [id EXCEPT ![c] = FileName[c]]
  /\ UNCHANGED <<serverVars, count, object, clientVars, streamVars, handler,
                 loaded, bl, status, wrote>>

(* Bug: the buffer is a member of the service, shared by all calls. *)
BugSharedBuffer(c) ==
  /\ handler[c] = "read"
  /\ got[c] > 0 /\ got[c] < sent[c]
  /\ got' = [got EXCEPT ![c] = @ + 1]
  /\ bl' = [d \in Client |-> Append(bl[d], <<c, got[c]>>)]
  /\ id' = [id EXCEPT ![c] = name[c]]
  /\ UNCHANGED <<serverVars, count, object, clientVars, streamVars, handler,
                 loaded, name, status, wrote>>

ReadsChunk(c) ==
  /\ handler[c] = "read"
  /\ got[c] > 0 /\ got[c] < sent[c]
  /\ got' = [got EXCEPT ![c] = @ + 1]
  /\ bl' = [bl EXCEPT ![c] = Append(@, <<c, got[c]>>)]
  /\ id' = [id EXCEPT ![c] = name[c]]
  /\ UNCHANGED <<serverVars, count, object, clientVars, streamVars, handler,
                 loaded, name, status, wrote>>

ReadsEmpty(c) ==
  /\ handler[c] = "read"
  /\ got[c] > 0 /\ empties[c] > 0
  /\ empties' = [empties EXCEPT ![c] = @ - 1]
  /\ id' = [id EXCEPT ![c] = name[c]]
  /\ UNCHANGED <<serverVars, count, object, clientVars, broken, handler,
                 got, loaded, name, bl, status, wrote>>

(* Taking in a message throws, for want of memory: nothing is written. *)
ReadThrows(c) ==
  /\ handler[c] = "read"
  /\ got[c] < sent[c] \/ empties[c] > 0
  /\ handler' = [handler EXCEPT ![c] = "done"]
  /\ empties' = [empties EXCEPT ![c] = 0]
  /\ status' = [status EXCEPT ![c] = "aborted"]
  /\ UNCHANGED <<serverVars, count, object, clientVars, broken,
                 got, loaded, name, bl, id, wrote>>

(* Read returns false at the end of the stream, and also when it breaks;   *)
(* what a call has not read when it leaves the loop is lost.               *)
ReadsEnd(c) ==
  /\ handler[c] = "read"
  /\ broken[c] \/ (client[c] = "closed" /\ got[c] = sent[c] /\ empties[c] = 0)
  /\ handler' = [handler EXCEPT ![c] = "write"]
  /\ empties' = [empties EXCEPT ![c] = 0]
  /\ UNCHANGED <<serverVars, count, object, clientVars, broken, callVars>>

(* RadosClient::write returns 0, or EXIT_FAILURE, which is 1, for a write  *)
(* that failed; UploadFile takes a negative result for a failure.          *)
EXIT_FAILURE == 1
StatusOf(ret) == IF ret < 0 THEN "cancelled" ELSE "ok"

WriteSucceeds(c) ==
  /\ handler[c] = "write"
  /\ object' = [object EXCEPT ![name[c]] = bl[c]]
  /\ wrote' = [wrote EXCEPT ![c] = bl[c]]
  /\ handler' = [handler EXCEPT ![c] = "done"]
  /\ status' = [status EXCEPT ![c] = StatusOf(0)]
  /\ UNCHANGED <<serverVars, count, clientVars, streamVars, got, loaded, name, bl, id>>

WriteFails(c) ==
  /\ handler[c] = "write"
  /\ WritesMayFail
  /\ wrote' = [wrote EXCEPT ![c] = Refused]
  /\ handler' = [handler EXCEPT ![c] = "done"]
  /\ status' = [status EXCEPT ![c] = StatusOf(EXIT_FAILURE)]
  /\ UNCHANGED <<serverVars, count, object, clientVars, streamVars,
                 got, loaded, name, bl, id>>

-----------------------------------------------------------------------------
ServerMain == StartServer \/ StartFails

ClientStep(c) ==
  \/ OpenStream(c) \/ OpenFails(c) \/ SendInfo(c) \/ SendInfoFails(c)
  \/ SendChunk(c) \/ SendEmpty(c) \/ CloseSend(c) \/ Answer(c)

(* What a call does up to its write, and the answer of librados to it. *)
CallStep(c) ==
  \/ LoadCount(c) \/ StoreCount(c) \/ DefaultName(c)
  \/ ReadsInfo(c) \/ ReadsChunk(c) \/ ReadsEmpty(c) \/ ReadThrows(c) \/ ReadsEnd(c)

WriteAnswered(c) == WriteSucceeds(c) \/ WriteFails(c)

Next ==
  \/ ServerMain \/ Restart
  \/ \E c \in Client :
       \/ ClientStep(c) \/ CallStep(c) \/ WriteAnswered(c)
       \/ Abandon(c) \/ Disconnect(c) \/ DiskChanges(c)

Spec == Init /\ [][Next]_vars

(* The client and the thread of its call are scheduled.  Nothing else has  *)
(* to happen: the server need not start, nor librados answer a write, for  *)
(* which no timeout is set; nothing has to fail, or to work again.         *)
Fairness == \A c \in Client : WF_vars(ClientStep(c)) /\ WF_vars(CallStep(c))

FairSpec == Spec /\ Fairness

-----------------------------------------------------------------------------
(* Properties                                                              *)

Chunks == Seq(Client \X Nat)

TypeOK ==
  /\ server \in {"start", "serving", "exited"}
  /\ restarts \in 0 .. MaxRestarts
  /\ count \in 0 .. Calls
  /\ object \in [Name -> Chunks \union {Absent}]
  /\ client \in [Client -> {"start", "open", "sending", "closed", "success", "failed"}]
  /\ sent \in [Client -> Nat] /\ got \in [Client -> Nat]
  /\ \A c \in Client : sent[c] <= FileSize[c] + 1 /\ got[c] <= sent[c]
  /\ failing \in [Client -> BOOLEAN] /\ broken \in [Client -> BOOLEAN]
  /\ empties \in [Client -> 0 .. MaxEmpty]
  /\ handler \in [Client -> {"none", "load", "store", "name", "read", "write", "done"}]
  /\ loaded \in [Client -> 0 .. Calls]
  /\ name \in [Client -> Name] /\ id \in [Client -> Name]
  /\ bl \in [Client -> Chunks] /\ wrote \in [Client -> Chunks \union {Absent, Refused}]
  /\ status \in [Client -> {"none", "ok", "cancelled", "aborted"}]

(* Every object in the pool is the beginning of the file of one upload     *)
(* with that name, however many calls write that name at a time; it is     *)
(* less than the whole file only if the stream of that upload broke.       *)
ObjectsAreUploads ==
  \A n \in Name \ Nat :
    object[n] # Absent =>
      \E c \in Client :
        /\ FileName[c] = n
        /\ object[n] \in {SubSeq(File(c), 1, k) : k \in 0 .. FileSize[c]}
        /\ object[n] = File(c) \/ broken[c]

(* A call that never learned its name stores an empty object under the     *)
(* default name, which a racing call may have as well: no data of a client *)
(* ends up under a name that it does not know.                             *)
DefaultNamesAreEmpty ==
  \A n \in Name \intersect Nat : object[n] \in {Absent, <<>>}

(* The answer to a client that reports success is about its own file, and  *)
(* its call has asked for all of it to be stored, although messages whose  *)
(* Send failed were dropped and reads may have failed on the way: what the *)
(* call wrote is the whole file, unless the cluster refused that write.    *)
SuccessIsOwn ==
  \A c \in Client :
    client[c] = "success" => id[c] = FileName[c] /\ wrote[c] \in {File(c), Refused}

(* Whatever breaks or restarts, a client comes to its end, unless reads of *)
(* its file fail again and again (the loop of client.go:51 ends at io.EOF  *)
(* only) or librados never answers its call's write.                       *)
EveryUploadEnds ==
  \A c \in Client :
    \/ <>(client[c] \in {"success", "failed"})
    \/ []<>failing[c]
    \/ <>[](handler[c] = "write")

(* client.go:71, "upload file: %s success": the client says that its file  *)
(* is uploaded.  So its call has stored it.                                *)
SuccessMeansStored ==
  \A c \in Client : client[c] = "success" => wrote[c] = File(c)
=============================================================================
