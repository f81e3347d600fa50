------------------------- MODULE UploadServiceProofs -------------------------
(***************************************************************************)
(* Theorems about UploadService, for every number of clients, all files    *)
(* and file names, any number of restarts.                                 *)
(***************************************************************************)
EXTENDS UploadService, Induction, FiniteSetTheorems, SequenceTheorems, TLAPS

(* Abbreviations of the actions, expanded in every proof. *)
USE DEF serverVars, clientVars, streamVars, callVars, Leaves

-----------------------------------------------------------------------------
(* Files                                                                   *)

LEMMA Constants ==
  /\ IsFiniteSet(Client) /\ FileSize \in [Client -> Nat] /\ MaxRestarts \in Nat
  /\ MaxEmpty \in Nat /\ MaxEmpty > 0
  /\ \A c \in Client : FileName[c] \in Name /\ FileName[c] \notin Nat
  /\ Absent \notin Chunks /\ Refused \notin Chunks /\ Absent # Refused
  /\ Calls \in Nat /\ 0 .. Calls \subseteq Name
  BY UploadAssumption, FS_CardinalityType DEF Name, Calls, Chunks

(* The first n chunks of c's file. *)
First(c, n) == [k \in 1 .. n |-> <<c, k>>]

LEMMA Prefixes ==
  ASSUME NEW c \in Client, NEW n \in Nat
  PROVE  /\ First(c, n) \in Chunks
         /\ Append(First(c, n), <<c, n + 1>>) = First(c, n + 1)
         /\ n <= FileSize[c] => First(c, n) = SubSeq(File(c), 1, n)
<1>1. First(c, n) \in Seq(Client \X Nat) /\ Len(First(c, n)) = n
  BY DEF First
<1>2. Append(First(c, n), <<c, n + 1>>) = First(c, n + 1)
  BY <1>1 DEF First
<1>3. ASSUME n <= FileSize[c] PROVE First(c, n) = SubSeq(File(c), 1, n)
  <2>1. File(c) \in Seq(Client \X Nat) /\ Len(File(c)) = FileSize[c] /\ FileSize[c] \in Nat
    BY Constants DEF File
  <2>2. /\ SubSeq(File(c), 1, n) \in Seq(Client \X Nat)
        /\ Len(SubSeq(File(c), 1, n)) = n
        /\ \A k \in 1 .. n : SubSeq(File(c), 1, n)[k] = File(c)[k]
    BY <1>3, <2>1, SubSeqProperties
  <2>3. \A k \in 1 .. n : File(c)[k] = <<c, k>>
    BY <1>3, <2>1 DEF File
  <2> QED
    BY <1>1, <2>2, <2>3, SeqEqual DEF First
<1> QED
  BY <1>1, <1>2, <1>3 DEF Chunks

-----------------------------------------------------------------------------
(* The inductive invariant                                                 *)

(* The calls that have counted themselves: two that load the same value    *)
(* make count fall behind their number.                                    *)
Counted == {c \in Client : handler[c] \notin {"none", "load", "store"}}

Counts ==
  /\ count <= Cardinality(Counted)
  /\ \A c \in Client : handler[c] = "store" => loaded[c] <= Cardinality(Counted)

(* All of the file has been read, unless the stream broke. *)
Complete(c) == broken[c] \/ got[c] = FileSize[c] + 1

(* What a call knows of its file, and what its client knows of the call. *)
Call(c) ==
  /\ client[c] = "start" => handler[c] = "none"
  /\ client[c] \in {"start", "open"} => sent[c] = 0
  /\ client[c] = "sending" => sent[c] > 0
  /\ handler[c] \in {"none", "load", "store", "name"} => got[c] = 0
  /\ IF got[c] = 0
     THEN name[c] \in Nat /\ bl[c] = <<>>
     ELSE name[c] = FileName[c] /\ id[c] = FileName[c] /\ bl[c] = First(c, got[c] - 1)
  /\ client[c] = "closed" => sent[c] = FileSize[c] + 1 \/ broken[c] \/ handler[c] = "done"
  /\ handler[c] = "write" => Complete(c)
  /\ wrote[c] # Absent => handler[c] = "done" /\ wrote[c] \in {bl[c], Refused} /\ Complete(c)
  /\ wrote[c] = Refused => WritesMayFail
  /\ status[c] # "none" => handler[c] = "done"
  /\ status[c] = "ok" => wrote[c] # Absent
  /\ client[c] = "success" => status[c] = "ok" /\ ~broken[c]

(* Every object is what one call with its name has written. *)
Objects ==
  \A n \in Name : object[n] # Absent =>
    \E c \in Client : name[c] = n /\ wrote[c] = object[n] /\ wrote[c] # Absent

UploadInv ==
  /\ TypeOK /\ Counts /\ Objects
  /\ \A c \in Client : Call(c)

LEMMA InitUpload == Init => UploadInv
<1> SUFFICES ASSUME Init PROVE UploadInv
  OBVIOUS
<1> USE Constants
<1>1. TypeOK
  <2>1. broken \in [Client -> BOOLEAN] /\ failing \in [Client -> BOOLEAN]
    BY Zenon DEF Init
  <2>2. <<>> \in Chunks
    BY DEF Chunks
  <2>3. /\ object \in [Name -> Chunks \union {Absent}]
        /\ wrote \in [Client -> Chunks \union {Absent, Refused}] /\ bl \in [Client -> Chunks]
    BY <2>2 DEF Init
  <2>4. /\ empties \in [Client -> 0 .. MaxEmpty]
        /\ sent \in [Client -> Nat] /\ got \in [Client -> Nat]
        /\ \A c \in Client : sent[c] <= FileSize[c] + 1 /\ got[c] <= sent[c]
    BY DEF Init
  <2>5. /\ name \in [Client -> Name] /\ id \in [Client -> Name] /\ loaded \in [Client -> 0 .. Calls]
    BY DEF Init
  <2> QED
    BY <2>1, <2>3, <2>4, <2>5 DEF Init, TypeOK
<1>2. Counts
  <2>1. Counted = {}
    BY DEF Init, Counted
  <2> QED
    BY <2>1, FS_EmptySet DEF Init, Counts
<1>3. Objects
  BY DEF Init, Objects
<1>4. \A c \in Client : Call(c)
  BY DEF Init, Call
<1> QED
  BY <1>1, <1>2, <1>3, <1>4 DEF UploadInv

-----------------------------------------------------------------------------
(* What a step of one client or call leaves alone                          *)

LEMMA CountedFinite ==
  /\ Counted \in SUBSET Client /\ Cardinality(Counted) \in 0 .. Calls
  /\ (Counted \subseteq Counted' => Cardinality(Counted) <= Cardinality(Counted'))
<1>1. Counted \in SUBSET Client /\ Counted' \in SUBSET Client
  BY DEF Counted
<1>2. IsFiniteSet(Counted') /\ Cardinality(Counted) \in Nat /\ Cardinality(Counted) <= Calls
  BY <1>1, Constants, FS_Subset, FS_CardinalityType DEF Calls
<1> QED
  BY <1>1, <1>2, FS_Subset, Constants

LEMMA CountsKept ==
  ASSUME UploadInv, count' \in {0, count}, Counted \subseteq Counted',
         \A c \in Client : handler'[c] = "store" => handler[c] = "store" /\ loaded'[c] = loaded[c]
  PROVE  Counts'
<1>1. Cardinality(Counted') \in Nat
  BY CountedFinite, Constants, FS_CardinalityType, FS_Subset DEF Counted
<1> QED
  BY <1>1, CountedFinite, Constants DEF UploadInv, Counts, TypeOK

LEMMA CallKept ==
  ASSUME NEW c \in Client, Call(c),
         client'[c] = client[c], sent'[c] = sent[c], broken'[c] = broken[c],
         handler'[c] = handler[c], got'[c] = got[c], name'[c] = name[c], bl'[c] = bl[c],
         id'[c] = id[c], status'[c] = status[c], wrote'[c] = wrote[c]
  PROVE  Call(c)'
  BY DEF Call, Complete

LEMMA ObjectsKept ==
  ASSUME UploadInv, object' = object,
         \A c \in Client : wrote[c] # Absent => wrote'[c] = wrote[c] /\ name'[c] = name[c]
  PROVE  Objects'
  BY DEF UploadInv, Objects

-----------------------------------------------------------------------------
(* The server's main                                                       *)

LEMMA MainStep ==
  ASSUME UploadInv, ServerMain
  PROVE  UploadInv'
<1> USE DEF UploadInv
<1>1. UNCHANGED <<restarts, count, object, clientVars, streamVars, handler, callVars>>
  BY DEF ServerMain, StartServer, StartFails
<1>2. server' \in {"start", "serving", "exited"}
  BY DEF ServerMain, StartServer, StartFails, TypeOK
<1>3. TypeOK'
  BY <1>1, <1>2 DEF TypeOK
<1>4. Counts'
  BY <1>1 DEF Counts, Counted
<1>5. Objects'
  BY <1>1 DEF Objects
<1>6. \A c \in Client : Call(c)'
  BY <1>1, CallKept
<1> QED
  BY <1>3, <1>4, <1>5, <1>6

LEMMA RestartStep ==
  ASSUME UploadInv, Restart
  PROVE  UploadInv'
<1> USE DEF UploadInv
<1>1. /\ UNCHANGED <<object, clientVars, callVars>> /\ count' = 0
      /\ broken' = [c \in Client |-> broken[c] \/ Open(c)]
      /\ empties' = [c \in Client |-> 0]
      /\ handler' = [c \in Client |-> IF handler[c] = "none" THEN "none" ELSE "done"]
  BY DEF Restart
<1>2. TypeOK'
  <2>1. broken' \in [Client -> BOOLEAN]
    BY Zenon, <1>1
  <2>2. /\ server' = "start" /\ restarts' \in 0 .. MaxRestarts
        /\ count' \in 0 .. Calls /\ empties' \in [Client -> 0 .. MaxEmpty]
    BY <1>1, Constants DEF Restart, TypeOK
  <2>3. handler' \in [Client -> {"none", "load", "store", "name", "read", "write", "done"}]
    BY <1>1
  <2> QED
    BY <1>1, <2>1, <2>2, <2>3 DEF TypeOK
<1>3. Counts'
  BY <1>1, CountsKept DEF Counted
<1>4. Objects'
  BY <1>1, ObjectsKept
<1>5. \A c \in Client : Call(c)'
  BY <1>1 DEF Call, Complete, Open
<1> QED
  BY <1>2, <1>3, <1>4, <1>5 DEF Restart

-----------------------------------------------------------------------------
(* The client                                                              *)

LEMMA OpenStep ==
  ASSUME UploadInv, NEW c \in Client, OpenStream(c)
  PROVE  UploadInv'
<1> USE DEF UploadInv
<1>1. TypeOK'
  BY DEF OpenStream, TypeOK
<1>2. Counts'
  BY CountsKept DEF OpenStream, Counted, TypeOK, Call
<1>3. Objects'
  BY ObjectsKept DEF OpenStream
<1>4. Call(c)'
  BY DEF OpenStream, Call, Complete, TypeOK
<1>5. \A d \in Client : d # c => Call(d)'
  BY CallKept DEF OpenStream, TypeOK
<1> QED
  BY <1>1, <1>2, <1>3, <1>4, <1>5

(* The steps of the client that the server's call does not notice. *)
Uploads(c) ==
  \/ OpenFails(c) \/ Abandon(c) \/ Disconnect(c) \/ SendInfo(c) \/ SendInfoFails(c)
  \/ SendChunk(c) \/ SendEmpty(c) \/ CloseSend(c) \/ Answer(c) \/ DiskChanges(c)

LEMMA UploadsStep ==
  ASSUME UploadInv, NEW c \in Client, Uploads(c)
  PROVE  UploadInv'
<1> USE DEF UploadInv
<1>1. UNCHANGED <<serverVars, count, object, handler, callVars>>
  BY DEF Uploads, OpenFails, Abandon, Disconnect, SendInfo, SendInfoFails, SendChunk,
         SendEmpty, CloseSend, Answer, DiskChanges
<1>2. /\ client' \in [Client -> {"start", "open", "sending", "closed", "success", "failed"}]
      /\ \A d \in Client : d # c => client'[d] = client[d]
  BY DEF Uploads, OpenFails, Abandon, Disconnect, SendInfo, SendInfoFails, SendChunk,
         SendEmpty, CloseSend, Answer, DiskChanges, TypeOK
<1>3. /\ broken' \in [Client -> BOOLEAN]
      /\ \A d \in Client : d # c => broken'[d] = broken[d]
      /\ broken[c] => broken'[c]
  BY DEF Uploads, OpenFails, Abandon, Disconnect, SendInfo, SendInfoFails, SendChunk,
         SendEmpty, CloseSend, Answer, DiskChanges, TypeOK
<1>4. /\ sent' \in [Client -> Nat] /\ sent[c] <= sent'[c] /\ sent'[c] <= FileSize[c] + 1
      /\ \A d \in Client : d # c => sent'[d] = sent[d]
  <2>1. /\ sent \in [Client -> Nat] /\ FileSize[c] \in Nat /\ sent[c] <= FileSize[c] + 1
        /\ sent[c] \in Nat
    BY Constants DEF TypeOK
  <2>2. CASE SendInfo(c)
    <3>1. sent' = [sent EXCEPT ![c] = 1] /\ sent[c] = 0
      BY <2>2 DEF SendInfo, Call
    <3> QED
      BY <2>1, <3>1
  <2>3. CASE SendChunk(c)
    <3>1. sent' = [sent EXCEPT ![c] = @ + 1] /\ sent[c] <= FileSize[c]
      BY <2>3 DEF SendChunk
    <3> QED
      BY <2>1, <3>1
  <2>4. CASE ~SendInfo(c) /\ ~SendChunk(c)
    <3>1. sent' = sent
      BY <2>4 DEF Uploads, OpenFails, Abandon, Disconnect, SendInfoFails, SendEmpty,
                 CloseSend, Answer, DiskChanges
    <3> QED
      BY <2>1, <3>1
  <2> QED
    BY <2>2, <2>3, <2>4
<1>11. failing' \in [Client -> BOOLEAN] /\ empties' \in [Client -> 0 .. MaxEmpty]
  <2>1. failing' \in [Client -> BOOLEAN]
    BY Zenon DEF Uploads, OpenFails, Abandon, Disconnect, SendInfo, SendInfoFails, SendChunk,
                 SendEmpty, CloseSend, Answer, DiskChanges, TypeOK
  <2>2. CASE SendEmpty(c)
    <3>1. empties' = [empties EXCEPT ![c] = @ + 1] /\ empties[c] < MaxEmpty
      BY <2>2 DEF SendEmpty
    <3> QED
      BY <2>1, <3>1, Constants DEF TypeOK
  <2>3. CASE ~SendEmpty(c)
    <3>1. empties' = empties
      BY <2>3 DEF Uploads, OpenFails, Abandon, Disconnect, SendInfo, SendInfoFails, SendChunk,
                  CloseSend, Answer, DiskChanges
    <3> QED
      BY <2>1, <3>1 DEF TypeOK
  <2> QED
    BY <2>2, <2>3
<1>5. TypeOK'
  <2>1. \A d \in Client : sent'[d] <= FileSize[d] + 1 /\ got[d] <= sent'[d]
    <3>1. got[c] <= sent'[c]
      BY <1>4, Constants DEF TypeOK
    <3> QED
      BY <1>4, <3>1 DEF TypeOK
  <2> QED
    BY <1>1, <1>2, <1>3, <1>4, <1>11, <2>1 DEF TypeOK
<1>6. Counts'
  BY <1>1 DEF Counts, Counted
<1>7. Objects'
  BY <1>1 DEF Objects
<1>8. Call(c)'
  <2>1. CASE OpenFails(c)
    BY <1>1, <2>1 DEF OpenFails, Call, Complete, TypeOK
  <2>2. CASE Abandon(c) \/ Disconnect(c) \/ SendInfoFails(c)
    <3>1. broken'[c] /\ sent'[c] = sent[c] /\ client[c] \in {"open", "sending", "closed"}
          /\ client'[c] \in {client[c], "failed"}
      BY <2>2 DEF Abandon, Disconnect, SendInfoFails, Open, TypeOK
    <3> QED
      BY <1>1, <3>1 DEF Call, Complete
  <2>3. CASE SendInfo(c)
    <3>1. sent'[c] = 1 /\ broken' = broken /\ client[c] = "open" /\ client'[c] = "sending"
      BY <2>3 DEF SendInfo, TypeOK
    <3> QED
      BY <1>1, <3>1 DEF Call, Complete
  <2>4. CASE SendChunk(c)
    <3>1. broken' = broken /\ client[c] = "sending" /\ client'[c] = "sending"
      BY <2>4 DEF SendChunk, TypeOK
    <3>2. sent[c] \in Nat /\ sent'[c] \in Nat /\ sent[c] > 0
      BY <1>4, <3>1 DEF TypeOK, Call
    <3> QED
      BY <1>1, <1>4, <3>1, <3>2 DEF Call, Complete
  <2>5. CASE CloseSend(c)
    <3>1. broken' = broken /\ sent'[c] = sent[c] /\ client[c] = "sending" /\ client'[c] = "closed"
      BY <2>5 DEF CloseSend, TypeOK
    <3>2. sent[c] = FileSize[c] + 1 \/ broken[c] \/ handler[c] = "done"
      <4>1. sent[c] \in Nat /\ FileSize[c] \in Nat /\ sent[c] <= FileSize[c] + 1
        BY Constants DEF TypeOK
      <4>2. sent[c] > FileSize[c] \/ broken[c] \/ handler[c] = "done"
        BY <2>5, Zenon DEF CloseSend, Streams
      <4> QED
        BY <4>1, <4>2
    <3> QED
      BY <1>1, <3>1, <3>2 DEF Call, Complete
  <2>6. CASE Answer(c)
    <3>1. broken' = broken /\ sent'[c] = sent[c] /\ client[c] = "closed"
          /\ client'[c] = IF ~broken[c] /\ status[c] = "ok" THEN "success" ELSE "failed"
      BY <2>6 DEF Answer, TypeOK
    <3> QED
      BY <1>1, <3>1 DEF Call, Complete
  <2>7. CASE SendEmpty(c) \/ DiskChanges(c)
    <3>1. UNCHANGED <<client, sent, broken>>
      BY <2>7 DEF SendEmpty, DiskChanges
    <3> QED
      BY <1>1, <3>1, CallKept
  <2> QED
    BY <2>1, <2>2, <2>3, <2>4, <2>5, <2>6, <2>7 DEF Uploads
<1>9. \A d \in Client : d # c => Call(d)'
  BY <1>1, <1>2, <1>3, <1>4, CallKept
<1> QED
  BY <1>5, <1>6, <1>7, <1>8, <1>9

-----------------------------------------------------------------------------
(* The server's call                                                       *)

LEMMA LoadStep ==
  ASSUME UploadInv, NEW c \in Client, LoadCount(c)
  PROVE  UploadInv'
<1> USE DEF UploadInv
<1>1. TypeOK'
  BY DEF LoadCount, TypeOK
<1>2. Counts'
  <2>1. Counted' = Counted
    BY DEF LoadCount, Counted, TypeOK
  <2>2. count' = count /\ loaded'[c] = count
        /\ \A d \in Client : d # c => loaded'[d] = loaded[d] /\ handler'[d] = handler[d]
    BY DEF LoadCount, TypeOK
  <2> QED
    BY <2>1, <2>2 DEF Counts
<1>3. Objects'
  BY ObjectsKept DEF LoadCount
<1>4. \A d \in Client : Call(d)'
  BY DEF LoadCount, Call, Complete, TypeOK
<1> QED
  BY <1>1, <1>2, <1>3, <1>4

(* One call more has counted itself, and count is at most one more than    *)
(* the calls that had when this one loaded it.                             *)
LEMMA StoreStep ==
  ASSUME UploadInv, NEW c \in Client, StoreCount(c)
  PROVE  UploadInv'
<1> USE DEF UploadInv
<1>1. /\ handler[c] = "store" /\ count' = loaded[c] + 1
      /\ handler' = [handler EXCEPT ![c] = "name"]
      /\ UNCHANGED <<serverVars, object, clientVars, streamVars, callVars>>
  BY DEF StoreCount
<1>2. Counted' = Counted \union {c} /\ c \notin Counted
  BY <1>1 DEF Counted, TypeOK
<1>3. IsFiniteSet(Counted) /\ Counted' \in SUBSET Client
  BY <1>2, Constants, CountedFinite, FS_Subset
<1>4. /\ Cardinality(Counted') = Cardinality(Counted) + 1 /\ Cardinality(Counted) \in Nat
      /\ Cardinality(Counted') <= Calls
  BY <1>2, <1>3, Constants, FS_AddElement, FS_CardinalityType, FS_Subset DEF Calls
<1>5. loaded[c] \in Nat /\ loaded[c] <= Cardinality(Counted)
  BY <1>1, Constants DEF TypeOK, Counts
<1>6. count' \in 0 .. Calls /\ count' <= Cardinality(Counted')
  BY <1>1, <1>4, <1>5, Constants
<1>7. TypeOK'
  BY <1>1, <1>6 DEF TypeOK
<1>8. Counts'
  <2>1. ASSUME NEW d \in Client, handler'[d] = "store"
        PROVE  loaded'[d] <= Cardinality(Counted')
    <3>1. handler[d] = "store" /\ loaded'[d] = loaded[d] /\ loaded[d] \in Nat
      BY <1>1, <2>1, Constants DEF TypeOK
    <3>2. loaded[d] <= Cardinality(Counted)
      BY <3>1 DEF Counts
    <3> QED
      BY <1>4, <3>1, <3>2
  <2> QED
    BY <1>6, <2>1 DEF Counts
<1>9. Objects'
  BY <1>1, ObjectsKept
<1>10. \A d \in Client : Call(d)'
  BY <1>1 DEF Call, Complete, TypeOK
<1> QED
  BY <1>7, <1>8, <1>9, <1>10

LEMMA NameStep ==
  ASSUME UploadInv, NEW c \in Client, DefaultName(c)
  PROVE  UploadInv'
<1> USE DEF UploadInv
<1>1. /\ handler[c] = "name" /\ name' = [name EXCEPT ![c] = count]
      /\ loaded' = [loaded EXCEPT ![c] = 0] /\ handler' = [handler EXCEPT ![c] = "read"]
      /\ UNCHANGED <<serverVars, count, object, clientVars, streamVars,
                     got, bl, id, status, wrote>>
  BY DEF DefaultName
<1>2. count \in Name /\ count \in Nat /\ 0 \in 0 .. Calls
  BY Constants DEF TypeOK
<1>3. TypeOK'
  BY <1>1, <1>2 DEF TypeOK
<1>4. Counts'
  BY <1>1, CountsKept DEF Counted, TypeOK
<1>5. wrote[c] = Absent
  BY <1>1 DEF Call
<1>6. Objects'
  BY <1>1, <1>5, ObjectsKept DEF TypeOK
<1>7. \A d \in Client : Call(d)'
  BY <1>1, <1>2 DEF Call, Complete, TypeOK
<1> QED
  BY <1>3, <1>4, <1>6, <1>7

LEMMA InfoStep ==
  ASSUME UploadInv, NEW c \in Client, ReadsInfo(c)
  PROVE  UploadInv'
<1> USE DEF UploadInv
<1>1. /\ handler[c] = "read" /\ got[c] = 0 /\ sent[c] > 0
      /\ got' = [got EXCEPT ![c] = 1]
      /\ name' = [name EXCEPT ![c] = FileName[c]] /\ id' = [id EXCEPT ![c] = FileName[c]]
      /\ UNCHANGED <<serverVars, count, object, clientVars, streamVars, handler,
                     loaded, bl, status, wrote>>
  BY DEF ReadsInfo
<1>2. TypeOK'
  <2>1. got' \in [Client -> Nat] /\ \A d \in Client : got'[d] <= sent'[d]
    <3>1. sent[c] \in Nat /\ got \in [Client -> Nat]
      BY DEF TypeOK
    <3> QED
      BY <1>1, <3>1 DEF TypeOK
  <2> QED
    BY <1>1, <2>1, Constants DEF TypeOK
<1>3. Counts'
  BY <1>1, CountsKept DEF Counted
<1>4. wrote[c] = Absent /\ bl[c] = <<>> /\ status[c] = "none"
  BY <1>1 DEF Call, TypeOK
<1>5. Objects'
  BY <1>1, <1>4, ObjectsKept DEF TypeOK
<1>6. First(c, 0) = <<>>
  BY DEF First
<1>7. Call(c)'
  BY <1>1, <1>4, <1>6 DEF Call, Complete, TypeOK
<1>8. \A d \in Client : d # c => Call(d)'
  BY <1>1, CallKept DEF TypeOK
<1> QED
  BY <1>2, <1>3, <1>5, <1>7, <1>8

LEMMA ChunkStep ==
  ASSUME UploadInv, NEW c \in Client, ReadsChunk(c)
  PROVE  UploadInv'
<1> USE DEF UploadInv
<1>1. /\ handler[c] = "read" /\ got[c] > 0 /\ got[c] < sent[c]
      /\ got' = [got EXCEPT ![c] = @ + 1]
      /\ bl' = [bl EXCEPT ![c] = Append(@, <<c, got[c]>>)]
      /\ id' = [id EXCEPT ![c] = name[c]]
      /\ UNCHANGED <<serverVars, count, object, clientVars, streamVars, handler,
                     loaded, name, status, wrote>>
  BY DEF ReadsChunk
<1>2. /\ got[c] \in Nat /\ got[c] # 0 /\ sent[c] \in Nat /\ bl[c] \in Chunks
      /\ got'[c] = got[c] + 1 /\ got'[c] <= sent[c]
  BY <1>1 DEF TypeOK
<1>3. name[c] = FileName[c] /\ id'[c] = FileName[c] /\ bl[c] = First(c, got[c] - 1)
  BY <1>1, <1>2 DEF Call, TypeOK
<1>4. bl'[c] = First(c, got'[c] - 1) /\ bl'[c] \in Chunks
  <2>1. /\ Append(First(c, got[c] - 1), <<c, (got[c] - 1) + 1>>) = First(c, (got[c] - 1) + 1)
        /\ First(c, got[c]) \in Chunks
    <3>1. got[c] - 1 \in Nat
      BY <1>2
    <3> QED
      BY <1>2, <3>1, Prefixes
  <2>2. (got[c] - 1) + 1 = got[c] /\ got'[c] - 1 = got[c]
    BY <1>2
  <2>3. bl'[c] = Append(First(c, got[c] - 1), <<c, got[c]>>)
    BY <1>1, <1>3 DEF TypeOK
  <2> QED
    BY <2>1, <2>2, <2>3
<1>5. TypeOK'
  <2>1. got' \in [Client -> Nat] /\ \A d \in Client : got'[d] <= sent'[d]
    BY <1>1, <1>2 DEF TypeOK
  <2>2. bl' \in [Client -> Chunks]
    BY <1>1, <1>4 DEF TypeOK
  <2>3. id' \in [Client -> Name]
    BY <1>1 DEF TypeOK
  <2> QED
    BY <1>1, <2>1, <2>2, <2>3 DEF TypeOK
<1>6. Counts'
  BY <1>1, CountsKept DEF Counted
<1>7. Objects'
  BY <1>1, ObjectsKept
<1>8. Call(c)'
  <2>1. wrote[c] = Absent /\ status[c] = "none" /\ client[c] # "start" /\ client[c] # "success"
    BY <1>1 DEF Call, TypeOK
  <2>2. got'[c] # 0 /\ name'[c] = FileName[c]
    BY <1>1, <1>2, <1>3
  <2> QED
    BY <1>1, <1>3, <1>4, <2>1, <2>2 DEF Call
<1>9. \A d \in Client : d # c => Call(d)'
  BY <1>1, CallKept DEF TypeOK
<1> QED
  BY <1>5, <1>6, <1>7, <1>8, <1>9

LEMMA EmptyStep ==
  ASSUME UploadInv, NEW c \in Client, ReadsEmpty(c)
  PROVE  UploadInv'
<1> USE DEF UploadInv
<1>1. /\ handler[c] = "read" /\ got[c] > 0 /\ empties[c] > 0
      /\ empties' = [empties EXCEPT ![c] = @ - 1] /\ id' = [id EXCEPT ![c] = name[c]]
      /\ UNCHANGED <<serverVars, count, object, clientVars, broken, handler,
                     got, loaded, name, bl, status, wrote>>
  BY DEF ReadsEmpty
<1>2. got[c] # 0 /\ name[c] = FileName[c] /\ name[c] \in Name
  BY <1>1 DEF TypeOK, Call
<1>3. TypeOK'
  <2>1. empties' \in [Client -> 0 .. MaxEmpty]
    BY <1>1, Constants DEF TypeOK
  <2> QED
    BY <1>1, <1>2, <2>1 DEF TypeOK
<1>4. Counts' /\ Objects'
  BY <1>1, CountsKept, ObjectsKept DEF Counted
<1>5. Call(c)'
  BY <1>1, <1>2 DEF Call, Complete, TypeOK
<1>6. \A d \in Client : d # c => Call(d)'
  BY <1>1, CallKept DEF TypeOK
<1> QED
  BY <1>3, <1>4, <1>5, <1>6

LEMMA ThrowsStep ==
  ASSUME UploadInv, NEW c \in Client, ReadThrows(c)
  PROVE  UploadInv'
<1> USE DEF UploadInv
<1>1. TypeOK'
  BY Constants DEF ReadThrows, TypeOK
<1>2. Counts'
  BY CountsKept DEF ReadThrows, Counted, TypeOK
<1>3. Objects'
  BY ObjectsKept DEF ReadThrows
<1>4. Call(c)'
  <2>1. /\ handler[c] = "read" /\ handler'[c] = "done" /\ status'[c] = "aborted"
        /\ UNCHANGED <<clientVars, broken, got, name, bl, id, wrote>>
    BY DEF ReadThrows, TypeOK
  <2> QED
    BY <2>1 DEF Call, Complete
<1>5. \A d \in Client : d # c => Call(d)'
  BY CallKept DEF ReadThrows, TypeOK
<1> QED
  BY <1>1, <1>2, <1>3, <1>4, <1>5

LEMMA EndStep ==
  ASSUME UploadInv, NEW c \in Client, ReadsEnd(c)
  PROVE  UploadInv'
<1> USE DEF UploadInv
<1>1. /\ handler[c] = "read" /\ handler' = [handler EXCEPT ![c] = "write"]
      /\ broken[c] \/ (client[c] = "closed" /\ got[c] = sent[c])
      /\ empties' = [empties EXCEPT ![c] = 0]
      /\ UNCHANGED <<serverVars, count, object, clientVars, broken, callVars>>
  BY DEF ReadsEnd
<1>2. TypeOK'
  BY <1>1, Constants DEF TypeOK
<1>3. Counts'
  BY <1>1, CountsKept DEF Counted, TypeOK
<1>4. Objects'
  BY <1>1, ObjectsKept
<1>5. Call(c)'
  <2>1. Complete(c)
    BY <1>1 DEF Call, Complete
  <2>2. wrote[c] = Absent /\ status[c] = "none" /\ handler'[c] = "write"
    BY <1>1 DEF Call, TypeOK
  <2> QED
    BY <1>1, <2>1, <2>2 DEF Call, Complete
<1>6. \A d \in Client : d # c => Call(d)'
  BY <1>1, CallKept DEF TypeOK
<1> QED
  BY <1>2, <1>3, <1>4, <1>5, <1>6

LEMMA WriteStep ==
  ASSUME UploadInv, NEW c \in Client, WriteSucceeds(c)
  PROVE  UploadInv'
<1> USE DEF UploadInv
<1>1. /\ handler[c] = "write" /\ handler' = [handler EXCEPT ![c] = "done"]
      /\ object' = [object EXCEPT ![name[c]] = bl[c]]
      /\ wrote' = [wrote EXCEPT ![c] = bl[c]]
      /\ status' = [status EXCEPT ![c] = "ok"]
      /\ UNCHANGED <<serverVars, count, clientVars, streamVars, got, loaded, name, bl, id>>
  BY DEF WriteSucceeds, StatusOf
<1>2. /\ name[c] \in Name /\ bl[c] \in Chunks /\ bl[c] \notin {Absent, Refused}
      /\ Complete(c) /\ wrote[c] = Absent
  BY <1>1, Constants DEF TypeOK, Call
<1>3. TypeOK'
  BY <1>1, <1>2 DEF TypeOK
<1>4. Counts'
  BY <1>1, CountsKept DEF Counted, TypeOK
<1>5. Objects'
  <2> SUFFICES ASSUME NEW n \in Name, object'[n] # Absent
               PROVE  \E d \in Client : name'[d] = n /\ wrote'[d] = object'[n] /\ wrote'[d] # Absent
    BY DEF Objects
  <2>1. CASE n = name[c]
    BY <1>1, <1>2, <2>1 DEF TypeOK
  <2>2. CASE n # name[c]
    <3>1. object'[n] = object[n]
      BY <1>1, <2>2 DEF TypeOK
    <3>2. PICK d \in Client : name[d] = n /\ wrote[d] = object[n] /\ wrote[d] # Absent
      BY <3>1 DEF Objects
    <3>3. d # c
      BY <2>2, <3>2
    <3> QED
      BY <1>1, <3>1, <3>2, <3>3 DEF TypeOK
  <2> QED
    BY <2>1, <2>2
<1>7. Call(c)'
  <2>1. /\ handler'[c] = "done" /\ wrote'[c] = bl[c] /\ status'[c] = "ok"
        /\ client[c] # "start" /\ client[c] # "success"
    BY <1>1 DEF Call, TypeOK
  <2> QED
    BY <1>1, <1>2, <2>1 DEF Call, Complete
<1>8. \A d \in Client : d # c => Call(d)'
  BY <1>1, CallKept DEF TypeOK
<1> QED
  BY <1>3, <1>4, <1>5, <1>7, <1>8

LEMMA FailsStep ==
  ASSUME UploadInv, NEW c \in Client, WriteFails(c)
  PROVE  UploadInv'
<1> USE DEF UploadInv
<1>1. /\ handler[c] = "write" /\ handler' = [handler EXCEPT ![c] = "done"] /\ WritesMayFail
      /\ status' = [status EXCEPT ![c] = "ok"]
      /\ wrote' = [wrote EXCEPT ![c] = Refused]
      /\ UNCHANGED <<serverVars, count, object, clientVars, streamVars,
                     got, loaded, name, bl, id>>
  BY DEF WriteFails, StatusOf, EXIT_FAILURE
<1>2. TypeOK'
  BY <1>1 DEF TypeOK
<1>3. Counts'
  BY <1>1, CountsKept DEF Counted, TypeOK
<1>4. Objects'
  <2>1. wrote[c] = Absent
    BY <1>1 DEF Call
  <2> QED
    BY <1>1, <2>1, ObjectsKept DEF TypeOK
<1>5. Call(c)'
  <2>1. /\ handler'[c] = "done" /\ wrote[c] = Absent /\ wrote'[c] = Refused /\ Complete(c)
        /\ status'[c] = "ok" /\ Refused # Absent
        /\ client[c] # "start" /\ client[c] # "success"
    BY <1>1, Constants DEF Call, TypeOK
  <2> QED
    BY <1>1, <2>1 DEF Call, Complete
<1>6. \A d \in Client : d # c => Call(d)'
  BY <1>1, CallKept DEF TypeOK
<1> QED
  BY <1>2, <1>3, <1>4, <1>5, <1>6

-----------------------------------------------------------------------------
(* All steps                                                               *)

LEMMA StutterUpload ==
  ASSUME UploadInv, UNCHANGED vars
  PROVE  UploadInv'
<1>1. TypeOK'
  BY DEF UploadInv, vars, TypeOK
<1>2. Counts' /\ Objects'
  BY DEF UploadInv, vars, Counts, Counted, Objects
<1>3. \A c \in Client : Call(c)'
  BY CallKept DEF UploadInv, vars
<1> QED
  BY <1>1, <1>2, <1>3 DEF UploadInv

LEMMA NextUpload ==
  ASSUME UploadInv, [Next]_vars
  PROVE  UploadInv'
<1>1. CASE ServerMain
  BY <1>1, MainStep
<1>2. CASE Restart
  BY <1>2, RestartStep
<1>3. ASSUME NEW c \in Client, ClientStep(c) \/ Abandon(c) \/ Disconnect(c) \/ DiskChanges(c)
      PROVE  UploadInv'
  <2>1. CASE OpenStream(c)
    BY <2>1, OpenStep
  <2>2. CASE Uploads(c)
    BY <2>2, UploadsStep
  <2> QED
    BY <1>3, <2>1, <2>2 DEF ClientStep, Uploads
<1>4. ASSUME NEW c \in Client, CallStep(c) \/ WriteAnswered(c)
      PROVE  UploadInv'
  BY <1>4, LoadStep, StoreStep, NameStep, InfoStep, ChunkStep, EmptyStep, ThrowsStep, EndStep,
     WriteStep, FailsStep
  DEF CallStep, WriteAnswered
<1>5. CASE UNCHANGED vars
  BY <1>5, StutterUpload
<1> QED
  BY <1>1, <1>2, <1>3, <1>4, <1>5 DEF Next

-----------------------------------------------------------------------------
(* What follows                                                            *)

(* In every reachable state the calls that have counted themselves bound   *)
(* count, every object is what one call wrote, and a call knows of its     *)
(* file what it has read.                                                  *)
THEOREM UploadInvariant == Spec => []UploadInv
<1>1. Init => UploadInv
  BY InitUpload
<1>2. UploadInv /\ [Next]_vars => UploadInv'
  BY NextUpload
<1> QED
  BY <1>1, <1>2, PTL DEF Spec

(* Every variable keeps its type: count never exceeds the number of calls. *)
THEOREM UploadTypes == Spec => []TypeOK
<1>1. UploadInv => TypeOK
  BY DEF UploadInv
<1> QED
  BY <1>1, UploadInvariant, PTL

(* Every object with the name of a file is the beginning of that file, and *)
(* all of it unless the stream of its upload broke: no interleaving of     *)
(* calls and no restart mixes the chunks of two uploads (UploadFile).      *)
THEOREM StoredObjectsAreUploads == Spec => []ObjectsAreUploads
<1>1. ASSUME UploadInv PROVE ObjectsAreUploads
  <2> SUFFICES ASSUME NEW n \in Name, n \notin Nat, object[n] # Absent
               PROVE  \E c \in Client :
                        /\ FileName[c] = n
                        /\ object[n] \in {SubSeq(File(c), 1, k) : k \in 0 .. FileSize[c]}
                        /\ object[n] = File(c) \/ broken[c]
    BY DEF ObjectsAreUploads
  <2>1. PICK c \in Client : name[c] = n /\ wrote[c] = object[n] /\ wrote[c] # Absent
    BY <1>1 DEF UploadInv, Objects
  <2>2. Call(c) /\ TypeOK
    BY <1>1 DEF UploadInv
  <2>9. wrote[c] = bl[c] /\ Complete(c)
    BY <2>1, <2>2, Constants DEF Call, TypeOK
  <2>3. got[c] \in Nat /\ got[c] <= FileSize[c] + 1 /\ FileSize[c] \in Nat
    BY <2>2, Constants DEF TypeOK
  <2>4. got[c] # 0 /\ FileName[c] = n
    BY <2>1, <2>2 DEF Call
  <2>5. object[n] = First(c, got[c] - 1) /\ (broken[c] \/ got[c] = FileSize[c] + 1)
    BY <2>1, <2>2, <2>4, <2>9 DEF Call, Complete
  <2>6. got[c] - 1 \in 0 .. FileSize[c]
    BY <2>3, <2>4
  <2>7. First(c, got[c] - 1) = SubSeq(File(c), 1, got[c] - 1)
    <3>1. got[c] - 1 \in Nat /\ got[c] - 1 <= FileSize[c]
      BY <2>3, <2>6
    <3> QED
      BY <3>1, Prefixes
  <2>8. broken[c] \/ First(c, got[c] - 1) = File(c)
    <3>1. CASE broken[c]
      BY <3>1
    <3>2. CASE got[c] = FileSize[c] + 1
      <4>1. got[c] - 1 = FileSize[c]
        BY <2>3, <3>2
      <4> QED
        BY <4>1 DEF First, File
    <3> QED
      BY <2>5, <3>1, <3>2
  <2> QED
    BY <2>4, <2>5, <2>6, <2>7, <2>8
<1> QED
  BY <1>1, UploadInvariant, PTL

(* A default name holds at most an empty object, although racing calls may *)
(* have the same default name: no chunk is read before the file's name.    *)
THEOREM NothingUnderDefaultNames == Spec => []DefaultNamesAreEmpty
<1>1. ASSUME UploadInv PROVE DefaultNamesAreEmpty
  <2> SUFFICES ASSUME NEW n \in Name, n \in Nat, object[n] # Absent
               PROVE  object[n] = <<>>
    BY DEF DefaultNamesAreEmpty
  <2>1. PICK c \in Client : name[c] = n /\ wrote[c] = object[n] /\ wrote[c] # Absent
    BY <1>1 DEF UploadInv, Objects
  <2>2. Call(c) /\ wrote[c] # Refused
    BY <1>1, <2>1, Constants DEF UploadInv, TypeOK
  <2>3. got[c] = 0
    BY <2>1, <2>2, Constants DEF Call
  <2> QED
    BY <2>1, <2>2, <2>3 DEF Call
<1> QED
  BY <1>1, UploadInvariant, PTL

(* A client that reports success was answered about its own file, and its *)
(* call has written all of that file, whatever reads and Sends failed on   *)
(* the way, or was refused the write, which the status does not show.      *)
THEOREM SuccessIsAboutOwnFile == Spec => []SuccessIsOwn
<1>1. ASSUME UploadInv PROVE SuccessIsOwn
  <2> SUFFICES ASSUME NEW c \in Client, client[c] = "success"
               PROVE  id[c] = FileName[c] /\ wrote[c] \in {File(c), Refused}
    BY DEF SuccessIsOwn
  <2>1. Call(c)
    BY <1>1 DEF UploadInv
  <2>2. FileSize[c] \in Nat
    BY Constants
  <2>3. wrote[c] \in {bl[c], Refused} /\ Complete(c) /\ ~broken[c]
    BY <2>1 DEF Call
  <2>4. got[c] = FileSize[c] + 1 /\ got[c] # 0
    BY <2>2, <2>3 DEF Complete
  <2>5. bl[c] = File(c)
    <3>1. bl[c] = First(c, got[c] - 1) /\ got[c] - 1 = FileSize[c]
      BY <2>1, <2>2, <2>4 DEF Call
    <3> QED
      BY <3>1 DEF First, File
  <2> QED
    BY <2>1, <2>3, <2>4, <2>5 DEF Call
<1> QED
  BY <1>1, UploadInvariant, PTL

(* The refused write that RadosClient::write reports as 1 is the only way  *)
(* in which "upload file: %s success" (client.go:71) can be untrue: on a   *)
(* cluster that takes every write, a client that reports success has its   *)
(* whole file stored, whatever breaks, restarts or races.                  *)
THEOREM StoredUnlessRefused == ~WritesMayFail => (Spec => []SuccessMeansStored)
<1> SUFFICES ASSUME ~WritesMayFail PROVE Spec => []SuccessMeansStored
  OBVIOUS
<1>1. UploadInv /\ SuccessIsOwn => SuccessMeansStored
  BY DEF SuccessIsOwn, SuccessMeansStored, UploadInv, Call
<1> QED
  BY <1>1, SuccessIsAboutOwnFile, UploadInvariant, PTL

-----------------------------------------------------------------------------
(* Every upload comes to its end                                           *)

(* A call lasts at least until its client has left the stream open. *)
Opened == \A c \in Client : handler[c] = "none" => client[c] \in {"start", "failed"}

(* What the client of c has before it: its messages, closing, the answer. *)
ClientLeft(c) ==
  CASE client[c] = "start" -> FileSize[c] + 4
    [] client[c] = "open" -> FileSize[c] + 3
    [] client[c] = "sending" -> FileSize[c] + 3 - sent[c]
    [] client[c] = "closed" -> 1
    [] client[c] \in {"success", "failed"} -> 0

CallLeft(c) ==
  CASE handler[c] = "load" -> FileSize[c] + 6
    [] handler[c] = "store" -> FileSize[c] + 5
    [] handler[c] = "name" -> FileSize[c] + 4
    [] handler[c] = "read" -> FileSize[c] + 3 - got[c]
    [] handler[c] = "write" -> 1
    [] handler[c] \in {"none", "done"} -> 0

StreamLeft(c) == IF broken[c] THEN 0 ELSE 1

Measure(c) == <<ClientLeft(c), CallLeft(c), empties[c], StreamLeft(c)>>

(* The steps that are about the upload of c. *)
StepOf(c) == ClientStep(c) \/ CallStep(c) \/ WriteAnswered(c) \/ Abandon(c) \/ Disconnect(c)

LEMMA NumbersLeft ==
  ASSUME TypeOK, NEW c \in Client
  PROVE  /\ ClientLeft(c) \in Nat /\ CallLeft(c) \in Nat /\ StreamLeft(c) \in Nat
         /\ handler[c] \notin {"none", "done"} => CallLeft(c) > 0
         /\ Open(c) => ClientLeft(c) > 0
<1>1. /\ FileSize[c] \in Nat /\ sent[c] \in Nat /\ got[c] \in Nat
      /\ sent[c] <= FileSize[c] + 1 /\ got[c] <= sent[c]
  BY Constants DEF TypeOK
<1>2. /\ client[c] \in {"start", "open", "sending", "closed", "success", "failed"}
      /\ handler[c] \in {"none", "load", "store", "name", "read", "write", "done"}
  BY DEF TypeOK
<1>3. ClientLeft(c) \in Nat /\ (Open(c) => ClientLeft(c) > 0)
  BY <1>1, <1>2 DEF ClientLeft, Open
<1>4. CallLeft(c) \in Nat /\ (handler[c] \notin {"none", "done"} => CallLeft(c) > 0)
  BY <1>1, <1>2 DEF CallLeft
<1>5. StreamLeft(c) \in Nat
  BY DEF StreamLeft
<1> QED
  BY <1>3, <1>4, <1>5

LEMMA MeasureTyped == UploadInv => \A c \in Client : Measure(c) \in [1 .. 4 -> Nat]
<1> SUFFICES ASSUME UploadInv, NEW c \in Client PROVE Measure(c) \in [1 .. 4 -> Nat]
  OBVIOUS
<1>1. empties[c] \in Nat
  BY Constants DEF UploadInv, TypeOK
<1> QED
  BY <1>1, NumbersLeft DEF UploadInv, Measure

(* The first number that changes falls. *)
Falls(c) ==
  \/ ClientLeft(c)' < ClientLeft(c)
  \/ ClientLeft(c)' = ClientLeft(c) /\ CallLeft(c)' < CallLeft(c)
  \/ /\ ClientLeft(c)' = ClientLeft(c) /\ CallLeft(c)' = CallLeft(c)
     /\ empties'[c] < empties[c]
  \/ /\ ClientLeft(c)' = ClientLeft(c) /\ CallLeft(c)' = CallLeft(c)
     /\ empties'[c] = empties[c] /\ StreamLeft(c)' < StreamLeft(c)

LEMMA FallsLowers ==
  ASSUME NEW c \in Client, Falls(c)
  PROVE  Lower(Measure(c)', Measure(c), 4)
<1> DEFINE m == Measure(c)
           n == Measure(c)'
<1>1. m[1] = ClientLeft(c) /\ m[2] = CallLeft(c) /\ m[3] = empties[c] /\ m[4] = StreamLeft(c)
  BY DEF Measure
<1>2. n[1] = ClientLeft(c)' /\ n[2] = CallLeft(c)' /\ n[3] = empties'[c] /\ n[4] = StreamLeft(c)'
  BY DEF Measure
<1>3. \/ n[1] < m[1]
      \/ n[1] = m[1] /\ n[2] < m[2]
      \/ n[1] = m[1] /\ n[2] = m[2] /\ n[3] < m[3]
      \/ n[1] = m[1] /\ n[2] = m[2] /\ n[3] = m[3] /\ n[4] < m[4]
  BY <1>1, <1>2, Zenon DEF Falls
<1>4. Lower(n, m, 4)
  <2> HIDE DEF m, n
  <2> QED
    BY <1>3 DEF Lower
<1> QED
  BY <1>4

(* The same client, call and stream: the same measure. *)
LEMMA SameMeasure ==
  ASSUME NEW c \in Client, client'[c] = client[c], sent'[c] = sent[c],
         handler'[c] = handler[c], got'[c] = got[c], broken'[c] = broken[c],
         empties'[c] = empties[c]
  PROVE  Measure(c)' = Measure(c)
<1>1. ClientLeft(c)' = ClientLeft(c)
  BY DEF ClientLeft
<1>2. CallLeft(c)' = CallLeft(c)
  BY DEF CallLeft
<1>3. StreamLeft(c)' = StreamLeft(c)
  BY DEF StreamLeft
<1> QED
  BY <1>1, <1>2, <1>3 DEF Measure

LEMMA OthersKeepMeasure ==
  ASSUME TypeOK, NEW c \in Client, NEW d \in Client, d # c, StepOf(c)
  PROVE  Measure(d)' = Measure(d)
<1> USE DEF TypeOK, StepOf, ClientStep, CallStep, WriteAnswered, Abandon, Disconnect, OpenStream,
         OpenFails, SendInfo, SendInfoFails, SendChunk, SendEmpty, CloseSend, Answer, LoadCount,
         StoreCount, DefaultName, ReadsInfo, ReadsChunk, ReadsEmpty, ReadThrows, ReadsEnd,
         WriteSucceeds, WriteFails
<1>1. client'[d] = client[d] /\ sent'[d] = sent[d]
  OBVIOUS
<1>2. handler'[d] = handler[d] /\ got'[d] = got[d]
  OBVIOUS
<1>3. broken'[d] = broken[d]
  OBVIOUS
<1>4. empties'[d] = empties[d]
  OBVIOUS
<1> QED
  BY <1>1, <1>2, <1>3, <1>4, SameMeasure

LEMMA ClientGoesOn ==
  ASSUME TypeOK, NEW c \in Client, ClientStep(c) \/ Abandon(c), ~SendEmpty(c)
  PROVE  Falls(c)
<1>1. /\ FileSize[c] \in Nat /\ sent[c] \in Nat /\ sent[c] <= FileSize[c] + 1
  BY Constants DEF TypeOK
<1>2. \/ /\ client[c] = "start" /\ client'[c] \in {"open", "failed"}
      \/ /\ client[c] = "open" /\ client'[c] = "sending" /\ sent'[c] = 1
      \/ /\ client[c] = "sending" /\ client'[c] = "sending" /\ sent'[c] = sent[c] + 1
      \/ /\ client[c] = "sending" /\ client'[c] = "closed"
      \/ /\ Open(c) /\ client'[c] \in {"success", "failed"}
  <2>1. CASE ClientStep(c)
    BY <2>1 DEF TypeOK, ClientStep, OpenStream, OpenFails, SendInfo, SendInfoFails, SendChunk,
                SendEmpty, CloseSend, Answer, Open
  <2>2. CASE Abandon(c)
    BY <2>2 DEF TypeOK, Abandon
  <2> QED
    BY <2>1, <2>2
<1>3. ClientLeft(c) \in Nat /\ (Open(c) => ClientLeft(c) > 0)
  BY NumbersLeft
<1>4. client'[c] \in {"success", "failed"} => ClientLeft(c)' = 0
  BY DEF ClientLeft
<1>5. ClientLeft(c)' < ClientLeft(c)
  <2>1. CASE client[c] = "start"
    BY <1>1, <1>2, <2>1 DEF ClientLeft, Open
  <2>2. CASE client[c] # "start" /\ client'[c] \in {"success", "failed"}
    BY <1>2, <1>3, <1>4, <2>2
  <2>3. CASE client[c] # "start" /\ client'[c] \notin {"success", "failed"}
    BY <1>1, <1>2, <2>3 DEF ClientLeft
  <2> QED
    BY <2>1, <2>2, <2>3
<1> QED
  BY <1>5 DEF Falls

LEMMA CallGoesOn ==
  ASSUME TypeOK, NEW c \in Client, CallStep(c) \/ WriteAnswered(c)
  PROVE  Falls(c)
<1>1. /\ FileSize[c] \in Nat /\ got[c] \in Nat /\ got[c] <= FileSize[c] + 1
  BY Constants DEF TypeOK
<1>2. client' = client /\ sent' = sent
  BY DEF CallStep, WriteAnswered, LoadCount, StoreCount, DefaultName, ReadsInfo, ReadsChunk,
         ReadsEmpty, ReadThrows, ReadsEnd, WriteSucceeds, WriteFails
<1>3. ClientLeft(c)' = ClientLeft(c)
  BY <1>2 DEF ClientLeft
<1>4. CASE ReadsEmpty(c)
  <2>1. UNCHANGED <<handler, got>> /\ empties'[c] = empties[c] - 1 /\ empties[c] \in Nat
    BY <1>4, Constants DEF ReadsEmpty, TypeOK
  <2>2. CallLeft(c)' = CallLeft(c)
    BY <2>1 DEF CallLeft
  <2> QED
    BY <1>3, <2>1, <2>2 DEF Falls
<1>5. CASE ~ReadsEmpty(c)
  <2>1. \/ handler[c] = "load" /\ handler'[c] = "store"
        \/ handler[c] = "store" /\ handler'[c] = "name"
        \/ handler[c] = "name" /\ handler'[c] = "read" /\ got'[c] = got[c]
        \/ handler[c] = "read" /\ handler'[c] = "read" /\ got'[c] = got[c] + 1
        \/ handler[c] = "read" /\ handler'[c] = "write"
        \/ handler[c] \in {"read", "write"} /\ handler'[c] = "done"
    BY <1>5 DEF TypeOK, CallStep, WriteAnswered, LoadCount, StoreCount, DefaultName, ReadsInfo,
                ReadsChunk, ReadThrows, ReadsEnd, WriteSucceeds, WriteFails
  <2>2. CallLeft(c)' < CallLeft(c)
    BY <1>1, <2>1 DEF CallLeft
  <2> QED
    BY <1>3, <2>2 DEF Falls
<1> QED
  BY <1>4, <1>5

(* An empty chunk goes on its way: neither the client nor its call is any  *)
(* nearer to its end, nor farther from it.                                 *)
LEMMA EmptyLeaves ==
  ASSUME NEW c \in Client, SendEmpty(c)
  PROVE  ClientLeft(c)' = ClientLeft(c) /\ CallLeft(c)' = CallLeft(c)
<1>1. UNCHANGED <<client, sent, handler, got>>
  BY DEF SendEmpty
<1>2. ClientLeft(c)' = ClientLeft(c)
  BY <1>1 DEF ClientLeft
<1>3. CallLeft(c)' = CallLeft(c)
  BY <1>1 DEF CallLeft
<1> QED
  BY <1>2, <1>3

LEMMA DisconnectGoesOn ==
  ASSUME TypeOK, NEW c \in Client, Disconnect(c)
  PROVE  Falls(c)
<1>1. UNCHANGED <<client, sent, handler, got, empties>>
  BY DEF Disconnect
<1>2. ClientLeft(c)' = ClientLeft(c)
  BY <1>1 DEF ClientLeft
<1>3. CallLeft(c)' = CallLeft(c)
  BY <1>1 DEF CallLeft
<1>4. ~broken[c] /\ broken'[c]
  BY Zenon DEF Disconnect, TypeOK
<1>5. StreamLeft(c)' < StreamLeft(c)
  BY <1>4 DEF StreamLeft
<1> QED
  BY <1>1, <1>2, <1>3, <1>5 DEF Falls

(* The call ends with the server that ran it. *)
LEMMA RestartGoesOn ==
  ASSUME TypeOK, NEW c \in Client, Restart
  PROVE  Falls(c) \/ Measure(c)' = Measure(c)
<1>1. UNCHANGED <<client, sent, got>>
  BY DEF Restart
<1>2. ClientLeft(c)' = ClientLeft(c)
  BY <1>1 DEF ClientLeft
<1>3. handler'[c] = IF handler[c] = "none" THEN "none" ELSE "done"
  BY DEF Restart
<1>4. CallLeft(c)' = 0 /\ (handler[c] \in {"none", "done"} => CallLeft(c) = 0)
  BY <1>3 DEF CallLeft
<1>5. (broken[c] => broken'[c]) /\ empties'[c] = 0
  BY Zenon DEF Restart
<1>6. CASE handler[c] \notin {"none", "done"}
  BY <1>2, <1>4, <1>6, NumbersLeft DEF Falls
<1>7. CASE handler[c] \in {"none", "done"}
  <2>1. StreamLeft(c)' = StreamLeft(c) \/ StreamLeft(c)' < StreamLeft(c)
    BY <1>5 DEF StreamLeft
  <2>2. empties'[c] = empties[c] \/ empties'[c] < empties[c]
    BY <1>5, Constants DEF TypeOK
  <2> QED
    BY <1>2, <1>4, <1>7, <2>1, <2>2 DEF Falls, Measure
<1> QED
  BY <1>6, <1>7

LEMMA OpenedInvariant == Spec => []Opened
<1>1. Init => Opened
  BY DEF Init, Opened
<1>2. ASSUME UploadInv, Opened, Next PROVE Opened'
  <2> USE DEF UploadInv, TypeOK
  <2>1. CASE ServerMain
    <3>1. handler' = handler /\ client' = client
      BY <2>1 DEF ServerMain, StartServer, StartFails
    <3> QED
      BY <1>2, <3>1 DEF Opened
  <2>2. CASE Restart
    <3>1. client' = client /\ \A c \in Client : handler'[c] = "none" => handler[c] = "none"
      BY <2>2 DEF Restart
    <3> QED
      BY <1>2, <3>1 DEF Opened
  <2>3. ASSUME NEW c \in Client, ClientStep(c) \/ Abandon(c) PROVE Opened'
    <3>1. \/ client[c] = "start" /\ client'[c] = "failed" /\ handler' = handler
          \/ handler'[c] = "load"
          \/ client[c] # "start" /\ handler' = handler
      BY <1>2, <2>3 DEF ClientStep, OpenStream, OpenFails, SendInfo, SendInfoFails, SendChunk,
                        SendEmpty, CloseSend, Answer, Abandon, Open
    <3>2. \A d \in Client : d # c => client'[d] = client[d] /\ handler'[d] = handler[d]
      BY <1>2, <2>3 DEF ClientStep, OpenStream, OpenFails, SendInfo, SendInfoFails, SendChunk,
                        SendEmpty, CloseSend, Answer, Abandon
    <3>3. client[c] = "failed" => ~(ClientStep(c) \/ Abandon(c))
      BY DEF ClientStep, OpenStream, OpenFails, SendInfo, SendInfoFails, SendChunk, SendEmpty,
             CloseSend, Answer, Abandon, Open
    <3> QED
      BY <1>2, <2>3, <3>1, <3>2, <3>3 DEF Opened
  <2>4. ASSUME NEW c \in Client, CallStep(c) \/ WriteAnswered(c) PROVE Opened'
    <3>1. client' = client /\ \A d \in Client : handler'[d] = "none" => handler[d] = "none"
      BY <1>2, <2>4 DEF CallStep, WriteAnswered, LoadCount, StoreCount, DefaultName, ReadsInfo,
                        ReadsChunk, ReadsEmpty, ReadThrows, ReadsEnd, WriteSucceeds, WriteFails
    <3> QED
      BY <1>2, <3>1 DEF Opened
  <2>5. ASSUME NEW c \in Client, Disconnect(c) \/ DiskChanges(c) PROVE Opened'
    BY <1>2, <2>5 DEF Disconnect, DiskChanges, Opened
  <2> QED
    BY <1>2, <2>1, <2>2, <2>3, <2>4, <2>5 DEF Next
<1>3. Opened /\ UNCHANGED vars => Opened'
  BY DEF Opened, vars
<1> QED
  BY <1>1, <1>2, <1>3, UploadInvariant, PTL DEF Spec

(* A read of the file that fails sends an empty chunk and leaves the       *)
(* client and its call where they are.  Every other step about an upload,  *)
(* of its client, of its call or a broken connection, lowers what that     *)
(* upload has left; no step of another upload, of main, of the disk or a   *)
(* restart of the server raises it.  By NoEndlessDescent an upload takes   *)
(* infinitely many steps only if infinitely many reads of its file fail,   *)
(* whatever the other clients do and however often the server goes down.   *)
THEOREM UploadsRunOut ==
  Spec => \A c \in Client :
            /\ [](Measure(c) \in [1 .. 4 -> Nat])
            /\ [][/\ StepOf(c) => Lower(Measure(c)', Measure(c), 4) \/ SendEmpty(c)
                  /\ SendEmpty(c) => ClientLeft(c)' = ClientLeft(c) /\ CallLeft(c)' = CallLeft(c)
                  /\ \/ Lower(Measure(c)', Measure(c), 4) \/ Measure(c)' = Measure(c)
                     \/ SendEmpty(c)]_vars
<1> SUFFICES ASSUME NEW c \in Client
             PROVE  Spec =>
               /\ [](Measure(c) \in [1 .. 4 -> Nat])
               /\ [][/\ StepOf(c) => Lower(Measure(c)', Measure(c), 4) \/ SendEmpty(c)
                     /\ SendEmpty(c) => ClientLeft(c)' = ClientLeft(c) /\ CallLeft(c)' = CallLeft(c)
                     /\ \/ Lower(Measure(c)', Measure(c), 4) \/ Measure(c)' = Measure(c)
                        \/ SendEmpty(c)]_vars
  OBVIOUS
<1>1. UploadInv => Measure(c) \in [1 .. 4 -> Nat]
  BY MeasureTyped
<1>2. ASSUME UploadInv, StepOf(c) PROVE Lower(Measure(c)', Measure(c), 4) \/ SendEmpty(c)
  BY <1>2, ClientGoesOn, CallGoesOn, DisconnectGoesOn, FallsLowers DEF UploadInv, StepOf
<1>3. ASSUME UploadInv, Next, ~StepOf(c)
      PROVE  Lower(Measure(c)', Measure(c), 4) \/ Measure(c)' = Measure(c)
  <2>1. CASE ServerMain
    <3>1. UNCHANGED <<client, sent, handler, got, broken, empties>>
      BY <2>1 DEF ServerMain, StartServer, StartFails
    <3> QED
      BY <3>1, SameMeasure
  <2>2. CASE Restart
    BY <1>3, <2>2, RestartGoesOn, FallsLowers DEF UploadInv
  <2>3. ASSUME NEW d \in Client, StepOf(d) PROVE Measure(c)' = Measure(c)
    BY <1>3, <2>3, OthersKeepMeasure DEF UploadInv
  <2>4. ASSUME NEW d \in Client, DiskChanges(d) PROVE Measure(c)' = Measure(c)
    <3>1. UNCHANGED <<client, sent, handler, got, broken, empties>>
      BY <2>4 DEF DiskChanges
    <3> QED
      BY <3>1, SameMeasure
  <2> QED
    BY <1>3, <2>1, <2>2, <2>3, <2>4 DEF Next, StepOf
<1>4. SendEmpty(c) => ClientLeft(c)' = ClientLeft(c) /\ CallLeft(c)' = CallLeft(c)
  BY EmptyLeaves
<1>5. UploadInv /\ [Next]_vars =>
        [/\ StepOf(c) => Lower(Measure(c)', Measure(c), 4) \/ SendEmpty(c)
         /\ SendEmpty(c) => ClientLeft(c)' = ClientLeft(c) /\ CallLeft(c)' = CallLeft(c)
         /\ \/ Lower(Measure(c)', Measure(c), 4) \/ Measure(c)' = Measure(c)
            \/ SendEmpty(c)]_vars
  BY <1>2, <1>3, <1>4
<1> QED
  BY <1>1, <1>5, UploadInvariant, PTL DEF Spec

(* What lets a client, and the call it has opened, take its next step.     *)
ClientCanGo(c) ==
  \/ client[c] \in {"start", "open"}
  \/ client[c] = "sending" /\ ~failing[c]
  \/ client[c] = "sending" /\ failing[c] /\ Streams(c) /\ empties[c] < MaxEmpty
  \/ client[c] = "closed" /\ (handler[c] = "done" \/ broken[c])

CallCanGo(c) ==
  \/ handler[c] \in {"load", "store", "name"}
  \/ handler[c] = "read" /\ got[c] < sent[c]
  \/ handler[c] = "read" /\ got[c] > 0 /\ empties[c] > 0
  \/ handler[c] = "read" /\ broken[c]
  \/ handler[c] = "read" /\ client[c] = "closed" /\ got[c] = sent[c] /\ empties[c] = 0

(* Its stream is broken and reads of its file fail: it prints "stream send *)
(* fail" again and again.                                                  *)
Spins(c) == client[c] = "sending" /\ failing[c] /\ ~Streams(c)

(* A client that has not come to its end waits for nothing but its own     *)
(* call, and that call for nothing but its client and for librados to      *)
(* answer its write: not for another client, not for a server that is      *)
(* down.  With UploadsRunOut, every upload of a file that can be read ends *)
(* if its client and its call are scheduled and librados answers, which is *)
(* what EveryUploadEnds says and is checked under that fairness.           *)
THEOREM UploadNeverStuck ==
  Spec => []\A c \in Client :
               \/ client[c] \in {"success", "failed"}
               \/ ClientCanGo(c) \/ CallCanGo(c)
               \/ handler[c] = "write" \/ Spins(c)
<1>1. ASSUME UploadInv, Opened, NEW c \in Client
      PROVE  \/ client[c] \in {"success", "failed"}
             \/ ClientCanGo(c) \/ CallCanGo(c)
             \/ handler[c] = "write" \/ Spins(c)
  <2>1. /\ client[c] \in {"start", "open", "sending", "closed", "success", "failed"}
        /\ handler[c] \in {"none", "load", "store", "name", "read", "write", "done"}
        /\ sent[c] \in Nat /\ got[c] \in Nat /\ got[c] <= sent[c]
        /\ FileSize[c] \in Nat /\ empties[c] \in Nat
    BY <1>1, Constants DEF UploadInv, TypeOK
  <2>2. Call(c)
    BY <1>1 DEF UploadInv
  <2>3. CASE client[c] \in {"start", "open"}
    BY <2>3 DEF ClientCanGo
  <2>4. CASE client[c] = "sending" /\ (~failing[c] \/ ~Streams(c) \/ empties[c] < MaxEmpty)
    BY <2>4, Zenon DEF ClientCanGo, Spins
  <2>5. CASE client[c] = "sending" /\ Streams(c) /\ ~(empties[c] < MaxEmpty)
    <3>1. handler[c] \notin {"none", "done"} /\ sent[c] > 0 /\ empties[c] > 0
      BY <1>1, <2>1, <2>2, <2>5, Constants DEF Opened, Streams, Call
    <3>2. CASE handler[c] = "read"
      BY <2>1, <3>1, <3>2 DEF CallCanGo
    <3> QED
      BY <2>1, <3>1, <3>2 DEF CallCanGo
  <2>6. CASE client[c] = "closed"
    <3>1. handler[c] # "none"
      BY <1>1, <2>6 DEF Opened
    <3>2. CASE handler[c] = "read"
      <4>1. CASE broken[c]
        BY <2>6, <4>1 DEF ClientCanGo
      <4>2. CASE ~broken[c]
        <5>1. sent[c] = FileSize[c] + 1
          BY <2>2, <2>6, <3>2, <4>2 DEF Call
        <5> QED
          BY <2>1, <2>6, <3>2, <5>1 DEF CallCanGo
      <4> QED
        BY <4>1, <4>2
    <3>3. CASE handler[c] = "done"
      BY <2>6, <3>3 DEF ClientCanGo
    <3> QED
      BY <2>1, <3>1, <3>2, <3>3 DEF CallCanGo
  <2> QED
    BY <2>1, <2>3, <2>4, <2>5, <2>6
<1>2. UploadInv /\ Opened =>
        \A c \in Client : \/ client[c] \in {"success", "failed"}
                          \/ ClientCanGo(c) \/ CallCanGo(c)
                          \/ handler[c] = "write" \/ Spins(c)
  BY <1>1
<1> QED
  BY <1>2, UploadInvariant, OpenedInvariant, PTL
=============================================================================
