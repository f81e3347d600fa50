--------------------------- MODULE MCUploadStream ---------------------------
(***************************************************************************)
(* Either a handler receives a stream of up to three messages, in any      *)
(* order, of two names and three chunks, or a caller uses two messages as  *)
(* it likes.  One name is so long that the length of its FileInfo takes    *)
(* two bytes.  The peer sends a field it added (3) in the message and in   *)
(* the FileInfo, a FileInfo in two parts before a chunk that is cut short, *)
(* a name that is not UTF-8, and both members of the oneof.                *)
(***************************************************************************)
EXTENDS UploadStream

MCTexts == {<<97>>}
MCSizes == {300}
MCChunks == {<<0, 255>>}

NewField == <<24, 1>>
MCForeign ==
  {NewField \o <<10, 2>> \o NewField,
   <<10, 2, 10, 0, 10, 3, 16, 172, 2, 18, 2, 7>>,
   <<10, 3, 10, 1, 255>>,
   <<10, 2, 10, 0, 18, 2, 0, 255>>}

Messages ==
  {[NewFileInfo EXCEPT !.name = text] : text \in {[i \in 1 .. 126 |-> 97], <<98>>}}
    \union {[NewFileInfo EXCEPT !.name = <<98>>, !.size = 300], NewFileInfo}
    \union {Text(bytes) : bytes \in {<<>>, <<0, 255>>, <<7>>}}

MCStreams == UNION {[1 .. k -> Messages] : k \in 0 .. 3}

Other == Request \ {uploadFilePart}
Symmetry == Permutations(Other)

NoCall ==
  /\ stream = <<>> /\ got = 0 /\ at = "none" /\ data = Null
  /\ name = Default /\ bl = <<>> /\ id = <<>> /\ object = <<>>

MCInit == StreamInit \/ (Init /\ NoCall)

MCNext ==
  \/ UploadFile
  \/ /\ at = "none"
     /\ (\E r \in Other : Uses(r)) \/ Allocate \/ Delete
     /\ UNCHANGED handler

MCSpec == MCInit /\ [][MCNext]_<<vars, handler>>
=============================================================================
