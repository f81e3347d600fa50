-------------------------- MODULE MCUploadService --------------------------
(***************************************************************************)
(* Two clients upload an empty file and a file of two chunks under the     *)
(* same name.                                                              *)
(***************************************************************************)
EXTENDS UploadService

CONSTANTS c1, c2, n1

MCFileName == [c \in Client |-> n1]
MCFileSize == [c \in Client |-> IF c = c1 THEN 0 ELSE 2]
=============================================================================
