---------------------------- MODULE MCUploadTask ----------------------------
(***************************************************************************)
(* UploadTask with a task of two files and one of a single file, which the *)
(* directory holds already.                                                *)
(***************************************************************************)
EXTENDS UploadTask, TLC

CONSTANTS t1, t2
MCFilesOf == t1 :> {1, 2} @@ t2 :> {1}
=============================================================================
