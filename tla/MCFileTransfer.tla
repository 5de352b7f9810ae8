---------------------------- MODULE MCFileTransfer --------------------------
(* FileTransfer of four short files, an empty one among them.              *)
EXTENDS FileTransfer

CONSTANTS a, b, c, d

Four == <<a, b, c, d>>
LengthsOfFour == (a :> 3) @@ (b :> 0) @@ (c :> 1) @@ (d :> 2)
=============================================================================
