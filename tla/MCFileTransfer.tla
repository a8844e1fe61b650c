--------------------------- MODULE MCFileTransfer ---------------------------
(***************************************************************************)
(* FileTransfer for every content of up to three bytes, with a buffer      *)
(* smaller than that.                                                      *)
(***************************************************************************)
EXTENDS FileTransfer

MCContent == UNION {[1 .. n -> Byte] : n \in 0 .. 3}
=============================================================================
