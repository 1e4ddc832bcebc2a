------------------------- MODULE MCPrototypeLoader -------------------------
(* Instance of PrototypeLoader for TLC: files of up to 4 bytes over two   *)
(* byte values, read in chunks of 2, so that files of one, two and more   *)
(* chunks and short reads all occur.                                       *)
EXTENDS PrototypeLoader

CONSTANTS x, y

MCBytes == {x, y}
MCMaxFileLen == 4
MCChunkSize == 2
=============================================================================
