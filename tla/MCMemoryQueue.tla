--------------------------- MODULE MCMemoryQueue ---------------------------
(* Small instances of MemoryQueue. *)
EXTENDS MemoryQueue, TLC
=============================================================================
