------------------------------ MODULE MCDmaLink ------------------------------
(* Small instances of DmaLink for TLC. *)
EXTENDS DmaLink
=============================================================================
