------------------------------ MODULE MCKvPool ------------------------------
(* Small instances of KvPool for TLC. *)
EXTENDS KvPool, TLC
=============================================================================
