---------------------------- MODULE MC_SharedResult ----------------------------
(* A result that is shared among a few holders.                            *)
EXTENDS SharedResult

=============================================================================
