------------------------------- MODULE MC_When -------------------------------
(* Two results, two calls of when_any and one of when_all: each call meets   *)
(* what the ones before it left in the results.                              *)
EXTENDS WhenAll

=============================================================================
