---------------------------- MODULE MCKTLSSplice -----------------------------
(* Model-checking instance of KTLSSplice.  The peer sends one byte more     *)
(* than lw.N, so that a transfer taking too much has something to take, and *)
(* a chunk of two bytes makes both the clamp of the chunk to remain and     *)
(* short pipe -> file moves reachable.                                      *)
EXTENDS KTLSSplice
=============================================================================
