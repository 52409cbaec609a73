------------------------- MODULE MCRemoteResources -------------------------
(***************************************************************************)
(* Instances of RemoteResources: calls and operations are interchangeable.  *)
(***************************************************************************)
EXTENDS RemoteResources, TLC

Interchangeable == Permutations(Callers) \cup Permutations(Ops)
=============================================================================
