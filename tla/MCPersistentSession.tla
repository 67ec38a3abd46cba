------------------------ MODULE MCPersistentSession ------------------------
(***************************************************************************)
(* PersistentSession for TLC.  The requests are interchangeable: in the    *)
(* runs without liveness they are symmetric.                               *)
(***************************************************************************)
EXTENDS PersistentSession, TLC

RequestSymmetry == Permutations(Request)
=============================================================================
