------------------------ MODULE MCBrokerConnection ------------------------
(***************************************************************************)
(* BrokerConnection for TLC.  Clients and sessions are interchangeable;    *)
(* the run of the liveness properties does without the symmetry.           *)
(***************************************************************************)
EXTENDS BrokerConnection, TLC

ConnectionSymmetry == Permutations(Client) \cup Permutations(Session)
=============================================================================
