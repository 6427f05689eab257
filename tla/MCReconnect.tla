----------------------------- MODULE MCReconnect -----------------------------
(***************************************************************************)
(* A process that only keeps its connection, and several faults.           *)
(***************************************************************************)
EXTENDS DurableDelivery

CONSTANTS a, unnamed, m1, k1, k2, d1

MCNothing == [r \in {} |-> None]
=============================================================================
