--------------------------- MODULE MCDeliveryLive ---------------------------
(***************************************************************************)
(* One message, two connections, and one fault at any point of its way.    *)
(***************************************************************************)
EXTENDS DurableDelivery

CONSTANTS a, b, unnamed, m1, k1, k2, k3, d1

MCNothing == [r \in {} |-> None]
MCSends == {[from |-> a, msg |-> [id |-> m1, to |-> b, replyTo |-> None,
                                  expectsReply |-> FALSE]]}
=============================================================================
