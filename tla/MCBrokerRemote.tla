--------------------------- MODULE MCBrokerRemote ---------------------------
(***************************************************************************)
(* A local session a, which may go by the name of its enrolled remote      *)
(* child r: messages addressed by name, revocation, adoption and expiry    *)
(* while deliveries and asks are open.                                     *)
(***************************************************************************)
EXTENDS IntercomBroker, TLC

CONSTANTS a, r, worker, unnamed, k1, k2, m1, m2, d1, d2

MCParent == [x \in {r} |-> a]
MCName == [x \in {r} |-> worker]

MCSend(from, id, to, replyTo, expectsReply) ==
  [from |-> from,
   msg |-> [id |-> id, to |-> to, replyTo |-> replyTo, expectsReply |-> expectsReply]]

\* a asks whoever is called worker; the child replies.
MCSends == {MCSend(a, m1, worker, None, TRUE), MCSend(r, m2, a, m1, FALSE)}
MCView == <<up, conn, bound, sessions, table, shutdownTimer, principals>>
MCSymmetry == Permutations({k1, k2}) \cup Permutations({d1, d2})
=============================================================================
