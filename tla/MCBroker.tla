------------------------------ MODULE MCBroker ------------------------------
(***************************************************************************)
(* Local sessions only: two or three clients, their reconnections and      *)
(* takeovers, asks in both directions and a broker that is killed.         *)
(***************************************************************************)
EXTENDS IntercomBroker, TLC

CONSTANTS a, b, k1, k2, k3, m1, m2, d1, d2, unnamed

MCSend(from, id, to, replyTo, expectsReply) ==
  [from |-> from,
   msg |-> [id |-> id, to |-> to, replyTo |-> replyTo, expectsReply |-> expectsReply]]

MCNothing == [r \in {} |-> None]

\* a asks b; b asks a, or replies to a's ask with an ask.
MCSends == {MCSend(a, m1, b, None, TRUE), MCSend(b, m2, a, None, TRUE),
            MCSend(b, m2, a, m1, TRUE)}

\* No handler reads what an earlier one wrote, and no invariant does.
MCView == <<up, conn, bound, sessions, table, shutdownTimer, principals>>
MCSymmetry == Permutations({k1, k2, k3}) \cup Permutations({d1, d2})
=============================================================================
