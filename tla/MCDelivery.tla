---------------------------- MODULE MCDelivery ----------------------------
(***************************************************************************)
(* Two processes on one machine: either a asks b and b replies, or a sends *)
(* b two plain messages, the second of which makes b forget the first.  A  *)
(* third connection lets one of them be back before its last connection is *)
(* closed.                                                                 *)
(***************************************************************************)
EXTENDS DurableDelivery, TLC

CONSTANTS a, b, unnamed, m1, m2, m3, m4, k1, k2, k3, d1, d2

MCNothing == [r \in {} |-> None]
MCAskAndReply ==
  {[from |-> a, msg |-> [id |-> m1, to |-> b, replyTo |-> None, expectsReply |-> TRUE]],
   [from |-> b, msg |-> [id |-> m2, to |-> a, replyTo |-> m1, expectsReply |-> FALSE]]}
MCSends ==
  MCAskAndReply \cup
  {[from |-> a, msg |-> [id |-> id, to |-> b, replyTo |-> None, expectsReply |-> FALSE]] :
     id \in {m3, m4}}

\* Bound: one of the two conversations at a time.
MCOneConversation == Posted \subseteq {m1, m2} \/ Posted \subseteq {m3, m4}

\* No handler reads what an earlier one wrote, and no invariant does.
MCView == <<up, conn, bound, sessions, table, shutdownTimer, principals,
            clients, wires, history, faults>>
MCSymmetry == Permutations({k1, k2, k3}) \cup Permutations({d1, d2})
=============================================================================
