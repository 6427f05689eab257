---------------------------- MODULE MCBrokerLive ----------------------------
(***************************************************************************)
(* One ask from a local session to its remote child, under fair timers.    *)
(***************************************************************************)
EXTENDS IntercomBroker

CONSTANTS a, r, unnamed, m1

MCParent == [x \in {r} |-> a]
MCName == [x \in {r} |-> unnamed]
MCSends == {[from |-> a, msg |-> [id |-> m1, to |-> r, replyTo |-> None,
                                  expectsReply |-> TRUE]]}
=============================================================================
