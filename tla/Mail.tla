-------------------------------- MODULE Mail --------------------------------
(***************************************************************************)
(* What a sender and a receiver may rely on, whatever happens to the       *)
(* broker, the connections and the two processes between them: a message   *)
(* is taken in only if it was posted, its sender is told one outcome at    *)
(* most, and is told that it was delivered only if it was taken in.  A     *)
(* message whose delivery is reported as failed may have been taken in all *)
(* the same.                                                               *)
(***************************************************************************)
CONSTANT MessageIds

VARIABLES
  posted,  \* the messages their senders have handed to their outboxes
  taken,   \* the messages their receivers hold
  told     \* what the sender knows of each message

Outcome == {"delivered", "failed", "discarded"}

Init == posted = {} /\ taken = {} /\ told = [id \in MessageIds |-> "open"]

Post(id) ==
  /\ id \notin posted
  /\ posted' = posted \cup {id}
  /\ UNCHANGED <<taken, told>>

Take(id) ==
  /\ id \in posted
  /\ taken' = taken \cup {id}
  /\ UNCHANGED <<posted, told>>

Tell(id) ==
  /\ id \in posted /\ told[id] = "open"
  /\ \E outcome \in Outcome :
       /\ outcome = "delivered" => id \in taken
       /\ told' = [told EXCEPT ![id] = outcome]
  /\ UNCHANGED <<posted, taken>>

\* The end of its session makes a sender give up all it has posted.
Discard(Ids) ==
  /\ told' = [id \in MessageIds |-> IF id \in Ids \cap posted /\ told[id] = "open"
                                    THEN "discarded" ELSE told[id]]
  /\ UNCHANGED <<posted, taken>>

Next ==
  \/ \E id \in MessageIds : Post(id) \/ Take(id) \/ Tell(id)
  \/ \E Ids \in SUBSET MessageIds : Discard(Ids)

Spec == Init /\ [][Next]_<<posted, taken, told>>
=============================================================================
