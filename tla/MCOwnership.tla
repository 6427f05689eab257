----------------------------- MODULE MCOwnership -----------------------------
(* Two processes, and three brokers of which one is of another version.      *)
EXTENDS BrokerOwnership, TLC

CONSTANTS s1, s2, b1, b2, b3

MCSymmetry == Permutations({s1, s2}) \cup Permutations({b1, b2})

\* How a call ends, its attempts on the lock once they are over, and the broker it
\* was about once it looks no longer, decide nothing of what follows.
MCView ==
  <<files, broker, faults,
    [s \in Starters |->
      <<IF starter[s].at \in Ended THEN "ended" ELSE starter[s].at,
        IF starter[s].at \in Locking THEN starter[s].tries ELSE 0,
        IF starter[s].at \in {"stopping", "await"} THEN starter[s].broker ELSE None>>]>>
=============================================================================
