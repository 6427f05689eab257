------------------------------ MODULE MCAccess ------------------------------
(* Two local sessions, three principals, two tokens out at once.            *)
EXTENDS AccessRegistry, TLC

CONSTANTS root1, root2, p1, p2, p3, t1, t2

\* One for long, deep enough for three below each other; one for a short time,
\* with less depth and a token that soon expires: the first is too wide below it.
MCRequests ==
  {[canDelegate |-> TRUE, maxDepth |-> 4, maxChildren |-> 1, expires |-> 2, until |-> 2],
   [canDelegate |-> TRUE, maxDepth |-> 2, maxChildren |-> 1, expires |-> 1, until |-> 1]}

MCSymmetry == Permutations({root1, root2})
=============================================================================
