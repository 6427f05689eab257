------------------------------ MODULE MCInject ------------------------------
(* An ask and a plain message, and one fault. *)
EXTENDS InjectQueue

CONSTANTS m1, m2
=============================================================================
