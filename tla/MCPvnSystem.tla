----------------------------- MODULE MCPvnSystem -----------------------------
(***************************************************************************)
(* Instances of PvnSystem for TLC.                                         *)
(***************************************************************************)
EXTENDS PvnSystem

\* All PCs share an account, or each has its own; which one makes no difference.
SharedOrOwn ==
    LET any == CHOOSE u \in Users : TRUE
    IN  {[p \in PCs |-> any],
         CHOOSE f \in [PCs -> Users] : \A p, q \in PCs : p # q => f[p] # f[q]}

AllFaults == {"database", "sync", "crash", "peersLost", "giveUp", "reset"}

==============================================================================
