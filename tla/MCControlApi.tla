----------------------------- MODULE MCControlApi -----------------------------
(***************************************************************************)
(* Instances of ControlApi for TLC.                                        *)
(***************************************************************************)
EXTENDS ControlApi, TLC

Symmetric == Permutations(Users) \cup Permutations(Names) \cup Permutations(Keys)
             \cup Permutations(Requests)

AllFaults == {"database", "sync", "crash", "peersLost"}
NoFaults  == {}

==============================================================================
