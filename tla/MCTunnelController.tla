------------------------- MODULE MCTunnelController -------------------------
(***************************************************************************)
(* Instances of TunnelController for TLC.  They differ in the failures     *)
(* that can happen.                                                        *)
(***************************************************************************)
EXTENDS TunnelController, TLC

\* The keys and the endpoints are interchangeable.
Symmetric == Permutations(Keys) \cup Permutations(Endpoints)

AllFaults      == FaultKinds
KeysAreWritten == FaultKinds \ {"writeKey", "tornWrite"}
FailedWrite    == {"writeKey"}
StaleMarker    == {"crash", "foreign"}

=============================================================================
