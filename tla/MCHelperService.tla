---------------------------- MODULE MCHelperService ----------------------------
(***************************************************************************)
(* Instances of HelperService for TLC.                                     *)
(***************************************************************************)
EXTENDS HelperService, TLC

\* Connections are interchangeable.
Symmetric == Permutations(Threads)

BothUnmarked == {"connect", "disconnect"}
AllAdvanced  == {"reset", "diagnostics"}

================================================================================
