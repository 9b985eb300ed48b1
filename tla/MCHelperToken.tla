---------------------------- MODULE MCHelperToken ----------------------------
(***************************************************************************)
(* Instances of HelperToken for TLC.                                       *)
(***************************************************************************)
EXTENDS HelperToken

RepairOrInstall == {"repair", "install"}
OnlyInstall     == {"install"}

==============================================================================
