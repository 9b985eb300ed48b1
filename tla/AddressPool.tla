----------------------------- MODULE AddressPool -----------------------------
(***************************************************************************)
(* The addresses the control API leases to devices.  The subnet is given   *)
(* by its base address and its prefix length; candidates share the first   *)
(* three octets of the base address, so an address is its last octet.      *)
(***************************************************************************)
EXTENDS Integers

\* IPNet.Contains: the bits below the first three octets that the mask keeps.
Contains(base, ones, i) ==
    LET host == 32 - ones
    IN  ones <= 24 \/ i \div 2^host = base \div 2^host

Candidates(base, ones) == {i \in 2..253 : Contains(base, ones, i)}

Free(base, ones, used) == Candidates(base, ones) \ used

IsLowest(i, S) == i \in S /\ \A j \in S : i <= j

==============================================================================
