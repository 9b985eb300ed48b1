-------------------------- MODULE AddressScanProofs --------------------------
(***************************************************************************)
(* The allocation loop for every subnet and every set of used addresses.   *)
(***************************************************************************)
EXTENDS AddressScan, TLAPS

\* The loop invariant: no address below i is free.
ScanInv ==
    /\ TypeOK
    /\ pc = "scan" => ip = None /\ \A j \in Free(base, ones, used) : i <= j
    /\ FindsLowestFree

LEMMA ScanInvHolds == Spec => []ScanInv
  <1> USE ScanAssumption DEF ScanAssumption, Free, Candidates, FindsLowestFree, IsLowest, TypeOK
  <1>1. Init => ScanInv
    BY DEF Init, ScanInv
  <1>2. ScanInv /\ [Next]_vars => ScanInv'
    <2> SUFFICES ASSUME ScanInv, [Next]_vars
                 PROVE  ScanInv'
      OBVIOUS
    <2> USE DEF ScanInv, subnet
    <2>1. CASE Call
      BY <2>1 DEF Call
    <2>2. CASE Probe
      BY <2>2 DEF Probe
    <2>3. CASE Exhausted
      BY <2>3 DEF Exhausted
    <2>4. CASE Lease
      BY <2>4 DEF Lease
    <2>5. CASE Release
      BY <2>5 DEF Release
    <2>6. CASE UNCHANGED vars
      BY <2>6 DEF vars
    <2>7. QED
      BY <2>1, <2>2, <2>3, <2>4, <2>5, <2>6 DEF Next
  <1>3. QED
    BY <1>1, <1>2, PTL DEF Spec

\* The loop variable stays within 2..254 and every result within the subnet's range.
THEOREM ScanTypeCorrect == Spec => []TypeOK
  <1>1. ScanInv => TypeOK
    BY DEF ScanInv
  <1>2. QED
    BY <1>1, ScanInvHolds, PTL

\* nextAssignedIP returns the lowest free address of the subnet, or none when
\* none is free.
THEOREM ScanFindsLowestFree == Spec => []FindsLowestFree
  <1>1. ScanInv => FindsLowestFree
    BY DEF ScanInv
  <1>2. QED
    BY <1>1, ScanInvHolds, PTL

==============================================================================
