------------------------ MODULE MCCritControlPlane ------------------------
(* Model-checking instances of CritControlPlane.                            *)
EXTENDS CritControlPlane, TLC

\* Machine names are generated at random and nothing is ordered by them.
MachineSymmetry == Permutations(Orphan) \cup Permutations(MachineId \ Orphan)
===========================================================================
