------------------------ MODULE MCMachinePlacement ------------------------
EXTENDS MachinePlacement, TLC

\* Names, domains and hashes are compared and never ordered.
PlacementSymmetry == Permutations(MachineId) \cup Permutations(Domain) \cup Permutations(Hash)
===========================================================================
