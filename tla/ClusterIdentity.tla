-------------------------- MODULE ClusterIdentity --------------------------
(***************************************************************************)
(* What the nodes of a cluster need of its certificates: one authority for *)
(* every purpose, which whoever comes first establishes for good, and     *)
(* nodes that boot with all authorities they carry, complete and           *)
(* established.  ClusterCertificates implements this with one secret per   *)
(* purpose and controllers that share no lock.                             *)
(***************************************************************************)
CONSTANTS
    Purpose,        \* what an authority is for
    Authority,      \* the possible authorities
    Nobody,         \* no authority
    Node,
    Carries         \* the purposes whose authority a node is given, by node

VARIABLES
    authority,      \* the authority for every purpose
    trust           \* the authorities a node was given, by node and purpose

identity == <<authority, trust>>

Nothing == [p \in Purpose |-> Nobody]

\* The user may have brought authorities.
Init ==
    /\ authority \in [Purpose -> Authority \cup {Nobody}]
    /\ trust = [n \in Node |-> Nothing]

Establish(p) ==
    /\ authority[p] = Nobody
    /\ \E k \in Authority : authority' = [authority EXCEPT ![p] = k]
    /\ UNCHANGED trust

Boot(n) ==
    /\ trust[n] = Nothing
    /\ \A p \in Carries[n] : authority[p] # Nobody
    /\ trust' = [trust EXCEPT ![n] = [p \in Purpose |-> IF p \in Carries[n] THEN authority[p]
                                                                            ELSE Nobody]]
    /\ UNCHANGED authority

Next == (\E p \in Purpose : Establish(p)) \/ (\E n \in Node : Boot(n))

Spec == Init /\ [][Next]_identity

=============================================================================
