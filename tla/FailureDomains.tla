--------------------------- MODULE FailureDomains ---------------------------
(***************************************************************************)
(* The placement algorithms of the control plane: internal/                *)
(* failure_domain.go, internal/machine_collection.go, the domain filters   *)
(* of internal/machinefilters and the methods of internal/control_plane.go *)
(* that combine them.                                                      *)
(*                                                                         *)
(* The Go code ranges over maps and sorts with an unstable sort, so a tie  *)
(* between two domains, and a tie between two creation timestamps of the   *)
(* same second, is broken by chance (map order, generated names).  Every   *)
(* operator here therefore returns the SET of results the code can return. *)
(*                                                                         *)
(* Arguments used throughout:                                              *)
(*   domains   the failure domains of Cluster.Status that are fit for the  *)
(*             control plane (FilterControlPlane)                          *)
(*   fdOf      the Spec.FailureDomain of every machine, NoFD for nil       *)
(*   created   the creation timestamp of every machine, in seconds         *)
(*   all       the machines of the control plane (ControlPlane.Machines)   *)
(*   ms        the subset an operation is asked about                      *)
(***************************************************************************)
EXTENDS Integers, FiniteSets, Sequences

CONSTANT NoFD           \* Machine.Spec.FailureDomain = nil

\* machines.Filter(InFailureDomains(ds...)): a nil entry matches only nil,
\* so equality of values with NoFD for nil is exactly the Go comparison.
InFailureDomains(ms, fdOf, ds) == {m \in ms : fdOf[m] \in ds}

\* Oldest: head of SortedByCreationTimestamp, empty when there is no machine.
Oldest(ms, created) == {m \in ms : \A n \in ms : created[m] <= created[n]}

\* pick: the number of machines in each known domain; machines without a
\* domain, or in a domain that is no longer known, are not counted.
pick(domains, ms, fdOf) ==
    [d \in domains |-> Cardinality({m \in ms : fdOf[m] = d})]

\* The orders sort.Sort can leave the aggregations in: increasing counts,
\* equal counts in any order.
Ascending(domains, ms, fdOf) ==
    LET count == pick(domains, ms, fdOf)
        N     == Cardinality(domains)
    IN  {order \in [1..N -> domains] :
            /\ \A i, j \in 1..N : i # j => order[i] # order[j]
            /\ \A i, j \in 1..N : i <= j => count[order[i]] <= count[order[j]]}

\* Mutant: a machine in an unknown domain gives that domain a counter.
MutPickFewest(domains, ms, fdOf) ==
    LET known == domains \cup ({fdOf[m] : m \in ms} \ {NoFD})
    IN  IF domains = {} THEN {NoFD}
        ELSE {d \in known : \A e \in known : pick(known, ms, fdOf)[d] <= pick(known, ms, fdOf)[e]}

\* PickFewest: the head of such an order, nil when no domain is known.
PickFewest(domains, ms, fdOf) ==
    IF domains = {} THEN {NoFD}
    ELSE {d \in domains : \A e \in domains :
            pick(domains, ms, fdOf)[d] <= pick(domains, ms, fdOf)[e]}

\* Mutant: the first domain every time.
MutPickNFewest(domains, ms, fdOf, n) ==
    IF domains = {} THEN {[i \in 1..n |-> NoFD]}
    ELSE {[i \in 1..n |-> order[1]] : order \in Ascending(domains, ms, fdOf)}

\* PickNFewest: n domains, cycling through the sorted ones when n exceeds
\* their number; n nils when no domain is known.
PickNFewest(domains, ms, fdOf, n) ==
    IF domains = {} THEN {[i \in 1..n |-> NoFD]}
    ELSE {[i \in 1..n |-> order[((i - 1) % Cardinality(domains)) + 1]] :
              order \in Ascending(domains, ms, fdOf)}

\* PickMost: walking the domains from the one with the most control plane
\* machines down, the first that also holds a machine of ms; nil if none does.
PickMost(domains, all, ms, fdOf) ==
    LET count    == pick(domains, all, fdOf)
        occupied == {d \in domains : \E m \in ms : fdOf[m] = d}
    IN  IF occupied = {} THEN {NoFD}
        ELSE {d \in occupied : \A e \in occupied : count[d] >= count[e]}

\* FailureDomainWithMostMachines: a machine outside every known domain takes
\* precedence, the oldest one deciding.
FailureDomainWithMostMachines(domains, all, ms, fdOf, created) ==
    LET notInFailureDomains == ms \ InFailureDomains(ms, fdOf, domains)
    IN  IF notInFailureDomains # {}
        THEN {fdOf[m] : m \in Oldest(notInFailureDomains, created)}
        ELSE PickMost(domains, all, ms, fdOf)

\* MachineInFailureDomainWithMostMachines: the oldest machine of that domain.
\* The empty set is the error "failed to pick control plane Machine".
MachineInFailureDomainWithMostMachines(domains, all, ms, fdOf, created) ==
    UNION {Oldest(InFailureDomains(ms, fdOf, {d}), created) :
             d \in FailureDomainWithMostMachines(domains, all, ms, fdOf, created)}

\* FailureDomainWithFewestMachines / NFailureDomainsWithFewestMachines: the
\* same over all machines of the control plane.
FailureDomainWithFewestMachines(domains, all, fdOf) ==
    PickFewest(domains, all, fdOf)

NFailureDomainsWithFewestMachines(domains, all, fdOf, n) ==
    PickNFewest(domains, all, fdOf, n)
=============================================================================
