-------------------------- MODULE MachinePlacement --------------------------
(***************************************************************************)
(* How the machines of a control plane move between failure domains over   *)
(* its life: initialization spreads them with PickNFewest, every step of a *)
(* rolling upgrade adds one with PickFewest or removes the one that        *)
(* selectMachineForScaleDown picks.  In between the user edits the spec or *)
(* takes an edit back, and the infrastructure provider adds and withdraws  *)
(* domains.                                                                *)
(*                                                                         *)
(* A pass is cut in two (CritControlPlane has all of its calls): it reads  *)
(* the Cluster and the spec and counts the nodes; later it checks that     *)
(* every machine is a node and acts on what it has read.  It reads from    *)
(* up-to-date caches; calls do not fail, and a machine that is deleted is  *)
(* gone before the next pass gets past its health check.                   *)
(***************************************************************************)
EXTENDS FailureDomains

CONSTANTS
    MachineId,      \* names; the name of a machine that is gone may be used again
    Domain,         \* all failure domains the provider can report
    Hash,           \* specs, as their hash
    NoHash,         \* the label of no machine
    Replicas,       \* Spec.Replicas
    MaxUpgrades,    \* bound on changes of the spec
    MaxChanges      \* bound on changes of the set of domains

ASSUME PlacementAssumption ==
    /\ Replicas \in Nat \ {0} /\ MaxUpgrades \in Nat /\ MaxChanges \in Nat
    /\ IsFiniteSet(MachineId) /\ IsFiniteSet(Domain) /\ NoFD \notin Domain
    /\ NoHash \notin Hash

VARIABLES
    domains,        \* Cluster.Status.FailureDomains.FilterControlPlane()
    spec,           \* CritControlPlaneSpec
    live,           \* the machines
    nodes,          \* those whose node has joined
    domainOf,       \* Spec.FailureDomain
    hashOf,         \* the hash label
    created,        \* creation timestamp, in seconds
    clock,          \* the present second
    running, read,  \* a pass that has counted the nodes, and what it has read
    prior,          \* history: the hashes in use when the domains last changed
    upgrades, changes

machineVars == <<live, nodes, domainOf, hashOf, created, clock>>
vars == <<domains, spec, machineVars, running, read, prior, upgrades, changes>>

TypeOK ==
    /\ domains \in SUBSET Domain /\ spec \in Hash
    /\ live \in SUBSET MachineId /\ nodes \in SUBSET live
    /\ domainOf \in [MachineId -> Domain \cup {NoFD}]
    /\ hashOf \in [MachineId -> Hash \cup {NoHash}]
    /\ created \in [MachineId -> Nat] /\ clock \in Nat
    /\ running \in BOOLEAN
    /\ read \in [domains : SUBSET Domain, spec : Hash \cup {NoHash}, nodes : Nat]
    /\ prior \in SUBSET Hash
    /\ upgrades \in 0..MaxUpgrades /\ changes \in 0..MaxChanges

NothingRead == [domains |-> {}, spec |-> NoHash, nodes |-> 0]

Init ==
    /\ domains \in SUBSET Domain /\ spec \in Hash
    /\ live = {} /\ nodes = {}
    /\ domainOf = [m \in MachineId |-> NoFD] /\ hashOf = [m \in MachineId |-> NoHash]
    /\ created = [m \in MachineId |-> 0] /\ clock = 0
    /\ running = FALSE /\ read = NothingRead /\ prior = {}
    /\ upgrades = MaxUpgrades /\ changes = MaxChanges

-----------------------------------------------------------------------------
(* The pass *)

\* MachinesNeedingUpgrade: the hash label is compared with that of the spec, so a
\* machine is up to date again when an edit is taken back.
MachinesNeedingUpgrade(hash) == {m \in live : hashOf[m] # hash}

\* A pass that has something to do reads Cluster, spec and machines, and for an
\* upgrade counts the nodes, which it can once an API server answers.
Count ==
    /\ ~running
    /\ live = {} \/ (MachinesNeedingUpgrade(spec) # {} /\ nodes # {})
    /\ running' = TRUE
    /\ read' = [domains |-> domains, spec |-> spec, nodes |-> Cardinality(nodes)]
    /\ UNCHANGED <<domains, spec, machineVars, prior, upgrades, changes>>

EndPass == running' = FALSE /\ read' = NothingRead

\* The initialization branch of reconcileControlPlane: one machine for each of
\* the Replicas domains picked.  In the same second: which is the oldest is left open.
Initialize ==
    /\ running /\ live = {}
    /\ \E ms \in SUBSET MachineId :
          /\ Cardinality(ms) = Replicas
          /\ \E order \in [1..Replicas -> ms],
                fds \in NFailureDomainsWithFewestMachines(read.domains, live, domainOf, Replicas) :
                /\ \A i, j \in 1..Replicas : i # j => order[i] # order[j]
                /\ live' = ms
                /\ domainOf' = [m \in MachineId |->
                                  IF m \in ms THEN fds[CHOOSE i \in 1..Replicas : order[i] = m]
                                              ELSE NoFD]
                /\ hashOf' = [m \in MachineId |-> IF m \in ms THEN read.spec ELSE NoHash]
    /\ EndPass
    /\ UNCHANGED <<domains, spec, nodes, created, clock, prior, upgrades, changes>>

\* Mutant: a machine that is no node yet does not count.
MutHealthy == nodes # {}

\* reconcileHealth: nodes and machines match one to one.
Healthy == nodes = live

Unhealthy ==
    /\ running /\ live # {} /\ ~Healthy
    /\ EndPass
    /\ UNCHANGED <<domains, spec, machineVars, prior, upgrades, changes>>

\* scaleUpControlPlane, when no more nodes than replicas were counted.
ScaleUp ==
    /\ running /\ live # {} /\ read.nodes <= Replicas /\ Healthy
    /\ \E m \in MachineId \ live,
          d \in FailureDomainWithFewestMachines(read.domains, live, domainOf),
          now \in {clock, clock + 1} :
          /\ live' = live \cup {m}
          /\ domainOf' = [domainOf EXCEPT ![m] = d]
          /\ hashOf' = [hashOf EXCEPT ![m] = read.spec]
          /\ created' = [created EXCEPT ![m] = now]
          /\ clock' = now
    /\ EndPass
    /\ UNCHANGED <<domains, spec, nodes, prior, upgrades, changes>>

\* Mutant: the domain with the most machines overall, whether or not it holds a
\* machine that needs the upgrade.
MutSelectMachineForScaleDown ==
    LET outdated == MachinesNeedingUpgrade(read.spec) IN
    UNION {Oldest(InFailureDomains(outdated, domainOf, {d}), created) :
             d \in FailureDomainWithMostMachines(read.domains, live, live, domainOf, created)}

\* selectMachineForScaleDown, when some machine needs the upgrade.
SelectMachineForScaleDown ==
    MachineInFailureDomainWithMostMachines(read.domains, live, MachinesNeedingUpgrade(read.spec),
                                           domainOf, created)

\* Mutant: the machine goes and its node stays.
MutScaleDown ==
    /\ running /\ live # {} /\ read.nodes > Replicas /\ Healthy
    /\ \E m \in SelectMachineForScaleDown :
          /\ live' = live \ {m}
          /\ domainOf' = [domainOf EXCEPT ![m] = NoFD]
          /\ hashOf' = [hashOf EXCEPT ![m] = NoHash]
          /\ created' = [created EXCEPT ![m] = 0]
    /\ EndPass
    /\ UNCHANGED <<domains, spec, nodes, clock, prior, upgrades, changes>>

\* scaleDownControlPlane, when more nodes than replicas were counted.
ScaleDown ==
    /\ running /\ live # {} /\ read.nodes > Replicas /\ Healthy
    /\ \E m \in SelectMachineForScaleDown :
          /\ live' = live \ {m} /\ nodes' = nodes \ {m}
          /\ domainOf' = [domainOf EXCEPT ![m] = NoFD]
          /\ hashOf' = [hashOf EXCEPT ![m] = NoHash]
          /\ created' = [created EXCEPT ![m] = 0]
    /\ EndPass
    /\ UNCHANGED <<domains, spec, clock, prior, upgrades, changes>>

-----------------------------------------------------------------------------
(* Nodes, user and provider, at any time *)

Join ==
    /\ \E m \in live \ nodes : nodes' = nodes \cup {m}
    /\ UNCHANGED <<domains, spec, live, domainOf, hashOf, created, clock, running, read, prior,
                   upgrades, changes>>

\* The user changes the spec, to a new one or back to an earlier one.
ChangeSpec ==
    /\ upgrades > 0 /\ upgrades' = upgrades - 1
    /\ \E hash \in Hash \ {spec} : spec' = hash
    /\ UNCHANGED <<domains, machineVars, running, read, prior, changes>>

\* The infrastructure provider reports a domain more or a domain less.
ChangeDomains ==
    /\ changes > 0 /\ changes' = changes - 1
    /\ \E d \in Domain :
          domains' = IF d \in domains THEN domains \ {d} ELSE domains \cup {d}
    /\ prior' = (({hashOf[m] : m \in live} \cup {spec, read.spec}) \ {NoHash})
    /\ UNCHANGED <<spec, machineVars, running, read, upgrades>>

Pass == Count \/ Initialize \/ Unhealthy \/ ScaleUp \/ ScaleDown

Next == Pass \/ Join \/ ChangeSpec \/ ChangeDomains

Spec == Init /\ [][Next]_vars

-----------------------------------------------------------------------------
(* Properties *)

\* An upgrade never goes below the replicas, and at most two machines above: one that
\* it adds, and one more when that node joins after the nodes were counted
\* (upgrade.go:27) and before the health check.
SizeBounded == live # {} => Cardinality(live) \in Replicas..(Replicas + 2)

MachinesIn(d) == Cardinality({m \in live : domainOf[m] = d})

\* While the domains do not change: what initialization spreads differs by one
\* machine at most, and no sequence of upgrades, surplus machines and edits taken
\* back ever gives a domain more than its share of the most machines there can be,
\* Replicas + 2 over the number of domains, rounded up.  (With two domains all of
\* three machines may still end up in one, with three they do not.)
StaysSpread ==
    changes = MaxChanges =>
        /\ upgrades = MaxUpgrades =>
              \A d, e \in domains : MachinesIn(d) <= MachinesIn(e) + 1
        /\ \A d \in domains : (MachinesIn(d) - 1) * Cardinality(domains) <= Replicas + 1

\* A domain the provider withdraws is evacuated by the next upgrade to a spec that was
\* not in use when it was: when all machines are up to date with it, every one is in
\* a reported domain.  An edit that is taken back evacuates nothing.
Evacuated ==
    (spec \notin prior /\ MachinesNeedingUpgrade(spec) = {} /\ domains # {}) =>
        \A m \in live : domainOf[m] \in domains

\* selectMachineForScaleDown never fails to pick ("failed to pick control plane
\* Machine", control_plane.go:134) in a pass that upgrades: whatever domains were
\* withdrawn, and wherever the machines are.
AlwaysPicks == running /\ live # {} => SelectMachineForScaleDown # {}

=============================================================================
