------------------------ MODULE ClusterCertificates ------------------------
(***************************************************************************)
(* internal/secret/certificates.go: the CA key pairs of a cluster, kept in *)
(* one secret per purpose, looked up or generated by every pass of the     *)
(* control plane controller and by every pass of the bootstrap controller  *)
(* for a control plane CritConfig.  The passes run concurrently, read the  *)
(* shared informer cache and share no lock; only the API server decides    *)
(* whose Create comes first.                                               *)
(*                                                                         *)
(* A key pair is a number; a generated one is different from all that are  *)
(* stored or held.  Worker configs only look the cluster CA up.            *)
(***************************************************************************)
EXTENDS Integers, Sequences, FiniteSets

CONSTANTS
    Config,         \* control plane CritConfigs
    Worker,         \* worker CritConfigs
    CCP,            \* the CritControlPlane, or the pass for it
    Purposes,       \* the list of NewCertificatesForControlPlane
    MaxKeys,        \* bound on the key pairs of one purpose in use at a time
    Modes,          \* "managed": the configs are those of a CritControlPlane;
                    \* "standalone": there is none
    DeleteModes,    \* modes in which configs may be deleted with their machines
    MaxFaults,      \* bound on failed calls and crashes
    None            \* no owner

Purpose == {Purposes[i] : i \in 1..Len(Purposes)}
Actor == Config \cup {CCP}
Key == 0..MaxKeys       \* 0: no key pair

ASSUME CertificatesAssumption ==
    /\ Purposes \in Seq(STRING)
    /\ \A i, j \in 1..Len(Purposes) : Purposes[i] = Purposes[j] => i = j
    /\ "ca" \in Purpose
    /\ CCP \notin Config \cup Worker /\ Config \cap Worker = {} /\ None \notin Actor
    /\ MaxKeys \in Nat \ {0} /\ MaxFaults \in Nat
    /\ Modes \subseteq {"managed", "standalone"} /\ DeleteModes \subseteq Modes

VARIABLES
    mode,           \* how the configs come about; it never changes
    secrets,        \* the key pair stored for every purpose
    owner,          \* the controller reference of its secret, None for the user's
    cache,          \* the secrets in the informer cache
    exists,         \* CritConfigs that exist
    managed,        \* a pass of the CritControlPlane got all certificates
    pc, at,         \* where the pass of an actor is, and at which certificate
    held,           \* Certificate.KeyPair, by actor and purpose
    generated,      \* Certificate.Generated
    data,           \* the key pairs in the bootstrap data of a config
    faults

vars == <<mode, secrets, owner, cache, exists, managed, pc, at, held, generated, data, faults>>

NoKeys == [p \in Purpose |-> 0]

\* AsSecret and AsFiles dereference the KeyPair: none is nil once Generate is done.
TypeOK ==
    /\ mode \in {"managed", "standalone"}
    /\ secrets \in [Purpose -> Key] /\ cache \in [Purpose -> Key]
    /\ owner \in [Purpose -> Actor \cup {None}]
    /\ exists \in SUBSET (Config \cup Worker) /\ managed \in BOOLEAN
    /\ pc \in [Actor -> {"idle", "lookup", "save", "store"}]
    /\ at \in [Actor -> 1..(Len(Purposes) + 1)]
    /\ held \in [Actor -> [Purpose -> Key]] /\ generated \in [Actor -> SUBSET Purpose]
    /\ \A a \in Actor : pc[a] \in {"save", "store"} => \A p \in Purpose : held[a][p] # 0
    /\ data \in [Config \cup Worker -> [Purpose -> Key]]
    /\ faults \in 0..MaxFaults

\* The user may have supplied some of the certificates.
Init ==
    /\ mode \in Modes
    /\ \E supplied \in SUBSET Purpose :
          secrets = [p \in Purpose |-> IF p \in supplied THEN 1 ELSE 0]
    /\ owner = [p \in Purpose |-> None] /\ cache = secrets
    /\ exists = {} /\ managed = FALSE
    /\ pc = [a \in Actor |-> "idle"] /\ at = [a \in Actor |-> 1]
    /\ held = [a \in Actor |-> NoKeys] /\ generated = [a \in Actor |-> {}]
    /\ data = [a \in Config \cup Worker |-> NoKeys]
    /\ faults = MaxFaults

-----------------------------------------------------------------------------
(* The configs *)

\* Mutant: configs are generated before the certificates.
MutMayGenerate == TRUE

\* reconcileControlPlane has the certificates before it generates a config.
MayGenerate == mode = "managed" => managed

\* A control plane config is created by the CritControlPlane, or by the user.
CreateConfig(a) ==
    /\ a \in Config \ exists /\ data[a] = NoKeys /\ MayGenerate
    /\ exists' = exists \cup {a}
    /\ UNCHANGED <<mode, secrets, owner, cache, managed, pc, at, held, generated, data, faults>>

\* A config goes with its machine; the garbage collector deletes what it owns.
DeleteConfig(a) ==
    /\ mode \in DeleteModes /\ a \in Config \cap exists /\ pc[a] = "idle"
    /\ exists' = exists \ {a}
    /\ secrets' = [p \in Purpose |-> IF owner[p] = a THEN 0 ELSE secrets[p]]
    /\ owner' = [p \in Purpose |-> IF owner[p] = a THEN None ELSE owner[p]]
    /\ UNCHANGED <<mode, cache, managed, pc, at, held, generated, data, faults>>

-----------------------------------------------------------------------------
(* LookupOrGenerate, by the pass of actor a *)

EndPass(a) ==
    /\ pc' = [pc EXCEPT ![a] = "idle"] /\ at' = [at EXCEPT ![a] = 1]
    /\ held' = [held EXCEPT ![a] = NoKeys] /\ generated' = [generated EXCEPT ![a] = {}]

Start(a) ==
    /\ pc[a] = "idle"
    /\ a \in exists \/ (a = CCP /\ mode = "managed")
    /\ pc' = [pc EXCEPT ![a] = "lookup"]
    /\ UNCHANGED <<mode, secrets, owner, cache, exists, managed, at, held, generated, data, faults>>

\* Lookup: one secret after the other from the cache; a missing one is passed over.
Lookup(a) ==
    /\ pc[a] = "lookup" /\ at[a] <= Len(Purposes)
    /\ LET p == Purposes[at[a]] IN held' = [held EXCEPT ![a][p] = cache[p]]
    /\ at' = [at EXCEPT ![a] = @ + 1]
    /\ UNCHANGED <<mode, secrets, owner, cache, exists, managed, pc, generated, data, faults>>

\* The key pairs that nobody has, and a new one.
Unused(p) ==
    {k \in 1..MaxKeys :
        /\ k # secrets[p] /\ k # cache[p]
        /\ \A a \in Actor : k # held[a][p]
        /\ \A c \in Config \cup Worker : k # data[c][p]}

Fresh(p) == CHOOSE k \in Unused(p) : TRUE

\* Mutant: a cluster that has some certificates is taken to have all.
MutMissing(a) ==
    LET missing == {p \in Purpose : held[a][p] = 0}
    IN  IF missing = Purpose THEN missing ELSE {}

\* Mutant: the cluster CA is left to the user, as that of an external etcd is.
MutSkipped(a) == {p \in Purpose \ {"ca"} : held[a][p] = 0}

Missing(a) == {p \in Purpose : held[a][p] = 0}

\* Generate: every certificate that was not found.
Generate(a) ==
    /\ pc[a] = "lookup" /\ at[a] = Len(Purposes) + 1
    /\ \A p \in Missing(a) : Unused(p) # {}
    /\ held' = [held EXCEPT ![a] = [p \in Purpose |-> IF p \in Missing(a) THEN Fresh(p)
                                                                        ELSE held[a][p]]]
    /\ generated' = [generated EXCEPT ![a] = Missing(a)]
    /\ pc' = [pc EXCEPT ![a] = "save"] /\ at' = [at EXCEPT ![a] = 1]
    /\ UNCHANGED <<mode, secrets, owner, cache, exists, managed, data, faults>>

\* Mutant: a secret that exists by now is no error.
MutCreateConflicts(p) == FALSE

\* AlreadyExists
CreateConflicts(p) == secrets[p] # 0

\* SaveGenerated: one Create per generated certificate, in order; the first error
\* ends the pass and leaves what was created before it.
SaveGenerated(a) ==
    /\ pc[a] = "save" /\ at[a] <= Len(Purposes)
    /\ LET p == Purposes[at[a]]
           created == /\ secrets[p] = 0
                      /\ secrets' = [secrets EXCEPT ![p] = held[a][p]]
                      /\ owner' = [owner EXCEPT ![p] = a]
       IN  \/ /\ p \notin generated[a] \/ ~CreateConflicts(p)
              /\ \/ p \in generated[a] /\ created
                 \/ (p \notin generated[a] \/ secrets[p] # 0) /\ UNCHANGED <<secrets, owner>>
              /\ at' = [at EXCEPT ![a] = @ + 1]
              /\ UNCHANGED <<pc, held, generated, faults>>
           \/ /\ p \in generated[a] /\ CreateConflicts(p)
              /\ EndPass(a)
              /\ UNCHANGED <<secrets, owner, faults>>
           \/ /\ p \in generated[a] /\ faults > 0 /\ faults' = faults - 1
              /\ created \/ UNCHANGED <<secrets, owner>>
              /\ EndPass(a)
    /\ UNCHANGED <<mode, cache, exists, managed, data>>

\* The pass goes on with certificates that are all stored.
Saved(a) ==
    /\ pc[a] = "save" /\ at[a] = Len(Purposes) + 1
    /\ \/ a = CCP /\ managed' = TRUE /\ EndPass(a)
       \/ a # CCP /\ pc' = [pc EXCEPT ![a] = "store"] /\ UNCHANGED <<managed, at, held, generated>>
    /\ UNCHANGED <<mode, secrets, owner, cache, exists, data, faults>>

\* Certificates.AsFiles: every certificate but that of the auth proxy.
AsFiles(keys) == [p \in Purpose |-> IF p = "authproxy" THEN 0 ELSE keys[p]]

\* storeBootstrapData: data that exists stays.
StoreBootstrapData(a) ==
    /\ pc[a] = "store"
    /\ data' = IF data[a] = NoKeys THEN [data EXCEPT ![a] = AsFiles(held[a])] ELSE data
    /\ EndPass(a)
    /\ UNCHANGED <<mode, secrets, owner, cache, exists, managed, faults>>

\* reconcileWorkerCertificates, once the control plane is initialized: Lookup of
\* the cluster CA, EnsureAllExist, and its certificate goes into the data.
WorkerPass(w) ==
    /\ w \in Worker /\ data[w] = NoKeys
    /\ \E a \in Config : data[a] # NoKeys
    /\ cache["ca"] # 0
    /\ data' = [data EXCEPT ![w]["ca"] = cache["ca"]]
    /\ exists' = exists \cup {w}
    /\ UNCHANGED <<mode, secrets, owner, cache, managed, pc, at, held, generated, faults>>

-----------------------------------------------------------------------------

\* The informer reports a secret.
SyncSecret(p) ==
    /\ cache[p] # secrets[p]
    /\ cache' = [cache EXCEPT ![p] = secrets[p]]
    /\ UNCHANGED <<mode, secrets, owner, exists, managed, pc, at, held, generated, data, faults>>

\* The manager restarts: all passes are lost, and the informers list afresh.
Crash ==
    /\ faults > 0 /\ faults' = faults - 1
    /\ \E a \in Actor : pc[a] # "idle"
    /\ cache' = secrets
    /\ pc' = [a \in Actor |-> "idle"] /\ at' = [a \in Actor |-> 1]
    /\ held' = [a \in Actor |-> NoKeys] /\ generated' = [a \in Actor |-> {}]
    /\ UNCHANGED <<mode, secrets, owner, exists, managed, data>>

Pass(a) ==
    \/ Start(a) \/ Lookup(a) \/ Generate(a) \/ SaveGenerated(a) \/ Saved(a)
    \/ StoreBootstrapData(a)

Next ==
    \/ \E a \in Actor : Pass(a)
    \/ \E a \in Config : CreateConfig(a) \/ DeleteConfig(a)
    \/ \E w \in Worker : WorkerPass(w)
    \/ \E p \in Purpose : SyncSecret(p)
    \/ Crash

Spec == Init /\ [][Next]_vars

\* Failed passes are retried and the informers never stop.
FairSpec ==
    /\ Spec
    /\ \A a \in Actor : WF_vars(Pass(a))
    /\ \A a \in Config : WF_vars(CreateConfig(a))
    /\ \A p \in Purpose : WF_vars(SyncSecret(p))

-----------------------------------------------------------------------------
(* Properties *)

Ready == {a \in Config \cup Worker : data[a] # NoKeys}

\* All nodes of a cluster trust the same authorities: what two configs have in
\* their bootstrap data for one purpose is the same, and is what is stored.
OneIdentity ==
    \A a \in Ready, p \in Purpose : data[a][p] # 0 => data[a][p] = secrets[p]

\* Control plane nodes carry all that have a file, workers the cluster CA.
Identity ==
    INSTANCE ClusterIdentity
    WITH Authority <- 1..MaxKeys, Nobody <- 0, Node <- Config \cup Worker,
         Carries <- [n \in Config \cup Worker |->
                        IF n \in Config THEN Purpose \ {"authproxy"} ELSE {"ca"}],
         authority <- secrets, trust <- data

\* Several passes that look up, generate and save one secret after the other, any of
\* which may fail or crash half-way, act as one authority per purpose that is
\* established once, and no node boots without one or with another.
ImplementsIdentity == Identity!Spec

\* However the passes collide and whatever a partial save left behind, every
\* config that is not deleted gets its bootstrap data.
EveryConfigReady == \A a \in Config : a \in exists ~> (data[a] # NoKeys \/ a \notin exists)

=============================================================================
